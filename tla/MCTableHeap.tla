---------------------------- MODULE MCTableHeap ----------------------------
(***************************************************************************)
(* Instances of TableHeap for TLC: bytes are numbers.                      *)
(***************************************************************************)
EXTENDS TableHeap

Symmetry == Permutations(Threads)

MCTuples == {<<1>>, <<2, 3>>, <<4, 4, 4, 4, 4>>}
=============================================================================
