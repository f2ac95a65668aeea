------------------------------ MODULE MCSafeHeap ------------------------------
(* The runtime on a memory of a few cells; tokens are interchangeable.     *)
EXTENDS SafeHeap, TLC

Symmetry == Permutations(Token)
=============================================================================
