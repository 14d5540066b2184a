---------------------------- MODULE MCMemoryPool ----------------------------
(* Addresses outside the pool are interchangeable. *)
EXTENDS MemoryPool, TLC

OutsideSymmetry == Permutations(Outside)
=============================================================================
