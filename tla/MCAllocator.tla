---------------------------- MODULE MCAllocator ----------------------------
(* Instances of Allocator for TLC.                                         *)
EXTENDS Allocator, TLC

CONSTANTS n1, n2

Symmetry == Permutations(Notifiers)
=============================================================================
