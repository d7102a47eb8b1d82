---------------------------- MODULE MCLinkedList ----------------------------
(* LinkedList for TLC: the addresses malloc returns are interchangeable.   *)
EXTENDS LinkedList, TLC

HeapSymmetry == Permutations(Addr)
=============================================================================
