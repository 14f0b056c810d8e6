---------------------------- MODULE MCLinkedList ----------------------------
(* LinkedList with interchangeable nodes: which address a new node gets    *)
(* makes no difference, so states that differ in addresses only are one.   *)
EXTENDS LinkedList

NodeSymmetry == Permutations(Nodes)
=============================================================================
