------------------------------- MODULE MCHeap -------------------------------
(* An instance of Heap with words of 5 bits: one product of kcalloc         *)
(* overflows them, one does not.                                            *)
EXTENDS Heap

SomeCallocs == {<<2, 2>>, <<6, 6>>}
=============================================================================
