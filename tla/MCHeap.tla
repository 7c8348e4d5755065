------------------------------- MODULE MCHeap -------------------------------
(* A heap of five two-byte pages with one-byte headers and pointers.        *)
EXTENDS Heap
=============================================================================
