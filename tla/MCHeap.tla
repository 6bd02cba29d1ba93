------------------------------- MODULE MCHeap -------------------------------
(* Heap on a small region, with self-test requests in the code's proportion. *)
EXTENDS Heap

MCTestSizes == <<2, 4, 4, 3>>
=============================================================================
