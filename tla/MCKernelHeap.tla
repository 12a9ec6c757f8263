---------------------------- MODULE MCKernelHeap ----------------------------
(* Instances of KernelHeap.                                                *)
EXTENDS KernelHeap
=============================================================================
