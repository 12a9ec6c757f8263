--------------------------- MODULE MCPageFreeList ---------------------------
(* Two cores, nodes with two slots: a list of all six pages has two nodes. *)
EXTENDS PageFreeList
=============================================================================
