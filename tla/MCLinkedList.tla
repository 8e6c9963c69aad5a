--------------------------- MODULE MCLinkedList ---------------------------
(* Five elements: the least for which one is removed between two others    *)
(* that are neither the front nor the back.                                *)
EXTENDS LinkedList
=============================================================================
