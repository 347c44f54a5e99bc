------------------------------- MODULE MCHeap -------------------------------
(* The view for checking Heap: headers and footers that are no block's are *)
(* not read.                                                               *)
EXTENDS Heap

HeapView ==
    <<[b \in Blocks |-> hdr[b]],
      [a \in {FooterOf(b, hdr[b].size) : b \in Blocks} \intersect Addrs |-> ftr[a]],
      free_lists, heap_used, given>>
=============================================================================
