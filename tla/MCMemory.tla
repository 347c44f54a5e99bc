------------------------------ MODULE MCMemory ------------------------------
(* Machines and programs for checking AddressSpace.                        *)
EXTENDS AddressSpace

(* One unit is half a frame.  A machine with a gap and ragged edges, one   *)
(* whose frames are plenty, and one whose memory ends at 4 GB, of which    *)
(* pmm_init takes nothing: base + length is 0 there.                       *)
OneFrame == [base |-> 10, length |-> 1]
Ragged   == {[base |-> 0, length |-> 13], [base |-> 15, length |-> 10]}
Plenty   == {[base |-> 0, length |-> 23]}
ToTheTop == {[base |-> 0, length |-> 32]}
Maps     == {Ragged, Plenty, ToTheTop}

(* An image of two segments on one page.                                   *)
TwoSegments  == <<1, 1>>
Programs     == {TwoSegments}

(* Growth within a table and into the next, a shrink, and a decrement that *)
(* carries the heap's end past 0 into the kernel's addresses.              *)
Amounts == {6, -3, -8}

(* The heap's end of a dead process is not read again, and the count of    *)
(* free frames follows from the bitmap.                                    *)
MemoryView ==
    <<mmap, used, alloc_hint, live, current, dirs, heap_left, call,
      [s \in Slots |-> IF s \in live \union {current} THEN heap_end[s] ELSE 0]>>
=============================================================================
