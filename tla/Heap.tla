-------------------------------- MODULE Heap --------------------------------
(***************************************************************************)
(* The kernel heap (kernel/mm.c): blocks of [header][payload][footer] side *)
(* by side, and a list of free blocks per size class.  Calls run with      *)
(* interrupts off.  Headers and footers are those that lie in memory, also *)
(* the ones left behind inside blocks that have grown over them.           *)
(***************************************************************************)
EXTENDS Integers, SequencesExt

CONSTANTS
    HeapBase, HeapSize, HdrSize, FtrSize, PtrSize, MinBlock, NumClasses,
    Sizes,          \* the sizes asked for
    Aligns          \* the alignments asked for: powers of two

ASSUME HeapAssumption ==
    /\ {HeapBase, HdrSize, FtrSize, PtrSize, MinBlock, NumClasses} \subseteq Nat \ {0}
    /\ HeapSize \in Nat /\ HeapSize >= HdrSize + FtrSize + MinBlock
    /\ Sizes \union Aligns \subseteq 1 .. HeapSize

VARIABLES
    hdr,            \* the header at each address: magic, size, size_class
    ftr,            \* the footer at each address: size
    free_lists, heap_used,
    given           \* what callers hold: pointer, size, and the block's payload

vars == <<hdr, ftr, free_lists, heap_used, given>>

Overhead == HdrSize + FtrSize
HeapEnd  == HeapBase + HeapSize
Addrs    == HeapBase .. HeapEnd - 1
Classes  == 0 .. NumClasses - 1
NoHeader == [magic |-> "none", size |-> 0, size_class |-> 0]
Null     == 0

Least(S) == CHOOSE x \in S : \A y \in S : x <= y
RoundUp(n, unit) == ((n + unit - 1) \div unit) * unit

size_to_class(size) ==
    Least({c \in Classes : size <= MinBlock * 2 ^ c} \union {NumClasses - 1})

(* The helpers work on a record m of hdr, ftr and free_lists.              *)
Now == [hdr |-> hdr, ftr |-> ftr, lists |-> free_lists]
FooterOf(b, size) == b + HdrSize + size
Resized(m, b, size) ==
    [m EXCEPT !.hdr[b].size = size, !.ftr[FooterOf(b, size)] = size]

OldClass(m, b) ==              \* seeded fault: the class is not computed again
    [m EXCEPT !.lists[m.hdr[b].size_class] = <<b>> \o @]
fl_push(m, b) ==
    LET cls == size_to_class(m.hdr[b].size)
    IN  [m EXCEPT !.hdr[b].size_class = cls, !.lists[cls] = <<b>> \o @]
Position(list, b) == CHOOSE k \in DOMAIN list : list[k] = b
fl_remove(m, b) ==
    [m EXCEPT !.lists[m.hdr[b].size_class] = RemoveAt(@, Position(@, b))]

(* mm_init.                                                                *)
Init ==
    LET whole == HeapSize - Overhead
        m == fl_push(
               [hdr |-> [a \in Addrs |-> IF a = HeapBase
                             THEN [magic |-> "free", size |-> whole, size_class |-> 0]
                             ELSE NoHeader],
                ftr |-> [a \in Addrs |-> IF a = FooterOf(HeapBase, whole) THEN whole ELSE 0],
                lists |-> [c \in Classes |-> <<>>]], HeapBase)
    IN  /\ hdr = m.hdr /\ ftr = m.ftr /\ free_lists = m.lists
        /\ heap_used = 0 /\ given = {}

-----------------------------------------------------------------------------
(* kmalloc: of each class only the first block is looked at.               *)
Found(size) ==
    LET fits == {c \in Classes : /\ c >= size_to_class(size) /\ free_lists[c] # <<>>
                                 /\ hdr[Head(free_lists[c])].size >= size}
    IN  IF fits = {} THEN Null ELSE Head(free_lists[Least(fits)])

Splits(remainder) == remainder >= Overhead + MinBlock

Carved(m, b, size) ==
    LET remainder == m.hdr[b].size - size
        split     == b + HdrSize + size + FtrSize
        m1 == Resized([m EXCEPT !.hdr[split].magic = "free"], split, remainder - Overhead)
    IN  IF Splits(remainder) THEN Resized(fl_push(m1, split), b, size) ELSE m

Taken(size) ==
    LET b == Found(size)
        m == Carved(fl_remove(Now, b), b, size)
    IN  [m EXCEPT !.hdr[b].magic = "used"]

(* A call that gets raw memory of asked bytes and hands out size of them   *)
(* from ptr on.                                                            *)
Handed(asked, ptr, size) ==
    LET rounded == RoundUp(asked, MinBlock)
        b == Found(rounded)
        m == Taken(rounded)
    IN  /\ b # Null
        /\ hdr' = m.hdr /\ ftr' = m.ftr /\ free_lists' = m.lists
        /\ heap_used' = heap_used + m.hdr[b].size
        /\ given' = given \union {[ptr |-> ptr, size |-> size, raw |-> b + HdrSize]}

Raw(asked) == Found(RoundUp(asked, MinBlock)) + HdrSize

kmalloc(size) == Handed(size, Raw(size), size)

(* kmalloc_aligned keeps the raw pointer in front of what it hands out.    *)
NoPadding(size, align) == size + PtrSize    \* seeded fault: no room to align
Padded(size, align) == size + align + PtrSize
kmalloc_aligned(size, align) ==
    LET asked == Padded(size, align)
    IN  Handed(asked, RoundUp(Raw(asked) + PtrSize, align), size)

(* kfree, and kfree_aligned with the raw pointer.                          *)
LeftOnly(m, b) == m            \* seeded fault: no right coalesce
MergedRight(m, b) ==
    LET right == FooterOf(b, m.hdr[b].size) + FtrSize
    IN  IF right < HeapEnd /\ m.hdr[right].magic = "free"
        THEN Resized(fl_remove(m, right), b, m.hdr[b].size + Overhead + m.hdr[right].size)
        ELSE m

NoFooter(m, b, left) ==        \* seeded fault: the footer is not written
    [fl_remove(m, left) EXCEPT !.hdr[left].size = @ + Overhead + m.hdr[b].size]
Grown(m, b, left) ==
    Resized(fl_remove(m, left), left, m.hdr[left].size + Overhead + m.hdr[b].size)

LeftOf(m, b) == b - FtrSize - m.ftr[b - FtrSize] - HdrSize
Coalesced(m, b) ==
    IF b > HeapBase /\ m.hdr[LeftOf(m, b)].magic = "free"
    THEN fl_push(Grown(m, b, LeftOf(m, b)), LeftOf(m, b))
    ELSE fl_push(m, b)

kfree(r) ==
    LET b == r.raw - HdrSize
        m == Coalesced(MergedRight([Now EXCEPT !.hdr[b].magic = "free"], b), b)
    IN  /\ hdr[b].magic = "used"
        /\ hdr' = m.hdr /\ ftr' = m.ftr /\ free_lists' = m.lists
        /\ heap_used' = heap_used - hdr[b].size
        /\ given' = given \ {r}

Next ==
    \/ \E size \in Sizes : kmalloc(size)
    \/ \E size \in Sizes, align \in Aligns : kmalloc_aligned(size, align)
    \/ \E r \in given : kfree(r)

Spec == Init /\ [][Next]_vars

-----------------------------------------------------------------------------
(* The blocks, as one finds them by going from header to header.           *)
After(b) == b + Overhead + hdr[b].size
Walk[n \in 0 .. HeapSize] ==
    IF n = 0 THEN HeapBase
    ELSE LET before == Walk[n - 1] IN IF before \in Addrs THEN After(before) ELSE before
Blocks == {Walk[n] : n \in 0 .. HeapSize} \intersect Addrs

(* The blocks cover the heap exactly, each footer says what its header     *)
(* says, and no two free blocks lie side by side: however blocks are split *)
(* and merged, from the left, from the right or both, the next merge finds *)
(* its neighbours.                                                         *)
BlocksTile ==
    /\ Walk[HeapSize] = HeapEnd
    /\ \A b \in Blocks : /\ hdr[b].magic # "none"
                         /\ ftr[FooterOf(b, hdr[b].size)] = hdr[b].size
    /\ \A b \in Blocks : hdr[b].magic = "free" /\ After(b) < HeapEnd
                            => hdr[After(b)].magic = "used"

(* The lists hold each free block once, in the class of its size: none is  *)
(* lost, and none is found twice.                                          *)
FreeListsExact ==
    /\ \A c \in Classes : \A k \in DOMAIN free_lists[c] :
          LET b == free_lists[c][k]
          IN  /\ b \in Blocks /\ hdr[b].magic = "free" /\ size_to_class(hdr[b].size) = c
              /\ \A j \in DOMAIN free_lists[c] : free_lists[c][j] = b => j = k
    /\ \A b \in {x \in Blocks : hdr[x].magic = "free"} :
          \E c \in Classes : \E k \in DOMAIN free_lists[c] : free_lists[c][k] = b

(* When everything was given back the heap is one free block again, and    *)
(* nothing counts as used.                                                 *)
AllGivenBack ==
    given = {} => /\ heap_used = 0
                  /\ hdr[HeapBase].magic = "free" /\ After(HeapBase) = HeapEnd

(* What is handed out, aligned or not, lies in the heap and apart from     *)
(* everything else that is in use.                                         *)
TheArena == INSTANCE Arena WITH Low <- HeapBase, High <- HeapEnd - 1
IsArena == TheArena!Spec
=============================================================================
