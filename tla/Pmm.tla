-------------------------------- MODULE Pmm ---------------------------------
(***************************************************************************)
(* The physical frame allocator (kernel/pmm.c): one bit per frame, a count *)
(* of free frames and a hint where to look next.  Frame 0 is never handed  *)
(* out, so 0 also says that there is no frame.  Addresses are in units of  *)
(* FrameSize-th parts of a frame; the arithmetic on them is that of        *)
(* uint32_t, MaxFrames frames being 4 GB.                                  *)
(***************************************************************************)
EXTENDS Integers, FiniteSets

CONSTANTS
    MaxFrames,      \* PMM_MAX_FRAMES
    FrameSize,      \* PMM_FRAME_SIZE
    WordBits,       \* frames in a word of the bitmap
    LowEnd,         \* the end of the first megabyte
    KernelEnd,      \* the end of the kernel image, its heap and slack
    InfoBlock,      \* the multiboot block: its [base, length]
    MemoryMaps      \* the memory maps a boot loader may hand over

ASSUME PmmAssumption ==
    /\ MaxFrames \in Nat \ {0} /\ FrameSize \in Nat \ {0} /\ WordBits \in Nat \ {0}
    /\ LowEnd \in 1 .. MaxFrames * FrameSize
    /\ KernelEnd \in LowEnd .. MaxFrames * FrameSize
    /\ InfoBlock \in [base : Nat, length : Nat]
    /\ \A m \in MemoryMaps : m \subseteq [base : Nat, length : Nat]

VARIABLES
    mmap,               \* the usable regions of the memory map
    used,               \* the bitmap: the frames whose bit is 1
    free_frame_count, alloc_hint

pmmVars == <<mmap, used, free_frame_count, alloc_hint>>

Frames  == 0 .. MaxFrames - 1
Width   == MaxFrames * FrameSize      \* 2^32
NoFrame == 0

Least(S) == CHOOSE x \in S : \A y \in S : x <= y
Lower(a, b) == IF a < b THEN a ELSE b
RoundedUp(a) == ((a + FrameSize - 1) % Width) \div FrameSize

(* The frames that pmm_mark_used(start, size) and pmm_mark_free touch.     *)
Covering(start, size) ==
    {f \in Frames : f >= start \div FrameSize /\ f < RoundedUp(start + size)}

OutwardInside(start, size) ==      \* seeded fault: a free region rounds outward
    {f \in Frames : f >= start \div FrameSize /\ f < RoundedUp(start + size)}
Inside(start, size) ==
    {f \in Frames : f >= RoundedUp(start)
                    /\ f < ((start + size) % Width) \div FrameSize}

TotalFrames(map) ==
    LET top == IF map = {} THEN 0
               ELSE CHOOSE t \in {r.base + r.length : r \in map} :
                        \A r \in map : r.base + r.length <= t
    IN  Lower(top, Width - 1) \div FrameSize
total_frames == TotalFrames(mmap)

(* The frames the second pass over the map frees: a region that goes past  *)
(* 4 GB is cut there.                                                      *)
FreedAtBoot(map) ==
    {f \in UNION {Inside(r.base, Lower(r.length, Width - r.base)) :
                     r \in {q \in map : q.base < Width}} : f < TotalFrames(map)}

MarkedAtBoot ==
    Covering(0, LowEnd) \union Covering(InfoBlock.base, InfoBlock.length)
        \union Covering(LowEnd, KernelEnd - LowEnd)

(* The count is not brought down again by pmm_mark_used.                   *)
pmm_init ==
    /\ mmap \in MemoryMaps
    /\ used = (Frames \ FreedAtBoot(mmap)) \union MarkedAtBoot
    /\ free_frame_count = Cardinality(FreedAtBoot(mmap))
    /\ alloc_hint = 0

-----------------------------------------------------------------------------
Free == Frames \ used
WordOf(f) == f \div WordBits

(* The scan looks at the first free bit of each word only.                 *)
FirstsOfWords == {f \in Free : \A g \in Free : WordOf(g) = WordOf(f) => f <= g}

Found ==
    LET pass0 == {f \in FirstsOfWords : f >= alloc_hint /\ f < total_frames}
        pass1 == {f \in FirstsOfWords : f < alloc_hint}
    IN  CASE pass0 # {} -> Least(pass0)
          [] pass0 = {} /\ pass1 # {} -> Least(pass1)
          [] OTHER -> NoFrame

(* phys_alloc_page, when it finds a frame.                                 *)
phys_alloc_page ==
    /\ Found # NoFrame
    /\ used' = used \union {Found}
    /\ free_frame_count' = free_frame_count - 1
    /\ alloc_hint' = IF Found + 1 >= total_frames THEN 0 ELSE Found + 1
    /\ UNCHANGED mmap

(* phys_free_page, called on each frame of F: those that are out of range  *)
(* or free already are passed over.                                        *)
Freed(F) == {f \in F : f # NoFrame /\ f < total_frames /\ f \in used}

HintStays(F) ==                \* seeded fault: the hint is not moved back
    /\ used' = used \ Freed(F)
    /\ free_frame_count' = free_frame_count + Cardinality(Freed(F))
    /\ UNCHANGED <<alloc_hint, mmap>>

FreeAll(F) ==
    /\ used' = used \ Freed(F)
    /\ free_frame_count' = free_frame_count + Cardinality(Freed(F))
    /\ alloc_hint' = Least({alloc_hint} \union Freed(F))
    /\ UNCHANGED mmap
-----------------------------------------------------------------------------
(* A frame that may be handed out lies in one usable region of the memory  *)
(* map, whole, and in none of the ranges the boot code, the boot loader or *)
(* the kernel occupies; frame 0, which stands for failure, is not among    *)
(* them.  (pmm_init, and every page that is given back.)                   *)
Bytes(f) == f * FrameSize .. f * FrameSize + FrameSize - 1
UsableAndClear(f) ==
    /\ \E r \in mmap : Bytes(f) \subseteq r.base .. r.base + r.length - 1
    /\ Bytes(f) \cap (0 .. KernelEnd - 1) = {}
    /\ Bytes(f) \cap (InfoBlock.base .. InfoBlock.base + InfoBlock.length - 1) = {}
FreeIsUsable == \A f \in Free : UsableAndClear(f)

(* No free frame lies below the hint, so the scan, which skips all of a    *)
(* word whose first free bit is below its start, finds the first free      *)
(* frame there is, and fails only when there is none.                      *)
FirstFit ==
    /\ \A f \in Free : alloc_hint <= f
    /\ Found = IF Free = {} THEN NoFrame ELSE Least(Free)
=============================================================================
