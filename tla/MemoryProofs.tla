---------------------------- MODULE MemoryProofs ----------------------------
(***************************************************************************)
(* The frame allocator and the memory of processes, proved for every       *)
(* memory map, every size of memory and every number of processes.         *)
(***************************************************************************)
EXTENDS AddressSpace, FiniteSetTheorems, WellFoundedInduction, TLAPS

(* A set of numbers has a least one, and Least finds it.                   *)
LEMMA LeastExists ==
    ASSUME NEW S \in SUBSET Nat, S # {}
    PROVE  Least(S) \in S /\ \A y \in S : Least(S) <= y
  <1> DEFINE R == OpToRel(<, Nat)
  <1>1. IsWellFoundedOn(R, Nat)
    BY NatLessThanWellFounded, Zenon
  <1>2. \A y, z \in Nat : y < z => <<y, z>> \in R
    BY Zenon DEF OpToRel
  <1> HIDE DEF R
  <1>3. PICK x \in S : \A y \in S : ~ (<<y, x>> \in R)
    BY <1>1, WFMin, Zenon
  <1>4. ASSUME NEW y \in S PROVE x <= y
    <2>1. ~(y < x)
      BY <1>2, <1>3, Zenon
    <2> QED BY <2>1
  <1>5. \E z \in S : \A y \in S : z <= y
    BY <1>4
  <1> QED BY <1>5 DEF Least

LEMMA LeastIs ==
    ASSUME NEW S \in SUBSET Nat, NEW x \in S, \A y \in S : x <= y
    PROVE  Least(S) = x
  <1>1. Least(S) \in S /\ Least(S) <= x
    BY LeastExists
  <1>2. Least(S) \in Nat /\ x \in Nat /\ x <= Least(S)
    BY <1>1
  <1> QED BY <1>1, <1>2

-----------------------------------------------------------------------------
(* The allocator.  That free frames do not lie beyond the end of memory is *)
(* what makes the first pass of the scan, which starts at the hint, see    *)
(* all of them.                                                            *)
FitInv ==
    /\ used \subseteq Frames
    /\ alloc_hint \in Nat
    /\ \A f \in Free : alloc_hint <= f /\ f < total_frames

LEMMA FramesAreNaturals == Frames \subseteq Nat
  BY PmmAssumption DEF Frames

LEMMA FitFound ==
    ASSUME FitInv
    PROVE  Found = IF Free = {} THEN NoFrame ELSE Least(Free)
  <1>1. Free \in SUBSET Nat
    BY FramesAreNaturals DEF Free
  <1>2. CASE Free = {}
    <2>1. FirstsOfWords = {}
      BY <1>2 DEF FirstsOfWords
    <2> QED BY <1>2, <2>1 DEF Found
  <1>3. CASE Free # {}
    <2>1. Least(Free) \in Free /\ \A y \in Free : Least(Free) <= y
      BY <1>1, <1>3, LeastExists
    <2>2. Least(Free) \in FirstsOfWords
      BY <2>1 DEF FirstsOfWords
    <2> DEFINE pass0 == {f \in FirstsOfWords : f >= alloc_hint /\ f < total_frames}
    <2>3. pass0 = FirstsOfWords
      <3> SUFFICES ASSUME NEW f \in FirstsOfWords
                   PROVE  f >= alloc_hint /\ f < total_frames
        OBVIOUS
      <3>1. f \in Free /\ f \in Nat
        BY <1>1 DEF FirstsOfWords
      <3> QED BY <3>1 DEF FitInv
    <2>4. FirstsOfWords \in SUBSET Nat /\ \A y \in FirstsOfWords : Least(Free) <= y
      BY <1>1, <2>1 DEF FirstsOfWords
    <2>5. Least(FirstsOfWords) = Least(Free)
      BY <2>2, <2>4, LeastIs, Zenon
    <2>6. Found = Least(pass0)
      BY <2>2, <2>3 DEF Found
    <2> QED BY <1>3, <2>3, <2>5, <2>6
  <1> QED BY <1>2, <1>3

LEMMA FoundIsFree ==
    ASSUME FitInv, Found # NoFrame
    PROVE  Found \in Free /\ Found \in Frames
  <1>1. Free \in SUBSET Nat
    BY FramesAreNaturals DEF Free
  <1>2. Free # {} /\ Found = Least(Free)
    BY FitFound
  <1>3. Found \in Free
    BY <1>1, <1>2, LeastExists
  <1> QED BY <1>3 DEF Free

LEMMA FitInit == Init => FitInv
  <1> SUFFICES ASSUME Init PROVE FitInv
    OBVIOUS
  <1>1. pmm_init
    BY DEF Init
  <1>2. MarkedAtBoot \subseteq Frames
    BY DEF MarkedAtBoot, Covering
  <1>3. used \subseteq Frames
    BY <1>1, <1>2 DEF pmm_init
  <1>4. \A f \in FreedAtBoot(mmap) : f < total_frames
    BY DEF FreedAtBoot, total_frames
  <1>5. Free \subseteq FreedAtBoot(mmap)
    BY <1>1 DEF pmm_init, Free
  <1>6. alloc_hint = 0
    BY <1>1 DEF pmm_init
  <1>7. \A f \in Free : alloc_hint <= f
    BY <1>6, FramesAreNaturals DEF Free
  <1> QED BY <1>3, <1>4, <1>5, <1>6, <1>7 DEF FitInv

(* What any step does to the allocator.                                    *)
LEMMA AllocatorStays ==
    ASSUME Next, ~MapPage, ~process_exit
    PROVE  UNCHANGED pmmVars
  BY DEF Next, CreateBegin, CreateNoDirectory, CreateDone, CreateFails,
     LoadOutOfMemory, SbrkOutOfMemory, ExecBegin, ExecLoaded, ExecRefused, ExecDone,
     SbrkQuery, SbrkDone, SbrkShrink, SbrkGrow, Switch, Kill

LEMMA AllocatorSteps ==
    [Next]_vars => \/ UNCHANGED pmmVars
                   \/ phys_alloc_page
                   \/ \E F : FreeAll(F)
  <1> SUFFICES ASSUME [Next]_vars
               PROVE  UNCHANGED pmmVars \/ phys_alloc_page \/ \E F : FreeAll(F)
    OBVIOUS
  <1>1. CASE MapPage
    BY <1>1 DEF MapPage
  <1>2. CASE process_exit
    BY <1>2 DEF process_exit
  <1>3. CASE UNCHANGED vars
    BY <1>3 DEF vars
  <1>4. CASE Next /\ ~MapPage /\ ~process_exit
    BY <1>4, AllocatorStays
  <1> QED BY <1>1, <1>2, <1>3, <1>4

LEMMA FitStep == FitInv /\ [Next]_vars => FitInv'
  <1> SUFFICES ASSUME FitInv, [Next]_vars PROVE FitInv'
    OBVIOUS
  <1>1. CASE UNCHANGED pmmVars
    BY <1>1 DEF pmmVars, FitInv, Free, total_frames
  <1>2. CASE phys_alloc_page
    <2>1. Found \in Free /\ Found \in Frames /\ Found = Least(Free)
      BY <1>2, FoundIsFree, FitFound DEF phys_alloc_page
    <2>2. Free \in SUBSET Nat /\ Found \in Nat
      BY <2>1, FramesAreNaturals DEF Free
    <2>3. \A f \in Free : Found <= f
      BY <2>1, <2>2, LeastExists
    <2>4. Free' = Free \ {Found}
      BY <1>2 DEF phys_alloc_page, Free
    <2>5. total_frames' = total_frames
      BY <1>2 DEF phys_alloc_page, total_frames
    <2>6. used' \subseteq Frames
      BY <1>2, <2>1 DEF phys_alloc_page, FitInv
    <2>7. alloc_hint' \in {0, Found + 1}
      BY <1>2 DEF phys_alloc_page
    <2>8. ASSUME NEW f \in Free' PROVE alloc_hint' <= f
      <3>1. f \in Nat /\ Found <= f /\ f # Found
        BY <2>2, <2>3, <2>4
      <3> QED BY <2>2, <2>7, <3>1
    <2>9. \A f \in Free' : f < total_frames'
      BY <2>4, <2>5 DEF FitInv
    <2> QED BY <2>2, <2>6, <2>7, <2>8, <2>9 DEF FitInv
  <1>3. ASSUME NEW F, FreeAll(F) PROVE FitInv'
    <2> DEFINE S == {alloc_hint} \union Freed(F)
    <2>1. S \in SUBSET Nat /\ S # {}
      BY FramesAreNaturals DEF FitInv, Freed
    <2>2. alloc_hint' = Least(S)
      BY <1>3 DEF FreeAll
    <2>3. alloc_hint' \in Nat /\ \A y \in S : alloc_hint' <= y
      BY <2>1, <2>2, LeastExists
    <2>4. total_frames' = total_frames
      BY <1>3 DEF FreeAll, total_frames
    <2>5. used' = used \ Freed(F)
      BY <1>3 DEF FreeAll
    <2>6. ASSUME NEW f \in Free' PROVE alloc_hint' <= f /\ f < total_frames'
      <3>1. CASE f \in Freed(F)
        BY <2>3, <2>4, <3>1 DEF Freed
      <3>2. CASE f \in Free
        <4>1. alloc_hint <= f /\ f < total_frames /\ alloc_hint' <= alloc_hint
          BY <2>3, <3>2 DEF FitInv
        <4>2. f \in Nat
          BY <3>2, FramesAreNaturals DEF Free
        <4> QED BY <2>3, <2>4, <4>1, <4>2 DEF FitInv
      <3> QED BY <2>5, <3>1, <3>2 DEF Free
    <2> QED BY <2>3, <2>5, <2>6 DEF FitInv
  <1> QED BY <1>1, <1>2, <1>3, AllocatorSteps

LEMMA FitAlways == Spec => []FitInv
  BY FitInit, FitStep, PTL DEF Spec

(* The hint never goes past a free frame, and the scan by words finds the  *)
(* first free frame, or fails because there is none (phys_alloc_page,      *)
(* phys_free_page).                                                        *)
THEOREM AllocatorIsFirstFit == Spec => []FirstFit
  <1>1. FitInv => FirstFit
    BY FitFound DEF FitInv, FirstFit
  <1> QED BY <1>1, FitAlways, PTL

-----------------------------------------------------------------------------
(* Directories.  A call that maps pages does so in a directory that is     *)
(* there, and leaves out the guard page; whoever is alive or executing has *)
(* a directory.                                                            *)
Maps(kind) == call.kind = kind
Mappable == UserPages \ {GuardPage}
Quiet == {Idle, Exited}
CallOK ==
    call \notin Quiet =>
                   /\ call.at \in Roots /\ Present(call.at)
                   /\ call.todo \in Seq(Mappable) /\ call.end \in Nat
                   /\ Maps("create") \/ Maps("exec") \/ Maps("exec_stack") \/ Maps("sbrk")
                   /\ Maps("exec") \/ Maps("exec_stack") => call.at = New /\ current # 0
                   /\ Maps("create") \/ Maps("sbrk") => call.at \in Slots

DirInv ==
    /\ dirs \in [Roots -> Directories \union {None}]
    /\ live \subseteq Slots /\ current \in {0} \union Slots
    /\ RunnersHaveDirectories
    /\ heap_end \in [Slots -> Nat]
    /\ CallOK

OwnInv == FitInv /\ DirInv /\ FramesOwnedOnce

LEMMA Kinds ==
    /\ Idle.kind = "idle" /\ Exited.kind = "exited" /\ Idle # Exited
    /\ Idle.todo = <<>> /\ Exited.todo = <<>>
  BY DEF Idle, Exited

LEMMA EmptyIsDirectory == EmptyDirectory \in Directories /\ EmptyDirectory # None
  <1>1. NoFrame \in Frames
    BY PmmAssumption DEF NoFrame, Frames
  <1>2. EmptyDirectory \in Directories
    BY <1>1 DEF EmptyDirectory, Directories
  <1> QED BY <1>2, NoDirectory

(* The directories of a step in which pages only move, with their whole    *)
(* directory, from one root to another, or are unmapped.                   *)
LEMMA OwnersMove ==
    ASSUME FramesOwnedOnce, used' = used,
           NEW from \in [Roots -> Roots],
           \A a \in Roots : dirs'[a] # None =>
               \A p \in UserPages :
                  \/ dirs'[a].pages[p] = NoFrame
                  \/ dirs[from[a]] # None /\ dirs'[a].pages[p] = dirs[from[a]].pages[p],
           \A a, b \in Roots :
               dirs'[a] # None /\ dirs'[b] # None /\ from[a] = from[b] => a = b
    PROVE  FramesOwnedOnce'
  <1>1. ASSUME NEW a \in Roots, NEW b \in Roots, Present(a)', Present(b)',
               NEW p \in UserPages, NEW q \in UserPages,
               dirs'[a].pages[p] = dirs'[b].pages[q], dirs'[a].pages[p] # NoFrame
        PROVE  a = b /\ p = q
    <2>1. /\ dirs[from[a]] # None /\ dirs'[a].pages[p] = dirs[from[a]].pages[p]
          /\ dirs[from[b]] # None /\ dirs'[b].pages[q] = dirs[from[b]].pages[q]
      BY <1>1 DEF Present
    <2>2. from[a] \in Roots /\ from[b] \in Roots
      OBVIOUS
    <2>3. /\ dirs[from[a]].pages[p] = dirs[from[b]].pages[q]
          /\ dirs[from[a]].pages[p] # NoFrame
      BY <1>1, <2>1
    <2>4. from[a] = from[b] /\ p = q
      BY <2>1, <2>2, <2>3 DEF FramesOwnedOnce, Present
    <2> QED BY <1>1, <2>4 DEF Present
  <1>2. ASSUME NEW a \in Roots, Present(a)' PROVE MappedBy(dirs[a])' \subseteq used'
    <2> SUFFICES ASSUME NEW p \in UserPages, dirs'[a].pages[p] # NoFrame
                 PROVE  dirs'[a].pages[p] \in used
      BY DEF MappedBy
    <2>1. dirs[from[a]] # None /\ dirs'[a].pages[p] = dirs[from[a]].pages[p]
      BY <1>2 DEF Present
    <2>2. dirs[from[a]].pages[p] \in MappedBy(dirs[from[a]])
      BY <2>1 DEF MappedBy
    <2> QED BY <2>1, <2>2 DEF FramesOwnedOnce, Present
  <1> QED BY <1>1, <1>2 DEF FramesOwnedOnce

(* The frame that is found is nobody's.                                    *)
LEMMA OwnersMap ==
    ASSUME FitInv, DirInv, FramesOwnedOnce, MapPage
    PROVE  FramesOwnedOnce'
  <1> DEFINE at == call.at  page == Head(call.todo)
  <1>1. at \in Roots /\ Present(at) /\ call.todo \in Seq(Mappable)
    BY Kinds DEF MapPage, DirInv, CallOK, Quiet
  <1>2. page \in UserPages
    BY <1>1 DEF MapPage, Mappable
  <1>3. Found # NoFrame /\ used' = used \union {Found} /\ Found \notin used
    BY FoundIsFree DEF MapPage, phys_alloc_page, Free
  <1>4. \/ dirs' = dirs
        \/ /\ \A a \in Roots \ {at} : dirs'[a] = dirs[a]
           /\ dirs'[at].pages = [dirs[at].pages EXCEPT ![page] = Found]
    BY <1>1 DEF MapPage, paging_map, DirInv, Directories, Present
  <1>5. dirs[at] \in Directories
    BY <1>1 DEF DirInv, Present
  <1>6. \A a \in Roots : Present(a) => \A p \in UserPages : dirs[a].pages[p] # Found
    BY <1>3 DEF FramesOwnedOnce, MappedBy
  <1>7. ASSUME NEW a \in Roots, Present(a)', NEW p \in UserPages
        PROVE  /\ Present(a)
               /\ \/ dirs'[a].pages[p] = dirs[a].pages[p]
                  \/ a = at /\ p = page /\ dirs'[a].pages[p] = Found
    BY <1>1, <1>2, <1>4, <1>5, <1>7 DEF Present, Directories
  <1>8. ASSUME NEW a \in Roots, NEW b \in Roots, Present(a)', Present(b)',
               NEW p \in UserPages, NEW q \in UserPages,
               dirs'[a].pages[p] = dirs'[b].pages[q], dirs'[a].pages[p] # NoFrame
        PROVE  a = b /\ p = q
    BY <1>6, <1>7, <1>8 DEF FramesOwnedOnce
  <1>9. ASSUME NEW a \in Roots, Present(a)' PROVE MappedBy(dirs[a])' \subseteq used'
    <2> SUFFICES ASSUME NEW p \in UserPages, dirs'[a].pages[p] # NoFrame
                 PROVE  dirs'[a].pages[p] \in used \union {Found}
      BY <1>3 DEF MappedBy
    <2>1. Present(a) /\ (dirs'[a].pages[p] \in {dirs[a].pages[p], Found})
      BY <1>7, <1>9
    <2> QED BY <2>1 DEF FramesOwnedOnce, MappedBy
  <1> QED BY <1>8, <1>9 DEF FramesOwnedOnce

(* What an exit gives back is its own.                                     *)
LEMMA OwnersExit ==
    ASSUME DirInv, FramesOwnedOnce, process_exit, Present(current)
    PROVE  FramesOwnedOnce'
  <1>1. current \in Slots /\ current \in Roots /\ Present(current)
    BY DEF process_exit, DirInv, Roots
  <1>2. \A a \in Roots : Present(a)' => a # current /\ dirs'[a] = dirs[a] /\ Present(a)
    BY <1>1 DEF process_exit, DirInv, Present
  <1>3. used' = used \ Freed(MappedBy(dirs[current]))
    BY DEF process_exit, FreeAll
  <1>4. ASSUME NEW a \in Roots, Present(a)' PROVE MappedBy(dirs[a])' \subseteq used'
    <2> SUFFICES ASSUME NEW p \in UserPages, dirs'[a].pages[p] # NoFrame
                 PROVE  dirs'[a].pages[p] \in used'
      BY DEF MappedBy
    <2>1. dirs'[a].pages[p] = dirs[a].pages[p] /\ a # current /\ Present(a)
      BY <1>2, <1>4
    <2>2. dirs[a].pages[p] \in used
      BY <2>1 DEF FramesOwnedOnce, MappedBy
    <2>3. dirs[a].pages[p] \notin MappedBy(dirs[current])
      BY <1>1, <2>1 DEF FramesOwnedOnce, MappedBy
    <2> QED BY <1>3, <2>1, <2>2, <2>3 DEF Freed
  <1> QED BY <1>2, <1>4 DEF FramesOwnedOnce

-----------------------------------------------------------------------------
LEMMA DirInit == Init => DirInv /\ FramesOwnedOnce
  BY Kinds DEF Init, DirInv, RunnersHaveDirectories, Runners, CallOK, FramesOwnedOnce, Present,
     Roots, Quiet

(* The pages that calls map are pages of user space.                       *)
LEMMA DivisionIsMaximal ==
    ASSUME NEW a \in Nat, NEW d \in Nat \ {0}, NEW k \in Nat, k * d <= a
    PROVE  k <= a \div d
  <1> DEFINE q == a \div d  r == a % d
  <1>1. q \in Nat /\ r \in 0 .. d - 1 /\ a = d * q + r
    OBVIOUS
  <1> HIDE DEF q, r
  <1>2. ASSUME q + 1 <= k PROVE FALSE
    <2>1. d * (q + 1) <= d * k
      BY <1>1, <1>2
    <2>2. d * (q + 1) = d * q + d /\ d * k = k * d
      BY <1>1
    <2>3. d * q \in Nat
      BY <1>1
    <2> QED BY <1>1, <2>1, <2>2, <2>3
  <1>3. k <= q
    BY <1>1, <1>2
  <1> QED BY <1>3 DEF q

LEMMA DivisionTimes ==
    ASSUME NEW a \in Nat, NEW d \in Nat \ {0}
    PROVE  a \div d \in Nat /\ (a \div d) * d <= a
  <1> DEFINE q == a \div d  r == a % d
  <1>1. q \in Nat /\ r \in 0 .. d - 1 /\ a = d * q + r
    OBVIOUS
  <1> HIDE DEF q, r
  <1>2. d * q = q * d /\ d * q \in Nat
    BY <1>1
  <1>3. q * d <= a
    BY <1>1, <1>2
  <1> QED BY <1>1, <1>3 DEF q

LEMMA TimesSum ==
    ASSUME NEW m \in Nat, NEW n \in Nat, NEW d \in Nat
    PROVE  (m + n) * d = m * d + n * d /\ m * d \in Nat /\ n * d \in Nat
  OBVIOUS

LEMMA PagesBelowTop ==
    LET top == UserStackTop \div FrameSize
    IN  top \in Nat /\ UserHeapBase \div FrameSize \in 0 .. top - UserStackPages - 2
  <1> DEFINE top == UserStackTop \div FrameSize  base == UserHeapBase \div FrameSize
             stack == (UserStackPages + 2) * FrameSize
  <1>1. /\ FrameSize \in Nat \ {0} /\ UserStackTop \in Nat /\ UserHeapBase \in Nat
        /\ UserStackPages + 2 \in Nat /\ stack \in Nat /\ UserHeapBase + stack <= UserStackTop
    BY PmmAssumption, AddressSpaceAssumption
  <1>2. stack <= UserStackTop
    BY <1>1
  <1>3. top \in Nat /\ base \in Nat /\ base * FrameSize <= UserHeapBase
    BY <1>1, DivisionTimes
  <1> DEFINE pages == base + (UserStackPages + 2)
  <1>4. pages * FrameSize = base * FrameSize + stack /\ base * FrameSize \in Nat
    BY <1>1, <1>3, TimesSum
  <1>5. pages \in Nat /\ pages * FrameSize <= UserStackTop
    <2>1. pages \in Nat
      BY <1>1, <1>3
    <2> HIDE DEF base, stack, pages
    <2> QED BY <1>1, <1>3, <1>4, <2>1
  <1>6. pages <= top
    <2> HIDE DEF pages
    <2> QED BY <1>1, <1>5, DivisionIsMaximal
  <1> HIDE DEF top, base
  <1>7. base \in 0 .. top - UserStackPages - 2
    BY <1>3, <1>6, AddressSpaceAssumption
  <1> QED BY <1>3, <1>7 DEF top, base

LEMMA LoadedPages ==
    /\ \A image \in Images : image \in Seq(Mappable)
    /\ StackPages \in Seq(Mappable)
  <1> DEFINE top == UserStackTop \div FrameSize  base == UserHeapBase \div FrameSize
  <1>1. top \in Nat /\ base \in 0 .. top - UserStackPages - 2
    BY PagesBelowTop
  <1>2. /\ Mappable = (0 .. top - 1) \ {top - UserStackPages - 1}
        /\ StackPages = [i \in 1 .. UserStackPages |-> top - i]
    BY DEF UserPages, StackPages, Mappable, GuardPage
  <1>3. ElfPages \subseteq 1 .. base - 1 /\ UserStackPages \in Nat
    BY AddressSpaceAssumption
  <1> HIDE DEF top, base
  <1>4. ElfPages \subseteq Mappable
    BY <1>1, <1>2, <1>3
  <1>5. ASSUME NEW image \in Images PROVE image \in Seq(Mappable)
    <2>1. image \in Seq(ElfPages)
      BY AddressSpaceAssumption
    <2>2. Len(image) \in Nat /\ image \in [1 .. Len(image) -> ElfPages]
      BY <2>1
    <2>3. image \in [1 .. Len(image) -> Mappable]
      BY <1>4, <2>2
    <2> QED BY <2>2, <2>3
  <1>6. StackPages \in [1 .. UserStackPages -> Mappable]
    BY <1>1, <1>2, <1>3
  <1> QED BY <1>3, <1>5, <1>6

(* The pages between the old and the new end of the heap, below the limit. *)
LEMMA HeapPagesBelowTop ==
    ASSUME NEW b \in Nat, NEW e \in Nat, e <= UserHeapMax,
           NEW i \in 1 .. RoundedUp(e) - RoundedUp(b)
    PROVE  RoundedUp(b) + i - 1 \in Mappable
  <1> DEFINE top == UserStackTop \div FrameSize
             raised(a) == (a + FrameSize - 1) % Width
  <1>1. FrameSize \in Nat \ {0} /\ Width \in Nat \ {0} /\ UserStackTop \in Nat
        /\ UserStackTop <= Width
    BY PmmAssumption, AddressSpaceAssumption DEF Width
  <1>2. \A a \in Nat : raised(a) \in Nat /\ RoundedUp(a) = raised(a) \div FrameSize
    BY <1>1 DEF RoundedUp
  <1>3. RoundedUp(b) \in Nat /\ RoundedUp(e) \in Nat
    BY <1>1, <1>2, DivisionTimes
  <1> DEFINE above == UserStackPages + 1  high == e + FrameSize - 1
  <1>4. above \in Nat /\ above * FrameSize \in Nat
        /\ high \in Nat /\ high + above * FrameSize <= UserStackTop
    <2>1. above \in Nat /\ above * FrameSize \in Nat
      BY <1>1, AddressSpaceAssumption
    <2>2. (UserStackPages + 2) * FrameSize = above * FrameSize + FrameSize
      BY <1>1, AddressSpaceAssumption
    <2> HIDE DEF above
    <2> QED BY <1>1, <2>1, <2>2 DEF UserHeapMax
  <1>5. raised(e) = high
    <2>1. high < Width
      <3>1. above * FrameSize >= FrameSize
        BY <1>1, AddressSpaceAssumption
      <3> HIDE DEF above, high
      <3> QED BY <1>1, <1>4, <3>1
    <2> QED BY <1>1, <1>4, <2>1
  <1>6. RoundedUp(e) * FrameSize <= high
    BY <1>1, <1>2, <1>4, <1>5, DivisionTimes
  <1>7. (RoundedUp(e) + above) * FrameSize <= UserStackTop
    <2>1. RoundedUp(e) * FrameSize \in Nat
          /\ (RoundedUp(e) + above) * FrameSize = RoundedUp(e) * FrameSize + above * FrameSize
      BY <1>1, <1>3, <1>4
    <2> HIDE DEF above, high
    <2> QED BY <1>1, <1>4, <1>6, <2>1
  <1>8. RoundedUp(e) + above <= top /\ top \in Nat
    <2>1. RoundedUp(e) + above \in Nat
      BY <1>3, <1>4
    <2> HIDE DEF above
    <2> QED BY <1>1, <1>7, <2>1, DivisionIsMaximal, PagesBelowTop
  <1> HIDE DEF top
  <1>9. RoundedUp(b) + i - 1 \in 0 .. top - UserStackPages - 2
    BY <1>3, <1>8, AddressSpaceAssumption
  <1>10. Mappable = (0 .. top - 1) \ {top - UserStackPages - 1} /\ UserStackPages \in Nat
    BY AddressSpaceAssumption DEF UserPages, Mappable, GuardPage, top
  <1> QED BY <1>8, <1>9, <1>10

-----------------------------------------------------------------------------
LEMMA DirStep == FitInv /\ DirInv /\ [Next]_vars => DirInv'
  <1> SUFFICES ASSUME FitInv, DirInv, [Next]_vars PROVE DirInv'
    OBVIOUS
  <1> USE DEF Present, Maps, RunnersHaveDirectories, Runners
  <1>0. Slots \subseteq Nat \ {0} /\ New = 0 /\ Roots = Slots \union {0}
        /\ NoFrame \in Frames /\ EmptyDirectory \in Directories \ {None}
    BY PmmAssumption, AddressSpaceAssumption, EmptyIsDirectory
       DEF New, Roots, NoFrame, Frames
  <1>1. ASSUME NEW s \in Slots, NEW image \in Images, NEW ok \in BOOLEAN,
               CreateBegin(s, image, ok)
        PROVE  DirInv'
    <2> DEFINE todo == image \o (IF ok THEN StackPages ELSE <<>>)
    <2>1. todo \in Seq(Mappable)
      BY LoadedPages
    <2>2. dirs' = [dirs EXCEPT ![s] = EmptyDirectory] /\ heap_end' = [heap_end EXCEPT ![s] = 0]
          /\ UNCHANGED <<live, current>>
      BY <1>1 DEF CreateBegin
    <2>3. call'.kind = "create" /\ call'.at = s /\ call'.todo = todo /\ call'.end = 0
      BY <1>1 DEF CreateBegin, Idle
    <2>4. CallOK'
      BY Kinds, <1>0, <2>1, <2>2, <2>3 DEF CallOK, DirInv, Quiet
    <2>5. dirs' \in [Roots -> Directories \union {None}]
      BY <1>0, <2>2 DEF DirInv
    <2>6. RunnersHaveDirectories'
      BY <1>0, <1>1, <2>2, <2>3, Kinds DEF DirInv, CreateBegin, RunnersHaveDirectories, Runners
    <2>7. heap_end' \in [Slots -> Nat]
      BY <2>2 DEF DirInv
    <2> QED BY <2>2, <2>4, <2>5, <2>6, <2>7 DEF DirInv
  <1>2. ASSUME NEW s \in Slots, CreateNoDirectory(s) PROVE DirInv'
    BY Kinds, <1>0, <1>2 DEF CreateNoDirectory, FirstDead, DirInv, CallOK, Quiet
  <1>3. CASE CreateDone
    <2> DEFINE d == dirs[call.at]  e == [d EXCEPT !.pages[GuardPage] = NoFrame]
    <2>1. call.at \in Slots /\ call.at \in Roots /\ d \in Directories
      BY <1>0, <1>3, Kinds DEF CreateDone, DirInv, CallOK, Quiet
    <2>2. e \in Directories
      BY <1>0, <2>1 DEF Directories
    <2>3. e # None
      BY <2>2, NoDirectory
    <2>4. dirs' = [dirs EXCEPT ![call.at] = e] /\ live' = live \union {call.at}
          /\ call' = Idle /\ UNCHANGED <<current, heap_end>> /\ call # Exited
      BY <1>3, Kinds DEF CreateDone
    <2> HIDE DEF e
    <2> QED BY Kinds, <2>1, <2>2, <2>3, <2>4 DEF DirInv, CallOK, Quiet
  <1>4. CASE CreateFails
    BY Kinds, <1>4 DEF CreateFails, DirInv, CallOK, Quiet
  <1>5. CASE MapPage
    <2> DEFINE at == call.at  d == dirs[at]  page == Head(call.todo)
    <2>1. at \in Roots /\ d \in Directories /\ call.todo \in Seq(Mappable) /\ call \notin Quiet
      BY <1>5, Kinds DEF MapPage, DirInv, CallOK, Quiet
    <2>2. page \in UserPages /\ Tail(call.todo) \in Seq(Mappable)
      BY <1>5, <2>1 DEF MapPage, Mappable
    <2>3. Found \in Frames
      BY <1>5, FoundIsFree DEF MapPage, phys_alloc_page
    <2>4. PICK e \in Directories : dirs' = [dirs EXCEPT ![at] = e]
      <3> DEFINE mapped == [d.pages EXCEPT ![page] = Found]
      <3>1. mapped \in [UserPages -> Frames] /\ d.tables \in SUBSET Tables
            /\ TableOf(page) \in Tables /\ d.pages \in [UserPages -> Frames]
        BY <2>1, <2>2, <2>3 DEF Directories, Tables
      <3>2. CASE dirs' = dirs
        BY <2>1, <3>2 DEF DirInv
      <3>3. CASE dirs' = [dirs EXCEPT ![at].pages[page] = Found]
        <4>1. dirs' = [dirs EXCEPT ![at] = [d EXCEPT !.pages = mapped]]
          BY <3>3
        <4>2. [d EXCEPT !.pages = mapped] \in Directories
          BY <2>1, <3>1 DEF Directories
        <4> QED BY <4>1, <4>2
      <3>4. CASE dirs' = [dirs EXCEPT ![at] = [pages  |-> mapped,
                                               tables |-> d.tables \union {TableOf(page)}]]
        BY <3>1, <3>4 DEF Directories
      <3> QED BY <1>5, <3>2, <3>3, <3>4 DEF MapPage, paging_map
    <2>5. e # None
      BY NoDirectory
    <2>6. call' = [call EXCEPT !.todo = Tail(@)] /\ UNCHANGED <<live, current, heap_end>>
      BY <1>5 DEF MapPage
    <2>8. call # Exited
      BY <2>1 DEF Quiet
    <2>7. CallOK'
      BY Kinds, <2>1, <2>2, <2>4, <2>5, <2>6 DEF CallOK, DirInv, Quiet
    <2> QED BY <2>1, <2>4, <2>5, <2>6, <2>7, <2>8 DEF DirInv
  <1>6. CASE LoadOutOfMemory
    BY Kinds, <1>0, <1>6 DEF LoadOutOfMemory, DirInv, CallOK, Quiet
  <1>7. CASE SbrkOutOfMemory
    <2> DEFINE d == dirs[call.at]
               pages == [p \in UserPages |-> IF p \in call.first .. Head(call.todo) - 1
                                             THEN NoFrame ELSE d.pages[p]]
               e == [d EXCEPT !.pages = pages]
    <2>1. call.at \in Roots /\ d \in Directories
      BY <1>7, Kinds DEF SbrkOutOfMemory, DirInv, CallOK, Quiet
    <2>2. pages \in [UserPages -> Frames]
      BY <1>0, <2>1 DEF Directories
    <2>3. e \in Directories
      BY <2>1, <2>2 DEF Directories
    <2>4. e # None
      BY <2>3, NoDirectory
    <2>5. dirs' = [dirs EXCEPT ![call.at] = e] /\ call' = Idle
          /\ UNCHANGED <<live, current, heap_end>> /\ call # Exited
      BY <1>7, Kinds DEF SbrkOutOfMemory
    <2> HIDE DEF e
    <2> QED BY Kinds, <2>1, <2>3, <2>4, <2>5 DEF DirInv, CallOK, Quiet
  <1>8. ASSUME NEW image \in Images, NEW ok \in BOOLEAN, ExecBegin(image, ok)
        PROVE  DirInv'
    <2>1. dirs' = [dirs EXCEPT ![New] = EmptyDirectory] /\ UNCHANGED <<live, current, heap_end>>
      BY <1>8 DEF ExecBegin
    <2>2. call'.kind = "exec" /\ call'.at = New /\ call'.todo = image /\ call'.end = 0
          /\ current # 0 /\ call = Idle
      BY <1>8 DEF ExecBegin, Idle
    <2>3. CallOK'
      BY Kinds, <1>0, <2>1, <2>2, LoadedPages DEF CallOK, DirInv, Quiet
    <2> QED BY <1>0, <2>1, <2>2, <2>3, Kinds DEF DirInv
  <1>9. CASE ExecLoaded
    <2>1. UNCHANGED <<live, current, dirs, heap_end>>
          /\ call' = [call EXCEPT !.kind = "exec_stack", !.todo = StackPages]
      BY <1>9 DEF ExecLoaded
    <2>2. call \notin Quiet /\ Maps("exec")
      BY <1>9, Kinds DEF ExecLoaded, Quiet
    <2>3. CallOK'
      BY Kinds, <2>1, <2>2, LoadedPages DEF CallOK, DirInv, Quiet
    <2> QED BY <2>1, <2>2, <2>3 DEF DirInv, Quiet
  <1>10. CASE ExecRefused
    BY Kinds, <1>0, <1>10 DEF ExecRefused, DirInv, CallOK, Quiet
  <1>11. CASE ExecDone
    <2>1. dirs[New] \in Directories \ {None} /\ current \in Slots /\ current # New
      BY <1>0, <1>11, Kinds DEF ExecDone, DirInv, CallOK, Quiet
    <2> QED BY Kinds, <1>0, <1>11, <2>1 DEF ExecDone, DirInv, CallOK, Quiet
  <1>12. ASSUME current # 0, DirInv PROVE Base \in Nat
    BY <1>12, AddressSpaceAssumption DEF Base, DirInv
  <1>13. ASSUME current # 0, NEW i \in Increments PROVE Sum(i) \in Nat
    <2>1. Width \in Nat \ {0} /\ i \in Int
      BY PmmAssumption, AddressSpaceAssumption DEF Width
    <2> QED BY <1>12, <1>13, <2>1 DEF Sum
  <1>14. CASE SbrkQuery
    BY Kinds, <1>12, <1>14 DEF SbrkQuery, DirInv, CallOK, Quiet
  <1>15. CASE SbrkDone
    BY <1>15, Kinds DEF SbrkDone, DirInv, CallOK, Quiet
  <1>16. ASSUME NEW i \in Increments, SbrkShrink(i) PROVE DirInv'
    BY Kinds, <1>12, <1>13, <1>16 DEF SbrkShrink, DirInv, CallOK, Quiet
  <1>17. ASSUME NEW i \in Increments, SbrkGrow(i) PROVE DirInv'
    <2>1. current # 0 /\ current \in Slots /\ heap_end' \in [Slots -> Nat]
          /\ UNCHANGED <<live, current, dirs>> /\ call = Idle
      BY <1>12, <1>17 DEF SbrkGrow, DirInv
    <2>2. CASE call' = call
      BY Kinds, <2>1, <2>2 DEF DirInv, CallOK, Quiet
    <2>3. CASE Fits(i) /\ call' # call
      <3> DEFINE b == RoundedUp(Base)  past == RoundedUp(Sum(i))
                 todo == [k \in 1 .. past - b |-> b + k - 1]
      <3>1. call'.kind = "sbrk" /\ call'.at = current /\ call'.todo = todo
            /\ call'.end = Sum(i)
        BY <1>17, <2>3 DEF SbrkGrow, Idle
      <3>2. Base \in Nat /\ Sum(i) \in Nat /\ Sum(i) <= UserHeapMax
        BY <1>12, <1>13, <2>1, <2>3 DEF Fits
      <3>3. past - b \in Int
        <4>1. FrameSize \in Nat \ {0} /\ Width \in Nat \ {0}
          BY PmmAssumption DEF Width
        <4>2. \A a \in Nat : (a + FrameSize - 1) % Width \in Nat
          BY <4>1
        <4> QED BY <3>2, <4>1, <4>2, DivisionTimes DEF RoundedUp
      <3>4. todo \in [1 .. past - b -> Mappable]
        BY <3>2, HeapPagesBelowTop
      <3> HIDE DEF b, past
      <3>5. todo \in Seq(Mappable)
        <4>1. CASE past - b \in Nat
          BY <3>4, <4>1
        <4>2. CASE past - b < 0
          <5>1. 1 .. past - b = 1 .. 0
            BY <3>3, <4>2
          <5>2. todo \in [1 .. 0 -> Mappable]
            BY <3>4, <5>1
          <5>3. \A n \in Nat : [1 .. n -> Mappable] \subseteq Seq(Mappable)
            OBVIOUS
          <5> QED BY <5>2, <5>3
        <4> QED BY <3>3, <4>1, <4>2
      <3> HIDE DEF todo
      <3>6. CallOK'
        BY Kinds, <1>0, <2>1, <3>1, <3>2, <3>5 DEF CallOK, DirInv, Quiet
      <3> QED BY <2>1, <3>6, Kinds DEF DirInv
    <2> QED BY <1>17, <2>2, <2>3 DEF SbrkGrow
  <1>18. CASE process_exit
    <2>1. UNCHANGED <<dirs, heap_end>> \/ (dirs' = [dirs EXCEPT ![current] = None] /\ UNCHANGED heap_end)
      BY <1>18 DEF process_exit
    <2>2. /\ live' = live \ {current} /\ current # 0 /\ call' \in Quiet
          /\ (current' \in {0} \union live' /\ call' = Idle) \/ (current' = current /\ call' = Exited)
      BY <1>18 DEF process_exit, Leave, Quiet
    <2>3. \A s \in Runners' : s \in live /\ s # current
      BY <2>2, Kinds DEF Runners
    <2>4. RunnersHaveDirectories'
      BY <1>0, <2>1, <2>3 DEF DirInv, RunnersHaveDirectories, Runners
    <2> QED BY Kinds, <1>0, <2>1, <2>2, <2>4 DEF DirInv, CallOK, Quiet
  <1>19. CASE Switch
    BY <1>19, Kinds DEF Switch, DirInv, CallOK, Quiet
  <1>20. ASSUME NEW s \in Slots, Kill(s) PROVE DirInv'
    BY Kinds, <1>20 DEF Kill, DirInv, CallOK, Quiet
  <1>21. CASE UNCHANGED vars
    BY Kinds, <1>21 DEF vars, DirInv, CallOK, Quiet
  <1> QED BY <1>1, <1>2, <1>3, <1>4, <1>5, <1>6, <1>7, <1>8, <1>9, <1>10, <1>11,
             <1>14, <1>15, <1>16, <1>17, <1>18, <1>19, <1>20, <1>21 DEF Next

LEMMA OwnStep == OwnInv /\ [Next]_vars => FramesOwnedOnce'
  <1> SUFFICES ASSUME OwnInv, [Next]_vars PROVE FramesOwnedOnce'
    OBVIOUS
  <1>0. FitInv /\ DirInv /\ FramesOwnedOnce
    BY DEF OwnInv
  <1> DEFINE same == [a \in Roots |-> a]
  <1>1. CASE UNCHANGED <<used, dirs>>
    BY <1>0, <1>1 DEF FramesOwnedOnce, Present
  <1>2. CASE MapPage
    BY <1>0, <1>2, OwnersMap
  <1>3. CASE process_exit
    <2>1. CASE Present(current)
      BY <1>0, <1>3, <2>1, OwnersExit
    <2>2. CASE ~Present(current)
      BY <1>1, <1>3, <2>2 DEF process_exit, pmmVars
    <2> QED BY <2>1, <2>2
  <1>4. ASSUME used' = used,
               \A a \in Roots : dirs'[a] # None =>
                   \A p \in UserPages :
                      \/ dirs'[a].pages[p] = NoFrame
                      \/ dirs[a] # None /\ dirs'[a].pages[p] = dirs[a].pages[p]
        PROVE  FramesOwnedOnce'
    <2>1. same \in [Roots -> Roots] /\ \A a \in Roots : same[a] = a
      OBVIOUS
    <2> HIDE DEF same
    <2> QED BY <1>0, <1>4, <2>1, OwnersMove
  <1>5. CASE ExecDone
    <2> DEFINE from == [a \in Roots |-> IF a = current THEN New ELSE a]
    <2>1. New \in Roots /\ current \in Roots /\ current # New /\ dirs[New] # None
      BY Kinds, <1>0, <1>5 DEF ExecDone, DirInv, CallOK, Idle, Present, Maps, Roots, New, Quiet
    <2>2. used' = used /\ dirs' = [dirs EXCEPT ![current] = dirs[New], ![New] = None]
      BY <1>5 DEF ExecDone, pmmVars
    <2>3. dirs'[current] = dirs[New] /\ dirs'[New] = None
          /\ \A a \in Roots \ {current, New} : dirs'[a] = dirs[a]
      BY <1>0, <2>1, <2>2 DEF DirInv
    <2>4. from \in [Roots -> Roots] /\ from[current] = New
          /\ \A a \in Roots \ {current} : from[a] = a
      BY <2>1
    <2> HIDE DEF from
    <2>5. \A a \in Roots : dirs'[a] # None => dirs'[a] = dirs[from[a]]
      BY <2>3, <2>4
    <2>6. \A a, b \in Roots : dirs'[a] # None /\ dirs'[b] # None /\ from[a] = from[b] => a = b
      BY <2>3, <2>4
    <2> QED BY <1>0, <2>2, <2>4, <2>5, <2>6, OwnersMove
  <1>6. ASSUME NEW s \in Roots, used' = used, dirs' = [dirs EXCEPT ![s] = EmptyDirectory]
        PROVE  FramesOwnedOnce'
    <2>1. \A p \in UserPages : EmptyDirectory.pages[p] = NoFrame
      BY DEF EmptyDirectory
    <2>2. \A a \in Roots : dirs'[a] = IF a = s THEN EmptyDirectory ELSE dirs[a]
      BY <1>0, <1>6 DEF DirInv
    <2> QED BY <1>4, <1>6, <2>1, <2>2
  <1>7. ASSUME NEW s \in Roots, used' = used, dirs' = [dirs EXCEPT ![s] = None]
        PROVE  FramesOwnedOnce'
    <2>1. \A a \in Roots : dirs'[a] = IF a = s THEN None ELSE dirs[a]
      BY <1>0, <1>7 DEF DirInv
    <2> QED BY <1>4, <1>7, <2>1
  <1>8. ASSUME NEW s \in Roots, dirs[s] \in Directories, used' = used,
               NEW cleared \in SUBSET UserPages,
               dirs' = [dirs EXCEPT ![s].pages =
                   [p \in UserPages |-> IF p \in cleared THEN NoFrame ELSE @[p]]]
        PROVE  FramesOwnedOnce'
    <2>1. \A a \in Roots \ {s} : dirs'[a] = dirs[a]
      BY <1>0, <1>8 DEF DirInv
    <2>2. dirs'[s].pages = [p \in UserPages |-> IF p \in cleared THEN NoFrame
                                                ELSE dirs[s].pages[p]]
      BY <1>0, <1>8 DEF DirInv, Directories
    <2>3. dirs[s] # None
      BY <1>8, NoDirectory
    <2> QED BY <1>4, <1>8, <2>1, <2>2, <2>3
  <1>9. ASSUME NEW s \in Slots, NEW image \in Images, NEW ok \in BOOLEAN,
               CreateBegin(s, image, ok)
        PROVE  FramesOwnedOnce'
    BY <1>6, <1>9 DEF CreateBegin, pmmVars, Roots
  <1>10. ASSUME NEW image \in Images, NEW ok \in BOOLEAN, ExecBegin(image, ok)
         PROVE  FramesOwnedOnce'
    BY <1>6, <1>10 DEF ExecBegin, pmmVars, Roots
  <1>11. ASSUME NEW s \in Slots, CreateNoDirectory(s) PROVE FramesOwnedOnce'
    BY <1>7, <1>11 DEF CreateNoDirectory, pmmVars, Roots
  <1>12. CASE LoadOutOfMemory \/ ExecRefused
    BY <1>7, <1>12 DEF LoadOutOfMemory, ExecRefused, pmmVars, Roots
  <1>13. ASSUME call \notin Quiet PROVE call.at \in Roots /\ dirs[call.at] \in Directories
    BY Kinds, <1>0, <1>13 DEF DirInv, CallOK, Present, Quiet
  <1>14. CASE SbrkOutOfMemory
    <2> DEFINE cleared == {p \in UserPages : p \in call.first .. Head(call.todo) - 1}
    <2>1. call.at \in Roots /\ dirs[call.at] \in Directories /\ used' = used
      BY <1>13, <1>14, Kinds DEF SbrkOutOfMemory, Quiet, pmmVars
    <2>2. dirs' = [dirs EXCEPT ![call.at].pages =
              [p \in UserPages |-> IF p \in cleared THEN NoFrame ELSE @[p]]]
      BY <1>14 DEF SbrkOutOfMemory
    <2>3. cleared \in SUBSET UserPages
      OBVIOUS
    <2> HIDE DEF cleared
    <2> QED BY <1>8, <2>1, <2>2, <2>3
  <1>15. CASE CreateDone
    <2>1. call.at \in Roots /\ dirs[call.at] \in Directories /\ used' = used
          /\ dirs' = [dirs EXCEPT ![call.at].pages[GuardPage] = NoFrame]
      BY <1>13, <1>15, Kinds DEF CreateDone, Quiet, pmmVars
    <2>2. \A a \in Roots \ {call.at} : dirs'[a] = dirs[a]
      BY <1>0, <2>1 DEF DirInv
    <2>3. dirs'[call.at].pages = [dirs[call.at].pages EXCEPT ![GuardPage] = NoFrame]
      BY <1>0, <2>1 DEF DirInv, Directories
    <2>4. \A p \in UserPages : dirs'[call.at].pages[p] \in {NoFrame, dirs[call.at].pages[p]}
      BY <2>1, <2>3 DEF Directories
    <2>5. dirs[call.at] # None
      BY <2>1, NoDirectory
    <2> QED BY <1>4, <2>1, <2>2, <2>4, <2>5
  <1>16. CASE CreateFails \/ ExecLoaded \/ SbrkQuery \/ SbrkDone \/ Switch
    BY <1>1, <1>16 DEF CreateFails, ExecLoaded, SbrkQuery, SbrkDone, Switch, pmmVars
  <1>17. ASSUME NEW i \in Increments, SbrkShrink(i) \/ SbrkGrow(i) PROVE FramesOwnedOnce'
    BY <1>1, <1>17 DEF SbrkShrink, SbrkGrow, pmmVars
  <1>18. ASSUME NEW s \in Slots, Kill(s) PROVE FramesOwnedOnce'
    BY <1>1, <1>18 DEF Kill, pmmVars
  <1>19. CASE UNCHANGED vars
    BY <1>1, <1>19 DEF vars, pmmVars
  <1> QED BY <1>2, <1>3, <1>5, <1>9, <1>10, <1>11, <1>12, <1>14, <1>15, <1>16, <1>17,
             <1>18, <1>19 DEF Next

(* No frame is mapped twice and none that is mapped may be handed out:     *)
(* whatever fails half-way, is killed, or exits while others run, no       *)
(* process comes to write another's memory (process_exit, sys_sbrk,        *)
(* sys_exec, process_create_elf).                                          *)
THEOREM FramesHaveOneOwner == Spec => []FramesOwnedOnce
  <1>1. Init => OwnInv
    BY FitInit, DirInit DEF OwnInv
  <1>2. OwnInv /\ [Next]_vars => OwnInv'
    BY FitStep, DirStep, OwnStep DEF OwnInv
  <1>3. OwnInv => FramesOwnedOnce
    BY DEF OwnInv
  <1> QED BY <1>1, <1>2, <1>3, PTL DEF Spec

(* A process that lives or executes keeps its directory over every kill    *)
(* and every failed create, exec and sbrk, until it exits itself:          *)
(* scheduler(), which loads the directory without a test, never meets a    *)
(* null one.  Only a process that has exited when nobody was runnable goes *)
(* on without.                                                             *)
THEOREM RunnersKeepDirectories == Spec => []RunnersHaveDirectories
  <1>1. Init => FitInv /\ DirInv
    BY FitInit, DirInit
  <1>2. FitInv /\ DirInv /\ [Next]_vars => (FitInv /\ DirInv)'
    BY FitStep, DirStep
  <1>3. DirInv => RunnersHaveDirectories
    BY DEF DirInv
  <1> QED BY <1>1, <1>2, <1>3, PTL DEF Spec

-----------------------------------------------------------------------------
LEMMA GuardStep == FitInv /\ DirInv /\ GuardPageUnmapped /\ [Next]_vars => GuardPageUnmapped'
  <1> SUFFICES ASSUME FitInv, DirInv, GuardPageUnmapped, [Next]_vars,
                      NEW a \in Roots, Present(a)'
               PROVE  dirs'[a].pages[GuardPage] = NoFrame
    BY DEF GuardPageUnmapped
  <1> USE DEF Present
  <1>1. GuardPage \in UserPages
    <2>1. UserStackTop \div FrameSize \in Nat
          /\ 0 <= (UserStackTop \div FrameSize) - UserStackPages - 2
      BY PagesBelowTop, AddressSpaceAssumption
    <2> DEFINE top == UserStackTop \div FrameSize
    <2>2. GuardPage = top - UserStackPages - 1 /\ UserPages = 0 .. top - 1
      BY DEF GuardPage, UserPages
    <2> HIDE DEF top
    <2> QED BY <2>1, <2>2, AddressSpaceAssumption DEF top
  <1>2. EmptyDirectory.pages[GuardPage] = NoFrame
    BY <1>1 DEF EmptyDirectory
  <1>3. \A b \in Roots : dirs[b] # None => dirs[b].pages[GuardPage] = NoFrame
    BY DEF GuardPageUnmapped
  <1>4. New \in Roots /\ Slots \subseteq Roots
    BY DEF Roots
  <1>5. CASE MapPage
    <2> DEFINE at == call.at  page == Head(call.todo)
    <2>1. at \in Roots /\ dirs[at] \in Directories /\ page # GuardPage
      BY Kinds, <1>5 DEF MapPage, DirInv, CallOK, Mappable, Quiet
    <2>2. \/ dirs' = dirs
          \/ /\ dirs'[at].pages = [dirs[at].pages EXCEPT ![page] = Found]
             /\ \A b \in Roots \ {at} : dirs'[b] = dirs[b]
      BY <1>5, <2>1 DEF MapPage, paging_map, DirInv, Directories
    <2>3. dirs[at] # None
      BY <2>1, NoDirectory
    <2> QED BY <1>1, <1>3, <2>1, <2>2, <2>3 DEF Directories
  <1>6. ASSUME NEW s \in Roots, NEW d, dirs' = [dirs EXCEPT ![s] = d],
               d # None => d.pages[GuardPage] = NoFrame
        PROVE  dirs'[a].pages[GuardPage] = NoFrame
    BY <1>3, <1>6 DEF DirInv
  <1>7. CASE \E s \in Roots : dirs' = [dirs EXCEPT ![s] = EmptyDirectory]
                              \/ dirs' = [dirs EXCEPT ![s] = None]
    BY <1>2, <1>6, <1>7
  <1>8. CASE SbrkOutOfMemory
    <2>1. call.at \in Roots /\ dirs[call.at] \in Directories
      BY <1>8, Kinds DEF SbrkOutOfMemory, DirInv, CallOK, Quiet
    <2>2. dirs'[call.at].pages[GuardPage] \in {NoFrame, dirs[call.at].pages[GuardPage]}
          /\ \A b \in Roots \ {call.at} : dirs'[b] = dirs[b]
      BY <1>1, <1>8, <2>1 DEF SbrkOutOfMemory, DirInv, Directories
    <2>3. dirs[call.at] # None
      BY <2>1, NoDirectory
    <2> QED BY <1>3, <2>1, <2>2, <2>3
  <1>9. CASE CreateDone
    <2>1. call.at \in Roots /\ dirs[call.at] \in Directories
      BY <1>9, Kinds DEF CreateDone, DirInv, CallOK, Quiet
    <2>2. dirs'[call.at].pages[GuardPage] = NoFrame
          /\ \A b \in Roots \ {call.at} : dirs'[b] = dirs[b]
      BY <1>1, <1>9, <2>1 DEF CreateDone, DirInv, Directories
    <2> QED BY <1>3, <2>1, <2>2
  <1>10. CASE ExecDone
    <2>1. dirs[New] # None /\ dirs[New].pages[GuardPage] = NoFrame
      BY Kinds, <1>3, <1>4, <1>10 DEF ExecDone, DirInv, CallOK, Idle, Maps, Quiet
    <2> QED BY <1>3, <1>4, <1>10, <2>1 DEF ExecDone, DirInv
  <1>11. CASE process_exit
    <2>1. current \in Roots
      BY <1>4, <1>11 DEF process_exit, DirInv
    <2>2. CASE Present(current)
      BY <1>7, <1>11, <2>1, <2>2 DEF process_exit
    <2>3. CASE ~Present(current)
      BY <1>3, <1>11, <2>3 DEF process_exit
    <2> QED BY <2>2, <2>3
  <1>12. CASE UNCHANGED dirs
    BY <1>3, <1>12
  <1>13. ASSUME NEW image \in Images, NEW ok \in BOOLEAN, ExecBegin(image, ok)
         PROVE  dirs'[a].pages[GuardPage] = NoFrame
    BY <1>4, <1>7, <1>13 DEF ExecBegin
  <1>14. CASE LoadOutOfMemory \/ ExecRefused
    BY <1>4, <1>7, <1>14 DEF LoadOutOfMemory, ExecRefused
  <1>15. ASSUME NEW i \in Increments, SbrkShrink(i) \/ SbrkGrow(i)
         PROVE  dirs'[a].pages[GuardPage] = NoFrame
    BY <1>12, <1>15 DEF SbrkShrink, SbrkGrow
  <1>16. CASE \/ CreateFails \/ ExecLoaded \/ SbrkQuery \/ SbrkDone \/ Switch
              \/ \E s \in Slots : Kill(s)
    BY <1>12, <1>16 DEF CreateFails, ExecLoaded, SbrkQuery, SbrkDone, Switch, Kill
  <1>17. CASE UNCHANGED vars
    BY <1>12, <1>17 DEF vars
  <1>18. ASSUME NEW s \in Slots, NEW image \in Images, NEW ok \in BOOLEAN,
                CreateBegin(s, image, ok)
         PROVE  dirs'[a].pages[GuardPage] = NoFrame
    BY <1>4, <1>7, <1>18 DEF CreateBegin
  <1>19. ASSUME NEW s \in Slots, CreateNoDirectory(s)
         PROVE  dirs'[a].pages[GuardPage] = NoFrame
    BY <1>4, <1>7, <1>19 DEF CreateNoDirectory
  <1> QED BY <1>5, <1>8, <1>9, <1>10, <1>11, <1>13, <1>14, <1>15, <1>16, <1>17,
             <1>18, <1>19 DEF Next

(* The page below the stack is never mapped, whatever images and           *)
(* increments programs choose: an overflow of the stack faults             *)
(* (process_create_elf, sys_exec, sys_sbrk).                               *)
THEOREM StackOverflowFaults == Spec => []GuardPageUnmapped
  <1>1. Init => FitInv /\ DirInv /\ GuardPageUnmapped
    BY FitInit, DirInit DEF Init, GuardPageUnmapped, Present
  <1>2. FitInv /\ DirInv /\ GuardPageUnmapped /\ [Next]_vars
            => (FitInv /\ DirInv /\ GuardPageUnmapped)'
    BY FitStep, DirStep, GuardStep
  <1> QED BY <1>1, <1>2, PTL DEF Spec
-----------------------------------------------------------------------------
(* Memory that is not for use.  The arithmetic of pmm_init is that of      *)
(* 32-bit numbers: neither the kernel nor the boot block reaches into the  *)
(* last frame below 4 GB, as their virtual addresses lie 3 GB above the    *)
(* physical ones, and no usable region lies inside it: rounding its base   *)
(* up would wrap to 0 and free everything below (pmm.c:61).                *)
BootLayout ==
    /\ KernelEnd + FrameSize <= Width
    /\ InfoBlock.base + InfoBlock.length + FrameSize <= Width
    /\ \A m \in MemoryMaps : \A r \in m :
          r.base + FrameSize <= Width \/ r.base + r.length >= Width

LEMMA Above ==
    ASSUME NEW a \in Nat, a + FrameSize <= Width, NEW f \in Nat, f >= RoundedUp(a)
    PROVE  f * FrameSize \in Nat /\ f * FrameSize >= a
  <1> DEFINE d == FrameSize  b == a + d - 1  q == b \div d  r == b % d
  <1>1. d \in Nat \ {0} /\ Width \in Nat \ {0}
    BY PmmAssumption DEF Width
  <1>2. b \in Nat /\ b < Width
    BY <1>1
  <1>3. b % Width = b
    BY <1>1, <1>2
  <1>4. RoundedUp(a) = q
    BY <1>3 DEF RoundedUp
  <1>5. q \in Nat /\ r \in 0 .. d - 1 /\ b = d * q + r
    BY <1>1, <1>2
  <1> HIDE DEF q, r
  <1>6. d * q >= a
    <2> DEFINE x == d * q
    <2>1. x \in Nat
      BY <1>1, <1>5
    <2> HIDE DEF x
    <2> QED BY <1>1, <1>5, <2>1 DEF x
  <1>7. f * d = d * q + d * (f - q) /\ d * (f - q) \in Nat /\ d * q \in Nat
    BY <1>1, <1>4, <1>5
  <1> HIDE DEF d
  <1>8. f * d \in Nat /\ f * d >= a
    <2> DEFINE x == d * q  y == d * (f - q)
    <2>1. x \in Nat /\ y \in Nat /\ f * d = x + y /\ x >= a
      BY <1>6, <1>7
    <2> HIDE DEF x, y
    <2> QED BY <2>1
  <1> QED BY <1>8 DEF d

LEMMA Below ==
    ASSUME NEW b \in Nat, NEW f \in Nat, f < b \div FrameSize
    PROVE  f * FrameSize \in Nat /\ f * FrameSize + FrameSize <= b
  <1> DEFINE d == FrameSize  q == b \div d  r == b % d
  <1>1. d \in Nat \ {0}
    BY PmmAssumption
  <1>2. q \in Nat /\ r \in 0 .. d - 1 /\ b = d * q + r
    BY <1>1
  <1>3. f < q
    OBVIOUS
  <1> HIDE DEF q, r
  <1>4. d * q = f * d + d + d * (q - f - 1) /\ d * (q - f - 1) \in Nat /\ f * d \in Nat
    BY <1>1, <1>2, <1>3
  <1> HIDE DEF d
  <1>5. f * d \in Nat /\ f * d + d <= b
    <2> DEFINE x == f * d  y == d * (q - f - 1)  z == d * q
    <2>1. x \in Nat /\ y \in Nat /\ z = x + d + y /\ b = z + r /\ r \in Nat
      BY <1>2, <1>4
    <2> HIDE DEF x, y, z
    <2>2. x \in Nat /\ x + d <= b
      BY <1>1, <2>1
    <2> QED BY <2>2 DEF x
  <1> QED BY <1>5 DEF d

LEMMA RemainderIsLess ==
    ASSUME NEW a \in Nat, NEW m \in Nat \ {0}
    PROVE  a % m \in Nat /\ a % m <= a
  <1> DEFINE q == a \div m  r == a % m  x == m * q
  <1>1. q \in Nat /\ r \in 0 .. m - 1 /\ a = m * q + r
    OBVIOUS
  <1>2. x \in Nat
    BY <1>1
  <1>3. a = x + r
    BY <1>1
  <1> HIDE DEF x, q, r
  <1>4. r \in Nat /\ r <= a
    BY <1>1, <1>2, <1>3
  <1> QED BY <1>4 DEF r

(* A frame that pmm_mark_free frees lies within the region.                *)
LEMMA InsideRegion ==
    ASSUME NEW f \in Nat, NEW base \in Nat, NEW length \in Nat, base < Width,
           base + FrameSize <= Width \/ base + length >= Width,
           f \in Inside(base, Lower(length, Width - base))
    PROVE  Bytes(f) \subseteq base .. base + length - 1
  <1> DEFINE len == Lower(length, Width - base)  past == (base + len) % Width
  <1>1. Width \in Nat \ {0} /\ FrameSize \in Nat \ {0}
    BY PmmAssumption DEF Width
  <1>2. len \in Nat /\ len <= length /\ (base + length >= Width => base + len = Width)
    BY <1>1 DEF Lower
  <1>3. f >= RoundedUp(base) /\ f < past \div FrameSize
    BY DEF Inside
  <1> HIDE DEF len
  <1>4. past \in Nat /\ past <= base + len
    BY <1>1, <1>2, RemainderIsLess
  <1>5. base + len # Width
    <2> SUFFICES ASSUME base + len = Width PROVE FALSE
      OBVIOUS
    <2>1. past = 0
      BY <1>1
    <2>2. past \div FrameSize = 0
      BY <1>1, <2>1
    <2> QED BY <1>3, <2>2
  <1> HIDE DEF past
  <1>6. base + FrameSize <= Width
    BY <1>2, <1>5
  <1>7. f * FrameSize \in Nat /\ f * FrameSize >= base
    BY <1>3, <1>6, Above
  <1>8. f * FrameSize + FrameSize <= past
    BY <1>3, <1>4, Below
  <1> DEFINE first == f * FrameSize
  <1>9. Bytes(f) = first .. first + FrameSize - 1
    BY DEF Bytes
  <1>10. first \in Nat /\ first >= base /\ first + FrameSize <= base + length
    BY <1>1, <1>2, <1>4, <1>7, <1>8
  <1> HIDE DEF first
  <1> QED BY <1>1, <1>9, <1>10

(* A frame that pmm_mark_used does not mark lies outside the range.        *)
LEMMA NotCovered ==
    ASSUME NEW f \in Frames, NEW start \in Nat, NEW size \in Nat,
           start + size + FrameSize <= Width, f \notin Covering(start, size)
    PROVE  Bytes(f) \cap (start .. start + size - 1) = {}
  <1> DEFINE first == f * FrameSize
  <1>1. FrameSize \in Nat \ {0} /\ f \in Nat /\ start + size \in Nat
    BY FramesAreNaturals, PmmAssumption
  <1>2. RoundedUp(start + size) \in Int /\ start \div FrameSize \in Nat
    <2>1. Width \in Nat \ {0}
      BY PmmAssumption DEF Width
    <2>2. (start + size + FrameSize - 1) % Width \in Nat
      BY <1>1, <2>1
    <2> QED BY <1>1, <2>2, DivisionTimes DEF RoundedUp
  <1>3. f < start \div FrameSize \/ f >= RoundedUp(start + size)
    BY <1>1, <1>2 DEF Covering
  <1>4. first \in Nat /\ (first + FrameSize <= start \/ first >= start + size)
    BY <1>1, <1>3, Above, Below
  <1>5. Bytes(f) = first .. first + FrameSize - 1
    BY DEF Bytes
  <1> HIDE DEF first
  <1> QED BY <1>1, <1>4, <1>5

LEMMA BootIsUsable ==
    ASSUME BootLayout, Init
    PROVE  FreeIsUsable
  <1> SUFFICES ASSUME NEW f \in Free PROVE UsableAndClear(f)
    BY DEF FreeIsUsable
  <1>1. pmm_init
    BY DEF Init
  <1>2. f \in Frames /\ f \in Nat /\ f \in FreedAtBoot(mmap) /\ f \notin MarkedAtBoot
    BY <1>1, FramesAreNaturals DEF pmm_init, Free
  <1>3. PICK r \in {q \in mmap : q.base < Width} :
           f \in Inside(r.base, Lower(r.length, Width - r.base))
    BY <1>2 DEF FreedAtBoot
  <1>4. /\ mmap \in MemoryMaps /\ r \in mmap /\ r.base \in Nat /\ r.length \in Nat
        /\ r.base < Width
    BY <1>1, <1>3, PmmAssumption DEF pmm_init
  <1>5. r.base + FrameSize <= Width \/ r.base + r.length >= Width
    BY <1>4 DEF BootLayout
  <1>6. Bytes(f) \subseteq r.base .. r.base + r.length - 1
    BY <1>2, <1>3, <1>4, <1>5, InsideRegion
  <1>7. /\ f \notin Covering(0, LowEnd) /\ f \notin Covering(LowEnd, KernelEnd - LowEnd)
        /\ f \notin Covering(InfoBlock.base, InfoBlock.length)
    BY <1>2 DEF MarkedAtBoot
  <1>8. /\ LowEnd \in Nat /\ KernelEnd \in Nat /\ LowEnd <= KernelEnd /\ FrameSize \in Nat
        /\ KernelEnd - LowEnd \in Nat /\ LowEnd + (KernelEnd - LowEnd) = KernelEnd
        /\ 0 + LowEnd = LowEnd /\ LowEnd + FrameSize <= Width
        /\ InfoBlock.base \in Nat /\ InfoBlock.length \in Nat
    BY PmmAssumption DEF BootLayout, Width
  <1>9. Bytes(f) \cap (0 .. LowEnd - 1) = {}
    BY <1>2, <1>7, <1>8, NotCovered
  <1>10. Bytes(f) \cap (LowEnd .. KernelEnd - 1) = {}
    BY <1>2, <1>7, <1>8, NotCovered DEF BootLayout
  <1>11. Bytes(f) \cap (InfoBlock.base .. InfoBlock.base + InfoBlock.length - 1) = {}
    BY <1>2, <1>7, <1>8, NotCovered DEF BootLayout
  <1>12. Bytes(f) \cap (0 .. KernelEnd - 1) = {}
    <2>1. 0 .. KernelEnd - 1 = (0 .. LowEnd - 1) \union (LowEnd .. KernelEnd - 1)
      BY <1>8
    <2> QED BY <1>9, <1>10, <2>1
  <1> QED BY <1>4, <1>6, <1>11, <1>12 DEF UsableAndClear
(* The frames that are handed out or may be, and what a step can make of   *)
(* them: it gives nobody a frame that was neither free nor mapped.         *)
Handled == Free \union UNION {MappedBy(dirs[a]) : a \in {b \in Roots : Present(b)}}

LEMMA PagesMove ==
    ASSUME FitInv, DirInv, [Next]_vars, NEW a \in Roots, Present(a)', NEW p \in UserPages
    PROVE  \/ dirs'[a].pages[p] = NoFrame
           \/ MapPage /\ dirs'[a].pages[p] = Found
           \/ \E b \in Roots : Present(b) /\ dirs'[a].pages[p] = dirs[b].pages[p]
  <1> USE DEF Present
  <1> DEFINE Goal == \/ dirs'[a].pages[p] = NoFrame
                     \/ MapPage /\ dirs'[a].pages[p] = Found
                     \/ \E b \in Roots : dirs[b] # None /\ dirs'[a].pages[p] = dirs[b].pages[p]
  <1>1. ASSUME dirs'[a] = dirs[a] PROVE Goal
    BY <1>1
  <1>2. ASSUME NEW s \in Roots, dirs' = [dirs EXCEPT ![s] = EmptyDirectory]
                                \/ dirs' = [dirs EXCEPT ![s] = None]
        PROVE  Goal
    <2>1. EmptyDirectory.pages[p] = NoFrame
      BY DEF EmptyDirectory
    <2> QED BY <1>1, <1>2, <2>1 DEF DirInv
  <1>3. New \in Roots /\ Slots \subseteq Roots
    BY DEF Roots
  <1>4. ASSUME call \notin Quiet
        PROVE  call.at \in Roots /\ dirs[call.at] \in Directories /\ dirs[call.at] # None
    BY Kinds, <1>4 DEF DirInv, CallOK, Quiet
  <1>5. CASE MapPage
    <2> DEFINE at == call.at  page == Head(call.todo)
    <2>1. at \in Roots /\ dirs[at] \in Directories /\ dirs[at] # None
      <3>1. call \notin Quiet
        BY <1>5, Kinds DEF MapPage, Quiet
      <3> QED BY <1>4, <3>1
    <2>2. \/ dirs' = dirs
          \/ /\ dirs'[at].pages = [dirs[at].pages EXCEPT ![page] = Found]
             /\ \A b \in Roots \ {at} : dirs'[b] = dirs[b]
      <3> DEFINE frame == Found
      <3>1. paging_map(at, page, frame) /\ dirs \in [Roots -> Directories \union {None}]
        BY <1>5 DEF MapPage, DirInv
      <3> HIDE DEF at, page, frame
      <3>2. \/ dirs' = dirs
            \/ /\ dirs'[at].pages = [dirs[at].pages EXCEPT ![page] = frame]
               /\ \A b \in Roots \ {at} : dirs'[b] = dirs[b]
        BY <2>1, <3>1 DEF paging_map, Directories
      <3> QED BY <3>2 DEF frame
    <2>3. CASE a # at \/ dirs' = dirs
      BY <1>1, <2>2, <2>3
    <2>4. CASE a = at /\ dirs'[at].pages = [dirs[at].pages EXCEPT ![page] = Found]
      BY <1>5, <2>1, <2>4 DEF Directories
    <2> QED BY <2>2, <2>3, <2>4
  <1>6. CASE SbrkOutOfMemory
    <2>1. call.at \in Roots /\ dirs[call.at] \in Directories /\ dirs[call.at] # None
      BY <1>4, <1>6, Kinds DEF SbrkOutOfMemory, Quiet
    <2>2. dirs'[call.at].pages[p] \in {NoFrame, dirs[call.at].pages[p]}
          /\ \A b \in Roots \ {call.at} : dirs'[b] = dirs[b]
      BY <1>6, <2>1 DEF SbrkOutOfMemory, DirInv, Directories
    <2> QED BY <1>1, <2>1, <2>2
  <1>7. CASE CreateDone
    <2>1. call.at \in Roots /\ dirs[call.at] \in Directories /\ dirs[call.at] # None
          /\ dirs' = [dirs EXCEPT ![call.at].pages[GuardPage] = NoFrame]
      BY <1>4, <1>7, Kinds DEF CreateDone, Quiet
    <2>2. \A b \in Roots \ {call.at} : dirs'[b] = dirs[b]
      BY <2>1 DEF DirInv
    <2>3. dirs'[call.at].pages = [dirs[call.at].pages EXCEPT ![GuardPage] = NoFrame]
      BY <2>1 DEF DirInv, Directories
    <2>4. dirs'[call.at].pages[p] \in {NoFrame, dirs[call.at].pages[p]}
      BY <2>1, <2>3 DEF Directories
    <2> QED BY <1>1, <2>1, <2>2, <2>4
  <1>8. CASE ExecDone
    <2>1. dirs[New] # None
      BY Kinds, <1>8 DEF ExecDone, DirInv, CallOK, Idle, Maps, Quiet
    <2>2. dirs' = [dirs EXCEPT ![current] = dirs[New], ![New] = None]
      BY <1>8 DEF ExecDone
    <2>3. dirs'[a] = dirs[a] \/ dirs'[a] = dirs[New]
      BY <2>2 DEF DirInv
    <2> QED BY <1>1, <1>3, <2>1, <2>3
  <1>9. CASE process_exit
    <2>1. current \in Roots /\ (dirs' = dirs \/ dirs' = [dirs EXCEPT ![current] = None])
      BY <1>3, <1>9 DEF process_exit, DirInv
    <2> QED BY <1>1, <1>2, <2>1
  <1>10. CASE LoadOutOfMemory \/ ExecRefused
    BY <1>2, <1>3, <1>10 DEF LoadOutOfMemory, ExecRefused
  <1>11. ASSUME NEW image \in Images, NEW ok \in BOOLEAN, ExecBegin(image, ok) PROVE Goal
    BY <1>2, <1>3, <1>11 DEF ExecBegin
  <1>12. ASSUME NEW s \in Slots, NEW image \in Images, NEW ok \in BOOLEAN,
                CreateBegin(s, image, ok)
         PROVE  Goal
    BY <1>2, <1>3, <1>12 DEF CreateBegin
  <1>13. ASSUME NEW s \in Slots, CreateNoDirectory(s) PROVE Goal
    BY <1>2, <1>3, <1>13 DEF CreateNoDirectory
  <1>14. CASE CreateFails \/ ExecLoaded \/ SbrkQuery \/ SbrkDone \/ Switch
    BY <1>1, <1>14 DEF CreateFails, ExecLoaded, SbrkQuery, SbrkDone, Switch
  <1>15. ASSUME NEW i \in Increments, SbrkShrink(i) \/ SbrkGrow(i) PROVE Goal
    BY <1>1, <1>15 DEF SbrkShrink, SbrkGrow
  <1>16. ASSUME NEW s \in Slots, Kill(s) PROVE Goal
    BY <1>1, <1>16 DEF Kill
  <1>17. CASE UNCHANGED vars
    BY <1>1, <1>17 DEF vars
  <1> QED BY <1>5, <1>6, <1>7, <1>8, <1>9, <1>10, <1>11, <1>12, <1>13, <1>14, <1>15, <1>16,
             <1>17 DEF Next

LEMMA HandledStep ==
    ASSUME FitInv, DirInv, [Next]_vars
    PROVE  mmap' = mmap /\ Handled' \subseteq Handled
  <1>1. mmap' = mmap
    BY AllocatorSteps DEF pmmVars, phys_alloc_page, FreeAll
  <1>2. Free' \subseteq Handled
    <2>1. CASE process_exit
      <3>1. current \in Roots
        BY <2>1 DEF process_exit, DirInv, Roots
      <3>2. CASE Present(current) /\ used' = used \ Freed(MappedBy(dirs[current]))
        BY <3>1, <3>2 DEF Free, Freed, Handled
      <3>3. CASE used' = used
        BY <3>3 DEF Free, Handled
      <3> QED BY <2>1, <3>2, <3>3 DEF process_exit, FreeAll, pmmVars
    <2>2. CASE MapPage
      BY <2>2 DEF MapPage, phys_alloc_page, Free, Handled
    <2>3. CASE UNCHANGED vars
      BY <2>3 DEF vars, pmmVars, Free, Handled
    <2>4. CASE Next /\ ~MapPage /\ ~process_exit
      <3>1. UNCHANGED pmmVars
        BY <2>4, AllocatorStays
      <3> QED BY <3>1 DEF pmmVars, Free, Handled
    <2> QED BY <2>1, <2>2, <2>3, <2>4
  <1>3. ASSUME NEW a \in Roots, Present(a)', NEW f \in MappedBy(dirs[a])'
        PROVE  f \in Handled
    <2>1. PICK p \in UserPages : f = dirs'[a].pages[p] /\ f # NoFrame
      BY DEF MappedBy
    <2>2. CASE MapPage /\ f = Found
      BY <2>2, FoundIsFree DEF MapPage, phys_alloc_page, Handled
    <2>3. CASE \E b \in Roots : Present(b) /\ f = dirs[b].pages[p]
      BY <2>1, <2>3 DEF Handled, MappedBy
    <2> QED BY <1>3, <2>1, <2>2, <2>3, PagesMove
  <1> QED BY <1>1, <1>2, <1>3 DEF Handled, Present

(* No process is ever given a frame outside the usable memory of the map,  *)
(* or one of the kernel's or the boot loader's (pmm_init,                  *)
(* phys_alloc_page, phys_free_page).                                       *)
THEOREM ReservedMemoryIsKept ==
    ASSUME BootLayout
    PROVE  Spec => []NeverReserved
  <1>1. NeverReserved <=> \A f \in Handled : UsableAndClear(f)
    BY DEF NeverReserved, FreeIsUsable, Handled
  <1>2. Init => FitInv /\ DirInv /\ NeverReserved
    <2> SUFFICES ASSUME Init PROVE NeverReserved
      BY FitInit, DirInit
    <2>1. \A a \in Roots : ~Present(a)
      BY DEF Init, Present
    <2> QED BY <2>1, BootIsUsable DEF NeverReserved
  <1>3. FitInv /\ DirInv /\ NeverReserved /\ [Next]_vars => (FitInv /\ DirInv /\ NeverReserved)'
    <2> SUFFICES ASSUME FitInv, DirInv, NeverReserved, [Next]_vars PROVE NeverReserved'
      BY FitStep, DirStep
    <2>1. mmap' = mmap /\ Handled' \subseteq Handled
      BY HandledStep
    <2>2. \A f : UsableAndClear(f) => UsableAndClear(f)'
      BY <2>1 DEF UsableAndClear, Bytes
    <2>3. \A f \in Handled' : UsableAndClear(f)'
      BY <1>1, <2>1, <2>2
    <2> QED BY <2>3 DEF NeverReserved, FreeIsUsable, Handled
  <1> QED BY <1>2, <1>3, PTL DEF Spec
-----------------------------------------------------------------------------
(* The kernel heap.  PagesOfHeap grows by a page only when heap_left goes  *)
(* down by one, and an exit gives back as many as it takes out.            *)
HeapInv == heap_left \in Nat /\ IsFiniteSet(PagesOfHeap) /\ KernelHeapPagesOwnedOnce
Tables0(a) == {-1} \union dirs[a].tables

LEMMA HeapPage ==
    \A x : x \in PagesOfHeap <=>
               \E a \in Roots : Present(a) /\ \E t \in Tables0(a) : x = <<a, t>>
  <1> TAKE x
  <1>1. x \in PagesOfHeap <=>
            \E a \in {b \in Roots : Present(b)} : x \in {a} \X Tables0(a)
    BY Zenon DEF PagesOfHeap, Tables0
  <1>2. \A a : x \in {a} \X Tables0(a) <=> \E t \in Tables0(a) : x = <<a, t>>
    OBVIOUS
  <1>3. x \in PagesOfHeap <=>
            \E a \in Roots : Present(a) /\ x \in {a} \X Tables0(a)
    BY <1>1
  <1> QED BY <1>2, <1>3

LEMMA HeapPageNext ==
    \A x : x \in PagesOfHeap' <=>
               \E a \in Roots : Present(a)' /\ \E t \in Tables0(a)' : x = <<a, t>>
  <1> TAKE x
  <1>1. x \in PagesOfHeap' <=>
            \E a \in {b \in Roots : Present(b)'} : x \in {a} \X Tables0(a)'
    BY Zenon DEF PagesOfHeap, Tables0
  <1>2. \A a : x \in {a} \X Tables0(a)' <=> \E t \in Tables0(a)' : x = <<a, t>>
    OBVIOUS
  <1>3. x \in PagesOfHeap' <=>
            \E a \in Roots : Present(a)' /\ x \in {a} \X Tables0(a)'
    BY <1>1
  <1> QED BY <1>2, <1>3

LEMMA SmallerSet ==
    ASSUME NEW S, NEW T, IsFiniteSet(S), T \subseteq S
    PROVE  IsFiniteSet(T) /\ Cardinality(T) \in Nat /\ Cardinality(S) \in Nat
           /\ Cardinality(T) <= Cardinality(S)
  BY FS_Subset, FS_CardinalityType

LEMMA OneMore ==
    ASSUME NEW S, NEW T, NEW x, IsFiniteSet(S), T \subseteq S \union {x}
    PROVE  IsFiniteSet(T) /\ Cardinality(T) \in Nat /\ Cardinality(S) \in Nat
           /\ Cardinality(T) <= Cardinality(S) + 1
  <1>1. /\ IsFiniteSet(S \union {x}) /\ Cardinality(S) \in Nat
        /\ Cardinality(S \union {x}) = IF x \in S THEN Cardinality(S) ELSE Cardinality(S) + 1
    BY FS_AddElement, FS_CardinalityType
  <1>2. /\ IsFiniteSet(T) /\ Cardinality(T) \in Nat
        /\ Cardinality(T) <= Cardinality(S \union {x})
    BY <1>1, SmallerSet
  <1> QED BY <1>1, <1>2

(* Steps that move no page to another root and add none.                   *)
LEMMA HeapShrinks ==
    ASSUME HeapInv, heap_left' \in Nat, heap_left' + FileBuffer' <= heap_left + FileBuffer,
           \A a \in Roots : Present(a)' => Present(a) /\ dirs'[a].tables \subseteq dirs[a].tables
    PROVE  HeapInv'
  <1>1. PagesOfHeap' \subseteq PagesOfHeap
    BY DEF PagesOfHeap, Present
  <1>2. /\ IsFiniteSet(PagesOfHeap') /\ Cardinality(PagesOfHeap') \in Nat
        /\ Cardinality(PagesOfHeap) \in Nat
        /\ Cardinality(PagesOfHeap') <= Cardinality(PagesOfHeap)
    BY <1>1, SmallerSet DEF HeapInv
  <1>3. FileBuffer \in {0, 1} /\ FileBuffer' \in {0, 1}
    BY DEF FileBuffer
  <1>4. /\ heap_left \in Nat /\ HeapPages \in Nat
        /\ heap_left + FileBuffer + Cardinality(PagesOfHeap) <= HeapPages
    BY AddressSpaceAssumption DEF HeapInv, KernelHeapPagesOwnedOnce
  <1> DEFINE m == Cardinality(PagesOfHeap)  m1 == Cardinality(PagesOfHeap')
             b == FileBuffer  b1 == FileBuffer'  h1 == heap_left'
  <1>5. /\ m \in Nat /\ m1 \in Nat /\ m1 <= m /\ b \in {0, 1} /\ b1 \in {0, 1}
        /\ h1 \in Nat /\ h1 + b1 <= heap_left + b /\ heap_left + b + m <= HeapPages
    BY <1>2, <1>3, <1>4
  <1> HIDE DEF m, m1, b, b1, h1
  <1>6. h1 + b1 + m1 <= HeapPages
    BY <1>4, <1>5
  <1> USE DEF m1, b1, h1
  <1> QED BY <1>2, <1>6 DEF HeapInv, KernelHeapPagesOwnedOnce

(* Steps that take a page for a new directory or table, d, of the root a.  *)
LEMMA HeapTakes ==
    ASSUME HeapInv, heap_left' \in Nat,
           heap_left' + FileBuffer' + 1 <= heap_left + FileBuffer,
           NEW a \in Roots, NEW t,
           \A b \in Roots : Present(b)' =>
               \A u \in Tables0(b)' : (Present(b) /\ u \in Tables0(b)) \/ (b = a /\ u = t)
    PROVE  HeapInv'
  <1>1. PagesOfHeap' \subseteq PagesOfHeap \union {<<a, t>>}
    <2> SUFFICES ASSUME NEW x \in PagesOfHeap' PROVE x \in PagesOfHeap \/ x = <<a, t>>
      OBVIOUS
    <2>1. PICK b \in Roots : Present(b)' /\ \E u \in Tables0(b)' : x = <<b, u>>
      BY HeapPageNext
    <2>2. PICK u \in Tables0(b)' : x = <<b, u>>
      BY <2>1
    <2>3. (Present(b) /\ u \in Tables0(b)) \/ (b = a /\ u = t)
      BY <2>1, <2>2
    <2> QED BY <2>2, <2>3, HeapPage
  <1>2. /\ IsFiniteSet(PagesOfHeap') /\ Cardinality(PagesOfHeap') \in Nat
        /\ Cardinality(PagesOfHeap) \in Nat
        /\ Cardinality(PagesOfHeap') <= Cardinality(PagesOfHeap) + 1
    BY <1>1, OneMore DEF HeapInv
  <1>3. FileBuffer \in {0, 1} /\ FileBuffer' \in {0, 1}
    BY DEF FileBuffer
  <1>4. /\ heap_left \in Nat /\ HeapPages \in Nat
        /\ heap_left + FileBuffer + Cardinality(PagesOfHeap) <= HeapPages
    BY AddressSpaceAssumption DEF HeapInv, KernelHeapPagesOwnedOnce
  <1> DEFINE m == Cardinality(PagesOfHeap)  m1 == Cardinality(PagesOfHeap')
             b == FileBuffer  b1 == FileBuffer'  h1 == heap_left'
  <1>5. /\ m \in Nat /\ m1 \in Nat /\ m1 <= m + 1 /\ b \in {0, 1} /\ b1 \in {0, 1}
        /\ h1 \in Nat /\ h1 + b1 + 1 <= heap_left + b /\ heap_left + b + m <= HeapPages
    BY <1>2, <1>3, <1>4
  <1> HIDE DEF m, m1, b, b1, h1
  <1>6. h1 + b1 + m1 <= HeapPages
    BY <1>4, <1>5
  <1> USE DEF m1, b1, h1
  <1> QED BY <1>2, <1>6 DEF HeapInv, KernelHeapPagesOwnedOnce

(* The new directory becomes the process's; its old one is forgotten.      *)
LEMMA HeapMoves ==
    ASSUME HeapInv, UNCHANGED heap_left, FileBuffer' = FileBuffer,
           dirs \in [Roots -> Directories \union {None}],
           New \in Roots, current \in Roots, current # New, dirs[New] # None,
           dirs' = [dirs EXCEPT ![current] = dirs[New], ![New] = None]
    PROVE  HeapInv'
  <1> DEFINE S == PagesOfHeap'  T == PagesOfHeap
             f == [x \in S |-> IF x[1] = current THEN <<New, x[2]>> ELSE x]
  <1>1. /\ dirs'[current] = dirs[New] /\ dirs'[New] = None
        /\ \A a \in Roots \ {current, New} : dirs'[a] = dirs[a]
    OBVIOUS
  <1>2. ASSUME NEW x \in S
        PROVE  \E a \in Roots \ {New} : \E t : x = <<a, t>> /\ f[x] \in T
                  /\ f[x] = <<IF a = current THEN New ELSE a, t>>
    <2>1. PICK a \in Roots : Present(a)' /\ \E t \in Tables0(a)' : x = <<a, t>>
      BY <1>2, HeapPageNext
    <2>2. PICK t \in Tables0(a)' : x = <<a, t>>
      BY <2>1
    <2>3. a # New /\ f[x] = <<IF a = current THEN New ELSE a, t>>
      BY <1>1, <2>1, <2>2 DEF Present
    <2>4. CASE a = current
      <3>1. t \in Tables0(New) /\ Present(New)
        BY <1>1, <2>2, <2>4 DEF Tables0, Present
      <3> QED BY <2>2, <2>3, <2>4, <3>1, HeapPage
    <2>5. CASE a # current
      <3>1. t \in Tables0(a) /\ Present(a)
        BY <1>1, <2>1, <2>2, <2>3, <2>5 DEF Tables0, Present
      <3> QED BY <2>2, <2>3, <2>5, <3>1, HeapPage
    <2> QED BY <2>4, <2>5
  <1>3. f \in [S -> T]
    <2>1. \A x \in S : f[x] \in T
      BY <1>2
    <2> QED BY <2>1
  <1>4. ASSUME NEW x \in S, NEW y \in S, f[x] = f[y] PROVE x = y
    <2> HIDE DEF f, S, T
    <2>1. PICK a \in Roots \ {New} : \E t : x = <<a, t>>
                  /\ f[x] = <<IF a = current THEN New ELSE a, t>>
      BY <1>2
    <2>2. PICK b \in Roots \ {New} : \E t : y = <<b, t>>
                  /\ f[y] = <<IF b = current THEN New ELSE b, t>>
      BY <1>2
    <2> QED BY <1>4, <2>1, <2>2
  <1>5. f \in Injection(S, T)
    BY <1>3, <1>4 DEF Injection, IsInjective
  <1> HIDE DEF f
  <1>6. IsFiniteSet(S) /\ Cardinality(S) <= Cardinality(T)
    BY <1>5, FS_Injection DEF HeapInv
  <1>7. Cardinality(S) \in Nat /\ Cardinality(T) \in Nat /\ FileBuffer \in {0, 1}
    BY <1>6, FS_CardinalityType DEF HeapInv, FileBuffer
  <1> HIDE DEF S, T
  <1>8. heap_left + FileBuffer + Cardinality(S) <= HeapPages
    BY <1>6, <1>7, AddressSpaceAssumption DEF HeapInv, KernelHeapPagesOwnedOnce, T
  <1> QED BY <1>6, <1>8 DEF HeapInv, KernelHeapPagesOwnedOnce, S

(* What an exit takes out: its directory and tables, each once.            *)
LEMMA HeapGivenBack ==
    ASSUME HeapInv, NEW a \in Roots, Present(a), dirs[a] \in Directories,
           dirs \in [Roots -> Directories \union {None}],
           dirs' = [dirs EXCEPT ![a] = None], FileBuffer' = FileBuffer,
           heap_left' = heap_left + HeapPagesOf(dirs[a])
    PROVE  HeapInv'
  <1> DEFINE S == PagesOfHeap'  T == PagesOfHeap  own == {a} \X Tables0(a)
             g == [x \in own |-> x[2]]
  <1>1. own \subseteq T /\ S = T \ own
    BY DEF PagesOfHeap, Tables0, Present
  <1>2. g \in Bijection(own, Tables0(a))
    <2>1. g \in [own -> Tables0(a)] /\ \A x \in own : x = <<a, g[x]>>
      OBVIOUS
    <2>2. \A t \in Tables0(a) : <<a, t>> \in own /\ g[<<a, t>>] = t
      OBVIOUS
    <2> HIDE DEF g, own
    <2>3. \A x, y \in own : g[x] = g[y] => x = y
      BY <2>1
    <2>4. \A t \in Tables0(a) : \E x \in own : g[x] = t
      <3> SUFFICES ASSUME NEW t \in Tables0(a) PROVE \E x \in own : g[x] = t
        OBVIOUS
      <3> QED BY <2>2
    <2>5. g \in Injection(own, Tables0(a)) /\ g \in Surjection(own, Tables0(a))
      BY <2>1, <2>3, <2>4 DEF Injection, Surjection, IsInjective
    <2> QED BY <2>5 DEF Bijection
  <1>3. /\ IsFiniteSet(own) /\ IsFiniteSet(S)
        /\ Cardinality(S) = Cardinality(T) - Cardinality(T \cap own)
    BY <1>1, SmallerSet, FS_Difference DEF HeapInv
  <1>4. T \cap own = own
    BY <1>1
  <1>5. IsFiniteSet(Tables0(a)) /\ Cardinality(Tables0(a)) = Cardinality(own)
    BY <1>2, <1>3, FS_Bijection DEF ExistsBijection
  <1>6. IsFiniteSet(dirs[a].tables)
    BY <1>5, SmallerSet DEF Tables0
  <1>7. -1 \notin dirs[a].tables
    <2>1. dirs[a].tables \subseteq Tables
      BY DEF Directories
    <2>2. ASSUME NEW p \in UserPages PROVE TableOf(p) \in Nat
      <3>1. p \in Nat /\ TablePages \in Nat \ {0}
        BY AddressSpaceAssumption DEF UserPages
      <3> QED BY <3>1 DEF TableOf
    <2> QED BY <2>1, <2>2 DEF Tables
  <1>8. Cardinality(Tables0(a)) = Cardinality(dirs[a].tables) + 1
    <2> DEFINE ts == dirs[a].tables
    <2>1. Tables0(a) = ts \union {-1} /\ IsFiniteSet(ts) /\ -1 \notin ts
      BY <1>6, <1>7 DEF Tables0
    <2> HIDE DEF ts
    <2>2. Cardinality(ts \union {-1}) = Cardinality(ts) + 1
      BY <2>1, FS_AddElement
    <2> USE DEF ts
    <2> QED BY <2>1, <2>2, Zenon
  <1>9. Cardinality(S) \in Nat /\ Cardinality(T) \in Nat /\ Cardinality(dirs[a].tables) \in Nat
    BY <1>3, <1>6, FS_CardinalityType DEF HeapInv
  <1>10. FileBuffer \in {0, 1}
    BY DEF FileBuffer
  <1> DEFINE n == Cardinality(dirs[a].tables)
  <1>11. heap_left' = heap_left + 1 + n /\ Cardinality(S) = Cardinality(T) - (n + 1)
    <2>1. heap_left' = heap_left + (1 + n) /\ heap_left \in Nat
      BY DEF HeapInv, HeapPagesOf
    <2>2. Cardinality(S) = Cardinality(T) - (n + 1)
      BY <1>3, <1>4, <1>5, <1>8, Zenon
    <2>3. n \in Nat
      BY <1>9
    <2> HIDE DEF n, S, T
    <2> QED BY <2>1, <2>2, <2>3
  <1> DEFINE b == FileBuffer  s == Cardinality(S)  c == Cardinality(T)
  <1>12. /\ s \in Nat /\ c \in Nat /\ n \in Nat /\ b \in {0, 1}
         /\ heap_left \in Nat /\ HeapPages \in Nat /\ heap_left + b + c <= HeapPages
         /\ heap_left' = heap_left + 1 + n /\ s = c - (n + 1)
    BY <1>9, <1>10, <1>11, AddressSpaceAssumption DEF HeapInv, KernelHeapPagesOwnedOnce
  <1> HIDE DEF S, T, n, b, s, c
  <1>13. heap_left' + b + s <= HeapPages /\ heap_left' \in Nat
    BY <1>12
  <1> USE DEF S, b, s
  <1> QED BY <1>3, <1>13 DEF HeapInv, KernelHeapPagesOwnedOnce
LEMMA HeapStep ==
    ASSUME FitInv, DirInv, HeapInv, [Next]_vars
    PROVE  HeapInv'
  <1> DEFINE Same == \A a \in Roots : Present(a)' =>
                         Present(a) /\ dirs'[a].tables \subseteq dirs[a].tables
  <1>1. /\ heap_left \in Nat /\ dirs \in [Roots -> Directories \union {None}]
        /\ New \in Roots /\ Slots \subseteq Roots
    BY DEF HeapInv, DirInv, Roots
  <1>2. ASSUME dirs' = dirs PROVE Same
    BY <1>2 DEF Present
  <1>3. ASSUME NEW a \in Roots, dirs' = [dirs EXCEPT ![a] = None] PROVE Same
    BY <1>1, <1>3 DEF Present
  <1>4. EmptyDirectory.tables = {}
    BY DEF EmptyDirectory
  <1>5. ASSUME NEW s \in Roots, dirs' = [dirs EXCEPT ![s] = EmptyDirectory], call = Idle,
               heap_left >= 2, heap_left' = heap_left - 2, call'.kind \in {"create", "exec"}
        PROVE  HeapInv'
    <2>1. FileBuffer = 0 /\ FileBuffer' = 1
      BY <1>5, Kinds DEF FileBuffer
    <2>2. heap_left' \in Nat /\ heap_left' + FileBuffer' + 1 <= heap_left + FileBuffer
      BY <1>1, <1>5, <2>1
    <2>3. \A b \in Roots : Present(b)' =>
              \A u \in Tables0(b)' : (Present(b) /\ u \in Tables0(b)) \/ (b = s /\ u = -1)
      BY <1>1, <1>4, <1>5 DEF Present, Tables0
    <2> QED BY <2>2, <2>3, HeapTakes
  <1>6. ASSUME Same, heap_left' \in Nat, heap_left' + FileBuffer' <= heap_left + FileBuffer
        PROVE  HeapInv'
    BY <1>6, HeapShrinks
  <1>7. ASSUME call' = Idle, heap_left' = heap_left + 1, call.kind \in {"create", "exec"}
        PROVE  heap_left' \in Nat /\ heap_left' + FileBuffer' <= heap_left + FileBuffer
    <2>1. FileBuffer = 1 /\ FileBuffer' = 0
      BY <1>7, Kinds DEF FileBuffer
    <2> QED BY <1>1, <1>7, <2>1
  <1>8. ASSUME UNCHANGED heap_left, call' = Idle \/ FileBuffer' = FileBuffer
        PROVE  heap_left' \in Nat /\ heap_left' + FileBuffer' <= heap_left + FileBuffer
    <2> DEFINE b == FileBuffer  b1 == FileBuffer'  h1 == heap_left'
    <2>1. b \in {0, 1} /\ b1 \in {0, 1} /\ b1 <= b /\ h1 = heap_left
      BY <1>8, Kinds DEF FileBuffer
    <2> HIDE DEF b, b1, h1
    <2>2. h1 \in Nat /\ h1 + b1 <= heap_left + b
      BY <1>1, <2>1
    <2> USE DEF b, b1, h1
    <2> QED BY <2>2
  <1>9. ASSUME call \notin Quiet
        PROVE  call.at \in Roots /\ Present(call.at) /\ dirs[call.at] \in Directories
    BY Kinds, <1>1, <1>9 DEF DirInv, CallOK, Present, Quiet
  <1> HIDE DEF Same
  <1>10. CASE MapPage
    <2> DEFINE at == call.at  page == Head(call.todo)
    <2>1. at \in Roots /\ Present(at) /\ dirs[at] \in Directories
      BY <1>9, <1>10, Kinds DEF MapPage, Quiet
    <2>2. FileBuffer' = FileBuffer /\ FileBuffer \in {0, 1}
      BY <1>10 DEF MapPage, FileBuffer
    <2>3. CASE UNCHANGED <<dirs, heap_left>>
      BY <1>2, <1>6, <1>8, <2>2, <2>3
    <2>4. CASE dirs' = [dirs EXCEPT ![at].pages[page] = Found] /\ UNCHANGED heap_left
      <3>1. \A b \in Roots : Present(b)' => Present(b) /\ dirs'[b].tables \subseteq dirs[b].tables
        BY <1>1, <2>1, <2>4 DEF Present, Directories
      <3> QED BY <1>6, <1>8, <2>2, <2>4, <3>1 DEF Same
    <2>5. CASE /\ heap_left > 0 /\ heap_left' = heap_left - 1
               /\ dirs' = [dirs EXCEPT ![at] =
                      [pages |-> [dirs[at].pages EXCEPT ![page] = Found],
                       tables |-> dirs[at].tables \union {TableOf(page)}]]
      <3>1. heap_left' \in Nat /\ heap_left' + FileBuffer' + 1 <= heap_left + FileBuffer
        BY <1>1, <2>2, <2>5
      <3>2. /\ dirs'[at].tables = dirs[at].tables \union {TableOf(page)}
            /\ \A b \in Roots \ {at} : dirs'[b] = dirs[b]
        BY <1>1, <2>1, <2>5
      <3>3. \A b \in Roots : Present(b)' => \A u \in Tables0(b)' :
                (Present(b) /\ u \in Tables0(b)) \/ (b = at /\ u = TableOf(page))
        BY <2>1, <3>2 DEF Present, Tables0
      <3> QED BY <2>1, <3>1, <3>3, HeapTakes
    <2> QED BY <1>10, <2>3, <2>4, <2>5 DEF MapPage, paging_map
  <1>11. CASE SbrkOutOfMemory
    <2>1. call.at \in Roots /\ Present(call.at) /\ dirs[call.at] \in Directories
      BY <1>9, <1>11, Kinds DEF SbrkOutOfMemory, Quiet
    <2>2. \A b \in Roots : Present(b)' => Present(b) /\ dirs'[b].tables \subseteq dirs[b].tables
      BY <1>1, <1>11, <2>1 DEF SbrkOutOfMemory, Directories, Present
    <2> QED BY <1>6, <1>8, <1>11, <2>2 DEF SbrkOutOfMemory, Same
  <1>12. CASE CreateDone
    <2>1. call.at \in Roots /\ Present(call.at) /\ dirs[call.at] \in Directories
      BY <1>9, <1>12, Kinds DEF CreateDone, Quiet
    <2>2. \A b \in Roots : Present(b)' => Present(b) /\ dirs'[b].tables \subseteq dirs[b].tables
      BY <1>1, <1>12, <2>1 DEF CreateDone, Directories, Present
    <2> QED BY <1>6, <1>7, <1>12, <2>2 DEF CreateDone, Same
  <1>13. CASE ExecDone
    <2>1. call.at = New /\ current \in Slots /\ Present(New)
      BY Kinds, <1>13 DEF ExecDone, DirInv, CallOK, Idle, Maps, Quiet
    <2>2. current # New
      BY <2>1, AddressSpaceAssumption DEF New
    <2>3. FileBuffer' = FileBuffer
      BY <1>13, Kinds DEF ExecDone, FileBuffer
    <2> QED BY <1>1, <1>13, <2>1, <2>2, <2>3, HeapMoves DEF ExecDone, Present
  <1>14. CASE process_exit
    <2>1. current \in Roots
      BY <1>1, <1>14 DEF process_exit, DirInv
    <2>2. FileBuffer' = FileBuffer
      BY <1>14, Kinds DEF process_exit, Leave, FileBuffer
    <2>3. CASE /\ Present(current)
               /\ heap_left' = heap_left + HeapPagesOf(dirs[current])
               /\ dirs' = [dirs EXCEPT ![current] = None]
      <3>1. dirs[current] \in Directories
        BY <1>1, <2>1, <2>3 DEF Present
      <3> QED BY <1>1, <2>1, <2>2, <2>3, <3>1, HeapGivenBack
    <2>4. CASE UNCHANGED <<heap_left, dirs>>
      BY <1>2, <1>6, <1>8, <2>2, <2>4
    <2> QED BY <1>14, <2>3, <2>4 DEF process_exit
  <1>15. CASE LoadOutOfMemory
    <2>1. Same
      BY <1>1, <1>3, <1>15 DEF LoadOutOfMemory
    <2>2. CASE call.kind = "exec_stack"
      BY <1>6, <1>8, <1>15, <2>1, <2>2 DEF LoadOutOfMemory
    <2>3. CASE call.kind # "exec_stack"
      BY <1>6, <1>7, <1>15, <2>1, <2>3 DEF LoadOutOfMemory
    <2> QED BY <2>2, <2>3
  <1>16. CASE ExecRefused
    BY <1>1, <1>3, <1>6, <1>7, <1>16 DEF ExecRefused
  <1>17. CASE CreateFails
    BY <1>2, <1>6, <1>7, <1>17 DEF CreateFails
  <1>18. CASE ExecLoaded
    <2>1. heap_left' = heap_left + 1 /\ FileBuffer = 1 /\ FileBuffer' = 0 /\ dirs' = dirs
      <3>1. call'.kind = "exec_stack"
        BY <1>18, <1>9 DEF ExecLoaded
      <3> QED BY <1>18, <3>1 DEF ExecLoaded, FileBuffer
    <2> QED BY <1>1, <1>2, <1>6, <2>1
  <1>19. ASSUME NEW image \in Images, NEW ok \in BOOLEAN, ExecBegin(image, ok) PROVE HeapInv'
    <2>1. call'.kind = "exec"
      BY <1>19 DEF ExecBegin, Idle
    <2> QED BY <1>1, <1>5, <1>19, <2>1 DEF ExecBegin
  <1>20. ASSUME NEW s \in Slots, NEW image \in Images, NEW ok \in BOOLEAN,
                CreateBegin(s, image, ok)
         PROVE  HeapInv'
    <2>1. call'.kind = "create"
      BY <1>20 DEF CreateBegin, Idle
    <2> QED BY <1>1, <1>5, <1>20, <2>1 DEF CreateBegin
  <1>21. ASSUME NEW s \in Slots, CreateNoDirectory(s) PROVE HeapInv'
    <2>1. s \in Roots /\ UNCHANGED heap_left /\ FileBuffer' = FileBuffer
      BY <1>1, <1>21 DEF CreateNoDirectory, FileBuffer
    <2> QED BY <1>3, <1>6, <1>8, <1>21, <2>1 DEF CreateNoDirectory
  <1>22. ASSUME dirs' = dirs, heap_left' = heap_left, call' = Idle \/ FileBuffer' = FileBuffer
         PROVE  HeapInv'
    BY <1>2, <1>6, <1>8, <1>22
  <1>23. CASE SbrkQuery \/ SbrkDone \/ Switch
    BY <1>22, <1>23 DEF SbrkQuery, SbrkDone, Switch, FileBuffer
  <1>24. ASSUME NEW i \in Increments, SbrkShrink(i) \/ SbrkGrow(i) PROVE HeapInv'
    <2>1. dirs' = dirs /\ heap_left' = heap_left
      BY <1>24 DEF SbrkShrink, SbrkGrow
    <2>2. FileBuffer' = FileBuffer
      <3>1. CASE call' = call
        BY <3>1 DEF FileBuffer
      <3>2. CASE call' # call
        <4>1. SbrkGrow(i)
          BY <1>24, <3>2 DEF SbrkShrink
        <4>2. call.kind = "idle"
          BY <4>1 DEF SbrkGrow, Idle
        <4>3. call'.kind = "sbrk"
          BY <3>2, <4>1 DEF SbrkGrow, Idle
        <4> QED BY <4>2, <4>3 DEF FileBuffer
      <3> QED BY <3>1, <3>2
    <2> QED BY <1>22, <2>1, <2>2
  <1>25. ASSUME NEW s \in Slots, Kill(s) PROVE HeapInv'
    BY <1>22, <1>25 DEF Kill, FileBuffer
  <1>26. CASE UNCHANGED vars
    BY <1>22, <1>26 DEF vars, FileBuffer
  <1> QED BY <1>10, <1>11, <1>12, <1>13, <1>14, <1>15, <1>16, <1>17, <1>18, <1>19, <1>20, <1>21,
             <1>23, <1>24, <1>25, <1>26 DEF Next

(* However processes are created, killed, run other programs and exit, no  *)
(* page of the kernel heap is given back twice: never are more in use or   *)
(* free than there are (process_create_elf, sys_exec, paging_map,          *)
(* process_exit).                                                          *)
THEOREM HeapPagesHaveOneOwner == Spec => []KernelHeapPagesOwnedOnce
  <1>1. Init => HeapInv
    <2> SUFFICES ASSUME Init PROVE HeapInv
      OBVIOUS
    <2>1. PagesOfHeap = {}
      <3>1. \A a \in Roots : ~Present(a)
        BY DEF Init, Present
      <3> QED BY <3>1, HeapPage
    <2>2. IsFiniteSet(PagesOfHeap) /\ Cardinality(PagesOfHeap) = 0
      BY <2>1, FS_EmptySet
    <2>3. heap_left = HeapPages /\ heap_left \in Nat /\ FileBuffer = 0
      BY AddressSpaceAssumption, Kinds DEF Init, FileBuffer
    <2> QED BY <2>2, <2>3 DEF HeapInv, KernelHeapPagesOwnedOnce
  <1>2. FitInv /\ DirInv /\ HeapInv /\ [Next]_vars => (FitInv /\ DirInv /\ HeapInv)'
    BY HeapStep, FitStep, DirStep
  <1>3. HeapInv => KernelHeapPagesOwnedOnce
    BY DEF HeapInv
  <1> QED BY <1>1, <1>2, <1>3, FitInit, DirInit, PTL DEF Spec
=============================================================================
