-------------------------------- MODULE Txfs --------------------------------
(***************************************************************************)
(* TxFS, the native file system (kernel/txfs.c), down to single writes of  *)
(* disk blocks.  A call runs with interrupts off, so it is one step that   *)
(* finds the disk images it goes through; the disk then takes them one     *)
(* after the other, and between any two of them the power may fail.        *)
(*                                                                         *)
(* Positions and sizes count blocks in files and entries in directories.   *)
(* A block is read as what it was last written as, else as zeros.  Block 0 *)
(* and inode 0, the root, also stand for "none".  Permissions, times, link *)
(* counts and failing reads and writes are left out, and so are disks with *)
(* more blocks than the one block of bitmap has bits: txfs.c then looks    *)
(* for free ones past the end of its array.                                *)
(***************************************************************************)
EXTENDS Integers, FiniteSets, SequencesExt

CONSTANTS
    MaxInodes,      \* TXFS_MAX_INODES
    TotalBlocks,    \* data blocks, numbered from 1
    BitmapBits,     \* the bits of a bitmap, which is one block
    DirectBlocks,   \* TXFS_DIRECT_BLOCKS
    PtrsPerBlock,   \* TXFS_PTRS_PER_BLOCK
    DirentsPerBlock,
    MaxFds,         \* TXFS_MAX_FDS
    FilePaths, DirPaths,        \* the paths programs give to files and to
                    \* directories: sequences of names
    Values,         \* what a program writes into a block
    AsEntry,        \* what that is when it is read as an entry of a directory
    Counts,         \* the blocks of one write
    MaxPosition, MaxCuts,       \* bounds
    WriteDirs,      \* whether programs truncate and write directories
    RemoveOpen,     \* whether open files are removed
    CutRemove       \* whether the power may fail during a remove

ASSUME TxfsAssumption ==
    /\ {MaxInodes, TotalBlocks, DirectBlocks, PtrsPerBlock, DirentsPerBlock, MaxFds}
           \subseteq Nat \ {0}
    /\ BitmapBits \in Nat /\ TotalBlocks <= BitmapBits /\ MaxInodes <= BitmapBits
    /\ AsEntry \in [Values -> [inode : 0 .. MaxInodes - 1, name : STRING]]
    /\ FilePaths \union DirPaths \subseteq Seq(STRING) \ {<<>>}
    /\ Counts \subseteq Nat \ {0} /\ MaxPosition \in Nat /\ MaxCuts \in Nat
    /\ {WriteDirs, RemoveOpen, CutRemove} \subseteq BOOLEAN

VARIABLES
    disk,           \* what is on the disk
    pending,        \* the images the current call has yet to bring about
    op,             \* that call, and the inode it is about
    open_files,     \* the handles: [used, inode_num, inode, position]
    cuts            \* power failures so far

vars == <<disk, pending, op, open_files, cuts>>

Inodes == 0 .. MaxInodes - 1
Blocks == 1 .. TotalBlocks
Fds    == 0 .. MaxFds - 1
None   == 0
Least(S) == CHOOSE x \in S : \A y \in S : x <= y

(* An inode's direct pointers, then indirect, dindirect and tindirect.     *)
Fields == 0 .. DirectBlocks + 2
NoInode  == [type |-> "none", size |-> 0, ptr |-> [s \in Fields |-> None]]
NewInode(type) == [NoInode EXCEPT !.type = type]
NoEntry  == [inode |-> None, name |-> ""]
Zero ==
    [ptr |-> [k \in 0 .. PtrsPerBlock - 1 |-> None],
     ent |-> [k \in 0 .. DirentsPerBlock - 1 |-> NoEntry], val |-> 0]
Closed == [used |-> FALSE, inode_num |-> 0, inode |-> NoInode, position |-> 0]
NoOp   == [name |-> "none", inode |-> None]

(* A freshly formatted disk (txfs_format), mounted.                        *)
Init ==
    /\ disk = [free_blocks |-> TotalBlocks, free_inodes |-> MaxInodes - 1,
               ibitmap |-> {0}, bbitmap |-> {},
               inode |-> [i \in Inodes |-> IF i = 0 THEN NewInode("dir") ELSE NoInode],
               block |-> [b \in Blocks |-> Zero]]
    /\ pending = <<>> /\ op = NoOp /\ cuts = 0
    /\ open_files = [fd \in Fds |-> Closed]

-----------------------------------------------------------------------------
(* A call's progress: the disk as the call sees it, and the images so far. *)
Start == [d |-> disk, log |-> <<>>]
Put(c, d) == [d |-> d, log |-> Append(c.log, d)]
SetInode(c, i, inode) == Put(c, [c.d EXCEPT !.inode[i] = inode])
SetBlock(c, b, content) == Put(c, [c.d EXCEPT !.block[b] = content])

(* txfs_alloc_block: the bitmap, the superblock, and zeros in the block.   *)
(* The operators that may fail return what they got in b, or None.         *)
AllocUnmarked(c) ==            \* seeded fault: the bitmap is not written back
    LET free == Blocks \ c.d.bbitmap IN
    IF free = {} THEN [c |-> c, b |-> None]
    ELSE LET b  == Least(free)
             c2 == Put(c, [c.d EXCEPT !.free_blocks = @ - 1])
         IN  [c |-> SetBlock(c2, b, Zero), b |-> b]
txfs_alloc_block(c) ==
    LET free == Blocks \ c.d.bbitmap IN
    IF free = {} THEN [c |-> c, b |-> None]
    ELSE LET b  == Least(free)
             c1 == Put(c, [c.d EXCEPT !.bbitmap = @ \union {b}])
             c2 == Put(c1, [c1.d EXCEPT !.free_blocks = @ - 1])
         IN  [c |-> SetBlock(c2, b, Zero), b |-> b]

FreeNeighbour(c, b) ==         \* seeded fault: the wrong bit
    LET c1 == Put(c, [c.d EXCEPT !.bbitmap = @ \ {b + 1}])
    IN  Put(c1, [c1.d EXCEPT !.free_blocks = @ + 1])
txfs_free_block(c, b) ==
    LET c1 == Put(c, [c.d EXCEPT !.bbitmap = @ \ {b}])
    IN  Put(c1, [c1.d EXCEPT !.free_blocks = @ + 1])

txfs_alloc_inode(c) ==
    LET free == Inodes \ c.d.ibitmap IN
    IF free = {} THEN [c |-> c, b |-> None]
    ELSE LET i  == Least(free)
             c1 == Put(c, [c.d EXCEPT !.ibitmap = @ \union {i}])
         IN  [c |-> Put(c1, [c1.d EXCEPT !.free_inodes = @ - 1]), b |-> i]

txfs_free_inode(c, i) ==
    LET c1 == Put(c, [c.d EXCEPT !.ibitmap = @ \ {i}])
    IN  Put(c1, [c1.d EXCEPT !.free_inodes = @ + 1])

(* Which pointers lead to the idx-th block: a field of the inode, then a   *)
(* place in each of up to three pointer blocks.                            *)
Route(idx) ==
    LET P  == PtrsPerBlock
        i1 == idx - DirectBlocks
        i2 == i1 - P
        i3 == i2 - P * P
    IN  CASE i1 < 0 -> <<idx>>
          [] i1 >= 0 /\ i2 < 0 -> <<DirectBlocks, i1>>
          [] i2 >= 0 /\ i3 < 0 -> <<DirectBlocks + 1, i2 \div P, i2 % P>>
          [] i3 >= 0 /\ i3 < P * P * P ->
                <<DirectBlocks + 2, i3 \div (P * P), (i3 \div P) % P, i3 % P>>
          [] OTHER -> <<>>

(* txfs_get_block for a write: blocks that are missing on the way are      *)
(* allocated; a pointer block is written at once, the inode only changes   *)
(* in memory.                                                              *)
Follow(g, slot) ==
    LET at   == g.b
        next == IF g.first THEN g.inode.ptr[slot] ELSE g.c.d.block[at].ptr[slot]
        got  == txfs_alloc_block(g.c)
    IN  CASE g.failed -> g
          [] ~g.failed /\ next # None -> [g EXCEPT !.b = next, !.first = FALSE]
          [] ~g.failed /\ next = None /\ got.b = None ->
                [g EXCEPT !.b = None, !.failed = TRUE]
          [] OTHER ->
                IF g.first
                THEN [g EXCEPT !.c = got.c, !.b = got.b, !.first = FALSE,
                               !.inode.ptr[slot] = got.b]
                ELSE [g EXCEPT !.b = got.b,
                        !.c = SetBlock(got.c, at,
                                [got.c.d.block[at] EXCEPT !.ptr[slot] = got.b])]

txfs_get_block(c, inode, idx) ==
    LET route == Route(idx)
        g[n \in 0 .. Len(route)] ==
            IF n = 0
            THEN [c |-> c, inode |-> inode, b |-> None, first |-> TRUE, failed |-> FALSE]
            ELSE Follow(g[n - 1], route[n])
    IN  g[Len(route)]

(* txfs_get_block for a read: the block that a route leads to.             *)
At(d, inode, route) ==
    LET at[n \in 1 .. Len(route)] ==
            IF n = 1 THEN inode.ptr[route[1]]
            ELSE IF at[n - 1] = None THEN None ELSE d.block[at[n - 1]].ptr[route[n]]
    IN  IF route = <<>> THEN None ELSE at[Len(route)]
BlockOf(d, inode, idx) == At(d, inode, Route(idx))

-----------------------------------------------------------------------------
(* Directories.  Removed entries stay, with inode 0; none is used again.   *)
Entry(d, dir, k) ==
    LET b == BlockOf(d, dir, k \div DirentsPerBlock)
    IN  IF b = None THEN NoEntry ELSE d.block[b].ent[k % DirentsPerBlock]

Matches(d, dir, name) ==
    {k \in 0 .. dir.size - 1 : Entry(d, dir, k).inode # None /\ Entry(d, dir, k).name = name}

NotFound == -1
txfs_dir_lookup(d, dir, name) ==
    IF Matches(d, dir, name) = {} THEN NotFound
    ELSE Entry(d, dir, Least(Matches(d, dir, name))).inode

(* The inodes that the names of a path lead to, from the root on.          *)
Walk(d, path) ==
    LET at[n \in 0 .. Len(path)] ==
            LET i == at[n - 1]
            IN  CASE n = 0 -> 0
                  [] n > 0 /\ (i = NotFound \/ d.inode[i].type # "dir") -> NotFound
                  [] OTHER -> txfs_dir_lookup(d, d.inode[i], path[n])
    IN  at
txfs_lookup(d, path) == Walk(d, path)[Len(path)]

(* The directory a new or old name belongs to: the root if it is missing.  *)
Parent(d, path) ==
    LET p == Walk(d, path)[Len(path) - 1] IN IF p = NotFound THEN 0 ELSE p

txfs_dir_append(c, i, child, name) ==
    LET dir == c.d.inode[i]
        k   == dir.size % DirentsPerBlock
        g   == txfs_get_block(c, dir, dir.size \div DirentsPerBlock)
        c1  == SetBlock(g.c, g.b,
                   [g.c.d.block[g.b] EXCEPT !.ent[k] = [inode |-> child, name |-> name]])
    IN  IF g.b = None THEN g.c
        ELSE SetInode(c1, i, [g.inode EXCEPT !.size = @ + 1])

KeepEntry(c, i, name) == c     \* seeded fault: the name stays
txfs_dir_remove_entry(c, i, name) ==
    LET dir == c.d.inode[i]
        k   == Least(Matches(c.d, dir, name))
        b   == BlockOf(c.d, dir, k \div DirentsPerBlock)
    IN  IF Matches(c.d, dir, name) = {} THEN c
        ELSE SetBlock(c, b, [c.d.block[b] EXCEPT !.ent[k % DirentsPerBlock].inode = None])

-----------------------------------------------------------------------------
(* The driver's functions.  A call begins when nothing is pending and      *)
(* brings about the images of c.                                           *)
Idle == pending = <<>>
Doing(name, i, c) ==
    /\ Idle
    /\ pending' = c.log
    /\ op' = IF c.log = <<>> THEN NoOp ELSE [name |-> name, inode |-> i]
    /\ UNCHANGED <<disk, cuts>>

IsOpen(i) == \E fd \in Fds : open_files[fd].used /\ open_files[fd].inode_num = i

(* A handle for inode i of disk d, if one is free.                         *)
Opened(d, i, append) ==
    LET free == {fd \in Fds : ~open_files[fd].used}
    IN  IF free = {} THEN open_files
        ELSE [open_files EXCEPT ![Least(free)] =
                [used |-> TRUE, inode_num |-> i, inode |-> d.inode[i],
                 position |-> IF append THEN d.inode[i].size ELSE 0]]

(* What is opened may be a directory as well: txfs_open does not look.     *)
OpenExisting(path, flag) ==
    LET i == txfs_lookup(disk, path)
        c == IF flag = "trunc" THEN SetInode(Start, i, [disk.inode[i] EXCEPT !.size = 0]) ELSE Start
    IN  /\ i # NotFound
        /\ WriteDirs \/ flag # "trunc" \/ disk.inode[i].type = "file"
        /\ Doing("open", i, c)
        /\ open_files' = Opened(c.d, i, flag = "append")

(* The inode is written before the name, and the result of the append is   *)
(* not looked at.                                                          *)
NewFile(c, path, type) ==
    LET got == txfs_alloc_inode(c)
        c1  == SetInode(got.c, got.b, NewInode(type))
    IN  [c |-> txfs_dir_append(c1, Parent(c1.d, path), got.b, Last(path)), b |-> got.b]

OpenNew(path) ==
    /\ txfs_lookup(disk, path) = NotFound
    /\ disk.ibitmap # Inodes
    /\ LET new == NewFile(Start, path, "file")
       IN  /\ Doing("create", new.b, new.c)
           /\ open_files' = Opened(new.c.d, new.b, FALSE)

txfs_mkdir(path) ==
    /\ txfs_lookup(disk, path) = NotFound
    /\ disk.ibitmap # Inodes
    /\ LET new == NewFile(Start, path, "dir") IN Doing("mkdir", new.b, new.c)
    /\ UNCHANGED open_files

txfs_close(fd) ==
    /\ Idle /\ open_files[fd].used
    /\ open_files' = [open_files EXCEPT ![fd] = Closed]
    /\ UNCHANGED <<disk, pending, op, cuts>>

(* Positions count blocks of a file, and entries of a directory.           *)
PerBlock(inode) == IF inode.type = "dir" THEN DirentsPerBlock ELSE 1
BlockAt(inode, position) == position \div PerBlock(inode)

(* Only the handle's position changes.                                     *)
txfs_read(fd, n) ==
    LET f    == open_files[fd]
        left == f.inode.size - f.position
        want == IF n < left THEN n ELSE left
        hole == {k \in 0 .. want - 1 :
                    BlockOf(disk, f.inode, BlockAt(f.inode, f.position + k)) = None}
    IN  /\ Idle /\ f.used /\ left > 0
        /\ open_files' = [open_files EXCEPT ![fd].position =
               @ + (IF hole = {} THEN want ELSE Least(hole))]
        /\ UNCHANGED <<disk, pending, op, cuts>>

(* The handle's copy of the inode, as of when it was opened, is what       *)
(* blocks are found in, and what is written back.                          *)
Overwritten(block, w, v) ==
    IF w.inode.type = "dir"
    THEN [block EXCEPT !.ent[w.position % DirentsPerBlock] = AsEntry[v]]
    ELSE [Zero EXCEPT !.val = v]

WriteBlock(w, v) ==
    LET g == txfs_get_block(w.c, w.inode, BlockAt(w.inode, w.position))
    IN  IF w.full THEN w
        ELSE IF g.b = None
        THEN [w EXCEPT !.c = g.c, !.inode = g.inode, !.full = TRUE]
        ELSE [w EXCEPT !.c = SetBlock(g.c, g.b, Overwritten(g.c.d.block[g.b], w, v)),
                       !.inode = g.inode, !.position = @ + 1]

txfs_write(fd, n, v) ==
    LET f == open_files[fd]
        after[k \in 0 .. n] ==
            IF k = 0 THEN [c |-> Start, inode |-> f.inode, position |-> f.position,
                           full |-> FALSE]
            ELSE WriteBlock(after[k - 1], v)
        w == after[n]
        inode == [w.inode EXCEPT !.size = IF w.position > @ THEN w.position ELSE @]
        dirty == w.position > f.position
    IN  /\ f.used /\ f.position + n <= MaxPosition
        /\ WriteDirs \/ f.inode.type = "file"
        /\ Doing("write", f.inode_num,
                 IF dirty THEN SetInode(w.c, f.inode_num, inode) ELSE w.c)
        /\ open_files' = [open_files EXCEPT
               ![fd].inode = IF dirty THEN inode ELSE w.inode,
               ![fd].position = w.position]

(* Direct and single indirect blocks are freed, then the inode, then the   *)
(* name goes.  Whether a directory is empty is not looked at.              *)
FreeEach(c, blocks) ==
    LET after[k \in 0 .. Len(blocks)] ==
            IF k = 0 THEN c
            ELSE IF blocks[k] = None THEN after[k - 1]
            ELSE txfs_free_block(after[k - 1], blocks[k])
    IN  after[Len(blocks)]

txfs_remove(path) ==
    LET i     == txfs_lookup(disk, path)
        inode == disk.inode[i]
        ind   == inode.ptr[DirectBlocks]
        c1 == FreeEach(Start, [s \in 1 .. DirectBlocks |-> inode.ptr[s - 1]])
        c2 == IF ind = None THEN c1
              ELSE FreeEach(c1, [k \in 1 .. PtrsPerBlock + 1 |->
                       IF k = PtrsPerBlock + 1 THEN ind ELSE disk.block[ind].ptr[k - 1]])
        c3 == txfs_free_inode(c2, i)
    IN  /\ i # NotFound
        /\ RemoveOpen \/ ~IsOpen(i)
        /\ Doing("remove", i, txfs_dir_remove_entry(c3, Parent(c3.d, path), Last(path)))
        /\ UNCHANGED open_files

-----------------------------------------------------------------------------
(* The disk takes the next image.                                          *)
DiskWrite ==
    /\ pending # <<>>
    /\ disk' = Head(pending)
    /\ pending' = Tail(pending)
    /\ op' = IF pending' = <<>> THEN NoOp ELSE op
    /\ UNCHANGED <<open_files, cuts>>

(* The power fails; the machine starts again and mounts what is there.     *)
PowerCut ==
    /\ cuts < MaxCuts
    /\ CutRemove \/ op.name # "remove" \/ Idle
    /\ cuts' = cuts + 1
    /\ pending' = <<>> /\ op' = NoOp
    /\ open_files' = [fd \in Fds |-> Closed]
    /\ UNCHANGED disk

Next ==
    \/ \E path \in FilePaths : OpenNew(path)
    \/ \E path \in FilePaths \union DirPaths, flag \in {"plain", "trunc", "append"} :
          OpenExisting(path, flag)
    \/ \E path \in DirPaths : txfs_mkdir(path)
    \/ \E path \in FilePaths \union DirPaths : txfs_remove(path)
    \/ \E fd \in Fds : txfs_close(fd)
    \/ \E fd \in Fds, n \in Counts : txfs_read(fd, n)
    \/ \E fd \in Fds, n \in Counts, v \in Values : txfs_write(fd, n, v)
    \/ DiskWrite \/ PowerCut

Spec == Init /\ [][Next]_vars

-----------------------------------------------------------------------------
(* What a disk holds: the inodes that have a name, two levels deep,        *)
(* and the places in them where a pointer to a block may be, by the route  *)
(* that leads there.                                                       *)
Dirs(d, S) == {i \in S : d.inode[i].type = "dir"}
Named(d, S) ==
    S \union UNION {{Entry(d, d.inode[i], k).inode : k \in 0 .. d.inode[i].size - 1} :
                       i \in Dirs(d, S)}
Reachable(d) == Named(d, Named(d, {0}))

Depth(s) == IF s < DirectBlocks THEN 0 ELSE s - DirectBlocks + 1
Routes ==
    UNION {UNION {{<<s>> \o r : r \in [1 .. n -> 0 .. PtrsPerBlock - 1]} : n \in 0 .. Depth(s)} :
              s \in Fields}
References(d) ==
    {r \in Reachable(d) \X Routes : At(d, d.inode[r[1]], r[2]) # None}
Target(d, r) == At(d, d.inode[r[1]], r[2])

FileContents(d, i) ==
    [k \in 0 .. d.inode[i].size - 1 |->
        LET b == BlockOf(d, d.inode[i], k) IN IF b = None THEN None ELSE d.block[b].val]

(* A remove clears the bitmaps before the name goes, so only at its end is *)
(* the disk in order again.                                                *)
Quiet == Idle \/ op.name # "remove"

(* At every moment outside a remove, and so at every power cut there,      *)
(* whatever can be reached from the root is marked: no name leads to an    *)
(* inode that may be handed out again, no pointer to a block that may be.  *)
(* (The order of the writes in txfs_open, txfs_mkdir, txfs_dir_append and  *)
(* txfs_write; the handles' stale inodes; a disk that is full half-way.)   *)
ReachableIsMarked == Quiet =>
    /\ \A i \in Reachable(disk) : i \in disk.ibitmap /\ disk.inode[i].type # "none"
    /\ \A r \in References(disk) : Target(disk, r) \in disk.bbitmap

(* No block is pointed to from two places, of one inode or of two.         *)
BlocksOwnedOnce == Quiet =>
    \A q, r \in References(disk) : Target(disk, q) = Target(disk, r) => q = r

(* A file that a call is not about keeps its name and contents through     *)
(* every disk write of that call, and every file keeps them over a power   *)
(* cut.  A remove may take the name: of a directory it does not look       *)
(* whether it is empty.                                                    *)
UntouchedFilesKeepContents ==
    [][\A i \in Reachable(disk) : disk.inode[i].type = "file" /\ i # op.inode =>
          \/ i \in Reachable(disk') /\ FileContents(disk', i) = FileContents(disk, i)
          \/ i \notin Reachable(disk') /\ op.name = "remove"]_vars
=============================================================================
