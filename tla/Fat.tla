-------------------------------- MODULE Fat ---------------------------------
(***************************************************************************)
(* The FAT32 driver (kernel/fat.c), down to single writes of the two       *)
(* tables and of directory clusters.  As in Txfs a call is one step that   *)
(* finds the disk images it goes through, the disk then takes them one by  *)
(* one, and between two of them the power may fail.                        *)
(*                                                                         *)
(* Positions and sizes count clusters, and a cluster is one sector, so     *)
(* that filling it is one write.  What is in files is left out, and so are *)
(* paths that go through a file, which fat_lookup would read as entries,   *)
(* and failing hardware.  A disk is smaller than 1 GB, so that a write to  *)
(* the table's entry of an end mark (0x0FFFFFF8 and up, four bytes each)   *)
(* goes past the end of the disk and has no effect.                        *)
(***************************************************************************)
EXTENDS Integers, FiniteSets, SequencesExt

CONSTANTS
    Clusters,       \* 2 .. total_clusters + 1
    Root,           \* root_cluster
    DirentsPerCluster,
    MaxFds,         \* FAT_MAX_FDS
    Short,          \* the 8.3 name that is made of each name
    FilePaths, DirPaths,        \* the paths programs give to files and to
                    \* directories: sequences of names
    Images,         \* the disks that may be put in
    Counts,         \* how much is read or written at once
    Values,         \* what a program writes into a cluster, as entries
    MaxPosition, MaxCuts,       \* bounds
    WriteDirs,      \* whether programs write directories
    RemoveOpen,     \* whether open files are removed
    RemoveLong,     \* whether files are removed by their long names
    CutAnywhere     \* whether the power may fail during a remove and while a
                    \* directory grows

Eoc     == -1       \* an end mark
NoPlace == <<0, 0>>

VARIABLES
    disk,           \* both tables and the entries of directory clusters
    pending,        \* the images the current call has yet to bring about
    safe,           \* whether a power cut leaves names and chains in order
    fat_fds,        \* the handles
    lost,           \* history: clusters that are taken and have no name
    cuts            \* power failures so far

vars == <<disk, pending, safe, fat_fds, lost, cuts>>

Slots   == 1 .. DirentsPerCluster
Fds     == 0 .. MaxFds - 1
NoEntry == [short |-> "", long |-> "", start |-> 0, size |-> 0, dir |-> FALSE]
Deleted == "deleted"
Blank   == [k \in Slots |-> NoEntry]
Closed  ==
    [used |-> FALSE, start |-> 0, cur |-> 0, position |-> 0, size |-> 0, dir |-> FALSE]
Least(S) == CHOOSE x \in S : \A y \in S : x <= y

(* What a disk is made of.                                                 *)
Names  == STRING \union {"", Deleted, ".", ".."}
Links  == Clusters \union {0, Eoc}
EntryT == [short : Names, long : Names, start : Clusters \union {0}, size : Nat, dir : BOOLEAN]
DiskT  == [fat : [1 .. 2 -> [Clusters -> Links]], ent : [Clusters -> [Slots -> EntryT]]]

ASSUME FatAssumption ==
    /\ Clusters \subseteq Nat \ {0, 1} /\ IsFiniteSet(Clusters) /\ Root \in Clusters
    /\ DirentsPerCluster \in Nat \ {0, 1} /\ MaxFds \in Nat \ {0}
    /\ \A n \in DOMAIN Short : Short[n] \in DOMAIN Short /\ Short[Short[n]] = Short[n]
    /\ DOMAIN Short \subseteq STRING /\ {"", Deleted, ".", ".."} \cap DOMAIN Short = {}
    /\ FilePaths \union DirPaths \subseteq Seq(DOMAIN Short) \ {<<>>}
    /\ Counts \subseteq Nat \ {0} /\ MaxPosition \in Nat /\ MaxCuts \in Nat
    /\ Values \subseteq [Slots -> EntryT]
    /\ {WriteDirs, RemoveOpen, RemoveLong, CutAnywhere} \subseteq BOOLEAN
    /\ Images \subseteq DiskT /\ \A d \in Images : d.fat[1] = d.fat[2]

(* A disk that another system has formatted and filled, mounted.           *)
Init ==
    /\ disk \in Images
    /\ pending = <<>> /\ safe = TRUE /\ lost = {} /\ cuts = 0
    /\ fat_fds = [fd \in Fds |-> Closed]

-----------------------------------------------------------------------------
(* A call's progress: the disk as the call sees it, and the images so far. *)
Start == [d |-> disk, log |-> <<>>]
Put(c, d) == [d |-> d, log |-> Append(c.log, d)]

OneCopy(c, cluster, value) ==           \* seeded fault: the second table stays
    IF cluster \in Clusters THEN Put(c, [c.d EXCEPT !.fat[1][cluster] = value]) ELSE c
fat_set_entry(c, cluster, value) ==
    IF cluster \notin Clusters THEN c
    ELSE LET c1 == Put(c, [c.d EXCEPT !.fat[1][cluster] = value])
         IN  Put(c1, [c1.d EXCEPT !.fat[2][cluster] = value])

NotMarked(c, prev) ==                   \* seeded fault: no end mark
    LET free == {i \in Clusters : c.d.fat[1][i] = 0}
        c1   == IF prev = 0 THEN c ELSE fat_set_entry(c, prev, Least(free))
    IN  IF free = {} THEN [c |-> c, b |-> 0]
        ELSE [c |-> Put(c1, [c1.d EXCEPT !.ent[Least(free)] = Blank]), b |-> Least(free)]

(* The cluster is linked before it is filled with zeros.  0 is failure.    *)
fat_alloc_cluster(c, prev) ==
    LET free == {i \in Clusters : c.d.fat[1][i] = 0}
        i    == Least(free)
        c1   == fat_set_entry(c, i, Eoc)
        c2   == IF prev = 0 THEN c1 ELSE fat_set_entry(c1, prev, i)
    IN  IF free = {} THEN [c |-> c, b |-> 0]
        ELSE [c |-> Put(c2, [c2.d EXCEPT !.ent[i] = Blank]), b |-> i]

(* The clusters from one on, until an end mark or a free one.              *)
Chain(d, first) ==
    LET at[n \in 1 .. Cardinality(Clusters) + 1] ==
            IF n = 1 THEN first
            ELSE IF at[n - 1] \in Clusters THEN d.fat[1][at[n - 1]] ELSE Eoc
    IN  [n \in {m \in DOMAIN at : at[m] \in Clusters} |-> at[n]]

FirstOnly(c, first) == IF first \in Clusters THEN fat_set_entry(c, first, 0) ELSE c
                                        \* seeded fault: the rest stays
fat_free_chain(c, first) ==
    LET chain == Chain(c.d, first)
        after[k \in 0 .. Len(chain)] ==
            IF k = 0 THEN c ELSE fat_set_entry(after[k - 1], chain[k], 0)
    IN  after[Len(chain)]

-----------------------------------------------------------------------------
(* Directories.  The entries of a long name lie before the entry they      *)
(* belong to: they stay when that is deleted, and go with whatever takes   *)
(* its place.  No checksum is looked at.                                   *)
Places(d, dir) ==
    LET chain == Chain(d, dir)
        E     == DirentsPerCluster
    IN  [n \in 1 .. E * Len(chain) |-> <<chain[((n - 1) \div E) + 1], ((n - 1) % E) + 1>>]
At(d, p) == d.ent[p[1]][p[2]]
InUse(e) == e.short \notin {"", Deleted}
IsName(e) == InUse(e) /\ e.short \notin {".", ".."}

FirstPlace(d, dir, entries) ==
    LET places == Places(d, dir)
        fits   == {n \in DOMAIN places : At(d, places[n]) \in entries}
    IN  IF fits = {} THEN NoPlace ELSE places[Least(fits)]
Entries(d, dir) == {At(d, p) : p \in ToSet(Places(d, dir))}

(* lookup_cb: the first entry with that long or short name.                *)
Find(d, dir, name) ==
    FirstPlace(d, dir, {e \in Entries(d, dir) : InUse(e) /\ name \in {e.long, e.short}})

(* The places of the entries that the names of a path lead to, each in the *)
(* directory before it, the root being the first; whether what the path    *)
(* goes through is a directory is not looked at.                           *)
ClusterAt(d, n, p) ==
    CASE n = 0 -> Root
      [] n > 0 /\ p = NoPlace -> 0
      [] OTHER -> At(d, p).start
Walk(d, path) ==
    LET at[n \in 0 .. Len(path)] ==
            IF n = 0 THEN NoPlace
            ELSE Find(d, ClusterAt(d, n - 1, at[n - 1]), path[n])
    IN  at
fat_lookup(d, path) == Walk(d, path)[Len(path)]

(* The directory that the path without its last name leads to.             *)
fat_dir_cluster(d, path) == ClusterAt(d, Len(path) - 1, Walk(d, path)[Len(path) - 1])

(* The loops of fat_open_fn and fat_mkdir_fn that look for a free entry in *)
(* the parent and let it grow; in a parent that was not found there is     *)
(* none.                                                                   *)
FreeEntry(d, dir) == FirstPlace(d, dir, {e \in Entries(d, dir) : ~InUse(e)})
Entered(c, dir, e) ==
    LET p   == FreeEntry(c.d, dir)
        got == fat_alloc_cluster(c, Last(Chain(c.d, dir)))
        Write(x, q) ==
            Put(x, [x.d EXCEPT !.ent[q[1]][q[2]] = [e EXCEPT !.long = At(x.d, q).long]])
    IN  CASE p # NoPlace -> [c |-> Write(c, p), ok |-> TRUE]
          [] p = NoPlace /\ dir = 0 -> [c |-> c, ok |-> FALSE]
          [] OTHER -> IF got.b = 0 THEN [c |-> got.c, ok |-> FALSE]
                      ELSE [c |-> Write(got.c, <<got.b, 1>>), ok |-> TRUE]
Grows(d, dir) == dir # 0 /\ FreeEntry(d, dir) = NoPlace

-----------------------------------------------------------------------------
(* The driver's functions.  A call begins when nothing is pending; it is   *)
(* ordered if after each of its writes names lead to what is theirs;       *)
(* `gone' are the clusters it takes, or leaves taken, without a name.      *)
Idle == pending = <<>>
Doing(ordered, c, gone) ==
    /\ Idle
    /\ pending' = c.log
    /\ safe' = (ordered \/ c.log = <<>>)
    /\ lost' = lost \union gone
    /\ UNCHANGED <<disk, cuts>>

Taken(b) == IF b = 0 THEN {} ELSE {b}
IsOpen(first) == \E fd \in Fds : fat_fds[fd].used /\ fat_fds[fd].start = first

(* A handle for entry e, if one is free.                                   *)
Opened(e) ==
    LET free == {fd \in Fds : ~fat_fds[fd].used}
    IN  IF free = {} THEN fat_fds
        ELSE [fat_fds EXCEPT ![Least(free)] =
                 [used |-> TRUE, start |-> e.start, cur |-> e.start,
                  position |-> 0, size |-> e.size, dir |-> e.dir]]

(* fat_open_fn.  No flag but VFS_O_CREATE is looked at, nor whether it is  *)
(* a directory that is opened.                                             *)
OpenExisting(path) ==
    LET p == fat_lookup(disk, path)
    IN  /\ Idle /\ p # NoPlace
        /\ fat_fds' = Opened(At(disk, p))
        /\ UNCHANGED <<disk, pending, safe, lost, cuts>>

OpenNew(path) ==
    LET dir == fat_dir_cluster(disk, path)
        got == fat_alloc_cluster(Start, 0)
        e   == [NoEntry EXCEPT !.short = Short[Last(path)], !.start = got.b]
        new == Entered(got.c, dir, e)
    IN  /\ fat_lookup(disk, path) = NoPlace
        /\ got.b # 0
        /\ Doing(~Grows(disk, dir), new.c, IF new.ok THEN {} ELSE {got.b})
        /\ fat_fds' = IF new.ok THEN Opened(e) ELSE fat_fds

(* fat_mkdir_fn does not look whether the name is there already.           *)
fat_mkdir(path) ==
    LET dir == fat_dir_cluster(disk, path)
        got == fat_alloc_cluster(Start, 0)
        Dot(name, first) == [NoEntry EXCEPT !.short = name, !.start = first, !.dir = TRUE]
        c1  == Put(got.c, [got.c.d EXCEPT
                   !.ent[got.b] = [Blank EXCEPT ![1] = Dot(".", got.b), ![2] = Dot("..", dir)]])
        new == Entered(c1, dir, Dot(Short[Last(path)], got.b))
    IN  /\ got.b # 0
        /\ Doing(~Grows(disk, dir), new.c, IF new.ok THEN {} ELSE {got.b})
        /\ UNCHANGED fat_fds

fat_close(fd) ==
    /\ Idle /\ fat_fds[fd].used
    /\ fat_fds' = [fat_fds EXCEPT ![fd] = Closed]
    /\ UNCHANGED <<disk, pending, safe, lost, cuts>>

(* One cluster of a read.                                                  *)
ReadCluster(f) ==
    IF f.position >= f.size \/ f.cur \notin Clusters THEN f
    ELSE [f EXCEPT !.position = @ + 1, !.cur = disk.fat[1][@]]

fat_read(fd, n) ==
    /\ Idle /\ fat_fds[fd].used
    /\ LET after[k \in 0 .. n] ==
               IF k = 0 THEN fat_fds[fd] ELSE ReadCluster(after[k - 1])
       IN  fat_fds' = [fat_fds EXCEPT ![fd] = after[n]]
    /\ UNCHANGED <<disk, pending, safe, lost, cuts>>

(* One cluster of a write.  Past the end of the chain, where cur is the    *)
(* end mark, the new cluster is linked to the entry of that mark, which is *)
(* none; in an empty file to nothing.  The entry of the file stays as it   *)
(* was, its size and its first cluster included; the entries of a          *)
(* directory are overwritten.                                              *)
WriteCluster(w, v) ==
    LET f   == w.f
        got == fat_alloc_cluster(w.c, IF f.start = 0 THEN 0 ELSE f.cur)
        Fill(c, cluster) == IF f.dir THEN Put(c, [c.d EXCEPT !.ent[cluster] = v]) ELSE c
        On(x, c, cluster) ==
            [x EXCEPT !.position = @ + 1, !.cur = c.d.fat[1][cluster],
                      !.size = IF f.position + 1 > @ THEN f.position + 1 ELSE @]
    IN  CASE w.full -> w
          [] ~w.full /\ f.cur \in Clusters ->
                [w EXCEPT !.c = Fill(w.c, f.cur), !.f = On(f, w.c, f.cur)]
          [] OTHER ->
                IF got.b = 0 THEN [w EXCEPT !.full = TRUE]
                ELSE [c |-> Fill(got.c, got.b), full |-> FALSE,
                      gone |-> w.gone \union {got.b},
                      f |-> On([f EXCEPT !.start = IF @ = 0 THEN got.b ELSE @],
                               got.c, got.b)]

fat_write(fd, n, v) ==
    LET after[k \in 0 .. n] ==
            IF k = 0 THEN [c |-> Start, f |-> fat_fds[fd], full |-> FALSE, gone |-> {}]
            ELSE WriteCluster(after[k - 1], v)
        w == after[n]
    IN  /\ fat_fds[fd].used /\ fat_fds[fd].position + n <= MaxPosition
        /\ WriteDirs \/ ~fat_fds[fd].dir
        /\ Doing(TRUE, w.c, w.gone)
        /\ fat_fds' = [fat_fds EXCEPT ![fd] = w.f]

(* What lies below a directory.                                            *)
EntriesOf(d, dir) ==
    {p \in ToSet(Places(d, dir)) : IsName(At(d, p))}
ClustersOf(d, p) == ToSet(Chain(d, At(d, p).start))

(* fat_remove_fn finds the entry by either name, frees the chain, and then *)
(* looks for the entry to delete by its short name only.                   *)
fat_remove(path) ==
    LET p   == fat_lookup(disk, path)
        e   == At(disk, p)
        c1  == fat_free_chain(Start, e.start)
        dir == fat_dir_cluster(c1.d, path)
        q   == FirstPlace(c1.d, dir, {x \in Entries(c1.d, dir) : x.short = Last(path)})
    IN  /\ p # NoPlace
        /\ RemoveOpen \/ ~IsOpen(e.start)
        /\ RemoveLong \/ e.short = Last(path)
        /\ Doing(FALSE,
                 IF q = NoPlace THEN c1
                 ELSE Put(c1, [c1.d EXCEPT !.ent[q[1]][q[2]].short = Deleted]),
                 IF e.dir THEN UNION {ClustersOf(disk, x) : x \in EntriesOf(disk, e.start)}
                 ELSE {})
        /\ UNCHANGED fat_fds

-----------------------------------------------------------------------------
(* The disk takes the next image.                                          *)
DiskWrite ==
    /\ pending # <<>>
    /\ disk' = Head(pending)
    /\ pending' = Tail(pending)
    /\ safe' = (safe \/ pending' = <<>>)
    /\ UNCHANGED <<fat_fds, lost, cuts>>

(* The power fails; the machine starts again and mounts what is there.     *)
PowerCut ==
    /\ cuts < MaxCuts
    /\ CutAnywhere \/ safe
    /\ cuts' = cuts + 1
    /\ pending' = <<>> /\ safe' = TRUE
    /\ fat_fds' = [fd \in Fds |-> Closed]
    /\ UNCHANGED <<disk, lost>>

(* The paths that programs use: what they go through, as far as it is      *)
(* there, are directories.                                                 *)
ThroughDirs(paths) ==
    {path \in paths :
        \A n \in 1 .. Len(path) - 1 :
           LET p == Walk(disk, path)[n] IN p # NoPlace => At(disk, p).dir}

Next ==
    \/ \E path \in ThroughDirs(FilePaths \union DirPaths) :
          OpenExisting(path) \/ fat_remove(path)
    \/ \E path \in ThroughDirs(FilePaths) : OpenNew(path)
    \/ \E path \in ThroughDirs(DirPaths) : fat_mkdir(path)
    \/ \E fd \in Fds : fat_close(fd)
    \/ \E fd \in Fds, n \in Counts : fat_read(fd, n)
    \/ \E fd \in Fds, n \in Counts, v \in Values : fat_write(fd, n, v)
    \/ DiskWrite \/ PowerCut

Spec == Init /\ [][Next]_vars

-----------------------------------------------------------------------------
(* The places of all names, two levels deep; the clusters of each, and     *)
(* those of the root.                                                      *)
Named(d) ==
    LET top == EntriesOf(d, Root)
    IN  top \union UNION {EntriesOf(d, At(d, p).start) : p \in {x \in top : At(d, x).dir}}
Owners(d) == Named(d) \union {NoPlace}
Owned(d, p) == IF p = NoPlace THEN Chain(d, Root) ELSE Chain(d, At(d, p).start)

(* A layout m says of clusters that are taken, all that names lead to      *)
(* among them, in which chain each is and where, at which place the entry  *)
(* for that chain is, and how deep that lies below the root.               *)
RootMark == [first |-> Root, nth |-> 1, entry |-> NoPlace, depth |-> 0]
MarkT == [first : Clusters, nth : Nat, entry : (Clusters \X Slots) \union {NoPlace}, depth : Nat]
NextMark(x) == [first |-> x.first, nth |-> x.nth + 1, entry |-> x.entry, depth |-> x.depth]
LaidOut(d, m) ==
    /\ m \in [DOMAIN m -> MarkT] /\ DOMAIN m \subseteq Clusters
    /\ Root \in DOMAIN m /\ m[Root] = RootMark
    /\ \A c \in DOMAIN m :
          /\ d.fat[1][c] # 0
          /\ d.fat[1][c] # Eoc => /\ d.fat[1][c] \in DOMAIN m
                                 /\ m[d.fat[1][c]] = NextMark(m[c])
    /\ \A p \in (DOMAIN m) \X Slots :
          LET e == At(d, p)
          IN  /\ IsName(e) /\ e.start # 0 =>
                    /\ e.start \in DOMAIN m
                    /\ m[e.start] = [first |-> e.start, nth |-> 1, entry |-> p,
                                     depth |-> m[p[1]].depth + 1]
              /\ e.short \in {".", ".."} => e.long = ""

(* At every moment outside a remove and the growth of a directory, and so  *)
(* at every power cut there, each name leads to a chain of clusters that   *)
(* are taken and end in an end mark, and no cluster is in two chains or    *)
(* twice in one.  (The order of the writes in fat_open_fn and in           *)
(* fat_mkdir_fn, with a disk that is full half-way; fat_free_chain.)       *)
ChainsApart == safe =>
    \A p \in Owners(disk) :
       /\ \A i, j \in DOMAIN Owned(disk, p) : Owned(disk, p)[i] = Owned(disk, p)[j] => i = j
       /\ Owned(disk, p) # <<>> => disk.fat[1][Last(Owned(disk, p))] = Eoc
       /\ \A q \in Owners(disk) \ {p} :
              ToSet(Owned(disk, p)) \cap ToSet(Owned(disk, q)) = {}

(* The cluster a handle is at is taken, and nobody's who has a name other  *)
(* than that of the file or directory it was opened for: what is read or   *)
(* written through a handle is never in another file or directory,         *)
(* whatever was created and removed since.                                 *)
HandlesStayInFile ==
    \A fd \in Fds : fat_fds[fd].cur \in Clusters /\ Idle =>
        /\ disk.fat[1][fat_fds[fd].cur] # 0
        /\ \A p \in Owners(disk) : fat_fds[fd].cur \in ToSet(Owned(disk, p)) =>
              p # NoPlace /\ At(disk, p).start = fat_fds[fd].start

(* The copies of the table differ in the entry that is being written, and  *)
(* in one for each power cut; no call makes them differ more.              *)
CopiesAgree ==
    Cardinality({c \in Clusters : disk.fat[1][c] # disk.fat[2][c]})
        <= cuts + (IF Idle THEN 0 ELSE 1)

(* While no power has failed every cluster that is taken has a name, or    *)
(* was lost where the code is known to lose some: by a write past the end  *)
(* of a file, a create that finds no place for its entry, and the remove   *)
(* of a directory that is not empty.                                       *)
LostIsKnown ==
    Idle /\ cuts = 0 =>
        {c \in Clusters : disk.fat[1][c] # 0}
            = lost \union UNION {ToSet(Owned(disk, p)) : p \in Owners(disk)}
=============================================================================
