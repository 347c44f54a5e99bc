------------------------------- MODULE MCFat --------------------------------
(* The disks of the instance: a root of one cluster with room for one more *)
(* entry, a file with a long name, of two clusters or empty, and a file    *)
(* that is left alone.                                                     *)
EXTENDS Fat

AllClusters == 2 .. 6

Files       == {<<"long">>, <<"lo~1">>, <<"d", "b">>}
Directories == {<<"d">>}
EightThree  == [n \in {"long", "lo~1", "l", "b", "d"} |-> IF n = "long" THEN "l" ELSE n]

HostFile(short, long, start, size) ==
    [short |-> short, long |-> long, start |-> start, size |-> size, dir |-> FALSE]
HostDisk(start, size, table) ==
    [fat |-> <<table, table>>,
     ent |-> [c \in AllClusters |->
        IF c = 2 THEN [Blank EXCEPT ![1] = HostFile("lo~1", "long", start, size),
                                    ![2] = HostFile("x", "", 3, 1)]
        ELSE Blank]]
Table == [c \in AllClusters |-> IF c \in {2, 3} THEN Eoc ELSE 0]
HostDisks == {HostDisk(0, 0, Table), HostDisk(4, 2, [Table EXCEPT ![4] = 5, ![5] = Eoc])}

(* What is written matters in a directory only, where it gives a name to   *)
(* the second cluster of the long file.                                    *)
Written == {[Blank EXCEPT ![1] = HostFile("b", "", 5, 1)]}

(* The other system has laid them out well.                                *)
Layout(d) ==
    [c \in {i \in AllClusters : d.fat[1][i] # 0} |->
        IF c = 2 THEN RootMark
        ELSE [first |-> IF c = 5 THEN 4 ELSE c, nth |-> IF c = 5 THEN 2 ELSE 1,
              entry |-> <<2, IF c = 3 THEN 2 ELSE 1>>, depth |-> 1]]

ASSUME HostLayout == \A d \in HostDisks : LaidOut(d, Layout(d))

(* The entries in free clusters and in those of files, and what a deleted  *)
(* entry says, are not read before they are written; handles are told      *)
(* apart by what they hold; what was lost follows, until the power fails,  *)
(* from the disk.                                                          *)
Known(d) ==
    LET dirs == UNION {ToSet(Owned(d, p)) : p \in {q \in Owners(d) : q = NoPlace \/ At(d, q).dir}}
    IN  [fat |-> d.fat,
         ent |-> [c \in AllClusters |->
            [k \in Slots |->
                IF c \notin dirs THEN NoEntry
                ELSE IF InUse(d.ent[c][k]) THEN d.ent[c][k]
                ELSE [NoEntry EXCEPT !.short = d.ent[c][k].short, !.long = d.ent[c][k].long]]]]
FatView ==
    <<Known(disk), [k \in DOMAIN pending |-> Known(pending[k])], safe, cuts,
      IF cuts = 0 THEN lost ELSE {},
      {fat_fds[fd] : fd \in Fds}, fat_fds[0] = fat_fds[1]>>
=============================================================================
