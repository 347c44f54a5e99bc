------------------------------- MODULE MCTxfs -------------------------------
(* The paths of the instances of Txfs.                                     *)
EXTENDS Txfs

Files       == {<<"a">>, <<"d", "a">>}
Directories == {<<"d">>}
Entries     == [v \in Values |-> [inode |-> v, name |-> "a"]]

(* What is in free inodes and blocks, and the names of removed entries,    *)
(* are written before they are read again; once the power has failed the   *)
(* counts are not looked at.  Handles are told apart by what they hold,    *)
(* those of directories, which are not written through, by the inode only. *)
Known(d) ==
    [d EXCEPT
        !.free_blocks = IF cuts = 0 THEN @ ELSE 0,
        !.free_inodes = IF cuts = 0 THEN @ ELSE 0,
        !.inode = [i \in Inodes |-> IF i \in d.ibitmap THEN @[i] ELSE NoInode],
        !.block = [b \in Blocks |->
            IF b \notin d.bbitmap THEN Zero
            ELSE [@[b] EXCEPT !.ent = [k \in DOMAIN @ |->
                    IF @[k].inode = None THEN NoEntry ELSE @[k]]]]]
Seen(f) ==
    IF ~WriteDirs /\ f.inode.type = "dir"
    THEN [f EXCEPT !.inode = NewInode("dir"), !.position = 0] ELSE f
TxfsView ==
    <<Known(disk), [k \in DOMAIN pending |-> Known(pending[k])], op, cuts,
      {Seen(open_files[fd]) : fd \in Fds}, {open_files[fd].used : fd \in Fds}>>
=============================================================================
