-------------------------------- MODULE Vfs ---------------------------------
(***************************************************************************)
(* The descriptors of kernel/vfs.c, which all processes share, over the    *)
(* pipes of kernel/pipe.c and the open files of one file system.  Each     *)
(* operator is a system call as a function from the tables t to            *)
(* [t, fd ...]; a number of -1 is failure.                                 *)
(***************************************************************************)
EXTENDS Integers, FiniteSets

CONSTANTS MaxFds, MaxPipes, MaxHandles      \* VFS_MAX_FDS, MAX_PIPES, TXFS_MAX_FDS

ASSUME VfsAssumption == {MaxFds, MaxPipes, MaxHandles} \subseteq Nat \ {0}

Fds     == 0 .. MaxFds - 1
Pipes   == 0 .. MaxPipes - 1
Handles == 0 .. MaxHandles - 1
Nothing == -1

FreeFd   == [type |-> "free", index |-> Nothing]
FreePipe == [used |-> FALSE, read_open |-> 0, write_open |-> 0, level |-> 0]
EmptyTables ==
    [fds |-> [f \in Fds |-> FreeFd], pipes |-> [p \in Pipes |-> FreePipe], handles |-> {}]

Least(S) == CHOOSE x \in S : \A y \in S : x <= y
FreeFds(t) == {f \in Fds : t.fds[f].type = "free"}

(* A descriptor of a file keeps the handle of the driver.                  *)
vfs_open(t) ==
    LET free == Handles \ t.handles
        f    == Least(FreeFds(t))
    IN  IF FreeFds(t) = {} \/ free = {} THEN [t |-> t, fd |-> Nothing]
        ELSE [t |-> [t EXCEPT !.fds[f] = [type |-> "file", index |-> Least(free)],
                              !.handles = @ \union {Least(free)}], fd |-> f]

(* pipe_close_read and pipe_close_write: the end that goes last frees the  *)
(* pipe.  Readers and writers that are woken look again by themselves.     *)
WriteEndStays(p) ==            \* seeded fault: write_open is not looked at
    [p EXCEPT !.read_open = @ - 1, !.used = p.read_open > 1]
pipe_close_read(p) ==
    [p EXCEPT !.read_open = @ - 1, !.used = p.read_open > 1 \/ p.write_open > 0]
pipe_close_write(p) ==
    [p EXCEPT !.write_open = @ - 1, !.used = p.write_open > 1 \/ p.read_open > 0]

vfs_close(t, f) ==
    LET e == t.fds[f]
        c == [t EXCEPT !.fds[f] = FreeFd]
    IN  CASE e.type = "pipe_r" -> [c EXCEPT !.pipes[e.index] = pipe_close_read(@)]
          [] e.type = "pipe_w" -> [c EXCEPT !.pipes[e.index] = pipe_close_write(@)]
          [] e.type = "file"   -> [c EXCEPT !.handles = @ \ {e.index}]
          [] OTHER -> t

(* vfs_pipe: without two descriptors the pipe is given back.               *)
vfs_pipe(t) ==
    LET free == {p \in Pipes : ~t.pipes[p].used}
        p    == Least(free)
        r    == Least(FreeFds(t))
        w    == Least(FreeFds(t) \ {r})
    IN  IF free = {} \/ Cardinality(FreeFds(t)) < 2
        THEN [t |-> t, r |-> Nothing, w |-> Nothing]
        ELSE [t |-> [t EXCEPT
                       !.pipes[p] = [used |-> TRUE, read_open |-> 1, write_open |-> 1,
                                     level |-> 0],
                       !.fds[r] = [type |-> "pipe_r", index |-> p],
                       !.fds[w] = [type |-> "pipe_w", index |-> p]],
              r |-> r, w |-> w]
=============================================================================
