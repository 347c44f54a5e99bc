------------------------------ MODULE Pipeline ------------------------------
(***************************************************************************)
(* A command line at work: the shell's run_pipeline (user/shell.c), the    *)
(* programs it starts with SYS_SPAWN_PIPE and their standard input and     *)
(* output, over the descriptors of module Vfs.  Each step is one system    *)
(* call, between any two of which another process may run.                 *)
(*                                                                         *)
(* Bytes are counted, not told apart.  How a process sleeps and is woken   *)
(* in a pipe is the matter of module Pipe; here one that cannot go on      *)
(* stays where it is.                                                      *)
(***************************************************************************)
EXTENDS Vfs, Sequences

CONSTANTS
    PipeRoom,       \* PIPE_BUF_SIZE - 1
    Kids,           \* processes the shell may have
    Lines           \* the command lines: [stages, bg]; a stage says what becomes
                    \* of its two redirections and of the command itself

Redirections == {"none", "opens", "fails"}
Commands == [in : Redirections, out : Redirections, cmd : {"none", "spawns", "fails"}]

ASSUME PipelineAssumption ==
    /\ PipeRoom \in Nat \ {0} /\ Kids \subseteq Nat \ {0} /\ IsFiniteSet(Kids)
    /\ Lines \subseteq [stages : Seq(Commands) \ {<<>>}, bg : BOOLEAN]

VARIABLES
    tables,         \* fds, pipes and the driver's handles
    shell,          \* run_pipeline: where it is, and its local variables
    kids,           \* the programs
    dropped         \* history: the pipes a failed sys_pipe made run_pipeline forget

vars == <<tables, shell, kids, dropped>>

AtPrompt ==
    [pc |-> "prompt", line |-> [stages |-> <<>>, bg |-> FALSE], s |-> 0,
     pipe_r |-> <<>>, pipe_w |-> <<>>, redir_in |-> Nothing, redir_out |-> Nothing,
     redirs |-> <<>>, pids |-> <<>>, todo |-> <<>>, next |-> "prompt"]

(* in and out are stdin_fd and stdout_fd, given what the two descriptors   *)
(* were when they were given, inside the pipe whose loop the program is in;*)
(* left says that a wait for the program came back while it was alive.     *)
NoKid == [live |-> FALSE, in |-> Nothing, out |-> Nothing, given |-> <<FreeFd, FreeFd>>,
          inside |-> Nothing, does |-> "none", left |-> FALSE]

Init ==
    /\ tables = EmptyTables
    /\ shell = AtPrompt
    /\ kids = [k \in Kids |-> NoKid]
    /\ dropped = {}

-----------------------------------------------------------------------------
(* The shell.                                                              *)
At(pc) == shell.pc = pc
Stages == Len(shell.line.stages)
Stage  == shell.line.stages[shell.s]

(* The ones of fds that are descriptors are to be closed, in this order.   *)
Closing(sh, fds, next) == [sh EXCEPT !.pc = "close", !.todo = fds, !.next = next]

(* cleanup: the pipe ends that are still there.                            *)
BothEnds(sh) ==
    [i \in 1 .. 2 * Len(sh.pipe_r) |->
        IF i % 2 = 1 THEN sh.pipe_r[(i + 1) \div 2] ELSE sh.pipe_w[i \div 2]]
StraightBack(sh) == AtPrompt            \* seeded fault: return instead of goto
Cleanup(sh) == Closing(sh, BothEnds(sh), "prompt")

StageDone(sh) ==
    IF sh.s < Stages THEN [sh EXCEPT !.pc = "stage", !.s = @ + 1]
    ELSE IF sh.line.bg THEN Cleanup(sh)
    ELSE [sh EXCEPT !.pc = "wait", !.s = 1]

(* The ends of a stage without a command stay open until the cleanup.      *)
EmptyStage ==
    /\ At("stage") /\ Stage.cmd = "none"
    /\ shell' = StageDone([shell EXCEPT !.pids = Append(@, Nothing)])
    /\ UNCHANGED <<tables, kids, dropped>>

ReadLine(line) ==
    /\ At("prompt")
    /\ shell' = [AtPrompt EXCEPT !.line = line, !.s = 1,
                    !.pc = IF Len(line.stages) > 1 THEN "pipes" ELSE "stage"]
    /\ UNCHANGED <<tables, kids, dropped>>

(* If a pipe cannot be made, run_pipeline returns and leaves the others.   *)
sys_pipe ==
    LET made == vfs_pipe(tables)
        sh   == [shell EXCEPT !.pipe_r = Append(@, made.r), !.pipe_w = Append(@, made.w)]
    IN  /\ At("pipes")
        /\ tables' = made.t
        /\ shell' = IF made.r = Nothing THEN AtPrompt
                    ELSE IF Len(sh.pipe_r) + 1 < Stages THEN sh
                    ELSE [sh EXCEPT !.pc = "stage"]
        /\ dropped' = IF made.r = Nothing
                      THEN dropped \union {tables.fds[shell.pipe_r[i]].index : i \in DOMAIN shell.pipe_r}
                      ELSE dropped
        /\ UNCHANGED kids

(* The redirections of a stage.  One that fails ends the line: the input   *)
(* of this stage is closed, what earlier stages have open is not.          *)
Redirect(how) == IF how = "opens" THEN vfs_open(tables) ELSE [t |-> tables, fd |-> Nothing]
Refused(how, fd) == how # "none" /\ fd = Nothing

OpenInput ==
    LET opened == Redirect(Stage.in)
    IN  /\ At("stage") /\ Stage.cmd # "none"
        /\ tables' = opened.t
        /\ shell' = IF Refused(Stage.in, opened.fd) THEN Cleanup(shell)
                    ELSE [shell EXCEPT !.pc = "open_out", !.redir_in = opened.fd]
        /\ UNCHANGED <<kids, dropped>>

OpenOutput ==
    LET opened == Redirect(Stage.out)
        failed == Refused(Stage.out, opened.fd)
    IN  /\ At("open_out")
        /\ tables' = IF failed /\ shell.redir_in # Nothing
                     THEN vfs_close(tables, shell.redir_in) ELSE opened.t
        /\ shell' = IF failed THEN Cleanup(shell)
                    ELSE [shell EXCEPT !.pc = "spawn", !.redir_out = opened.fd]
        /\ UNCHANGED <<kids, dropped>>

(* SYS_SPAWN_PIPE, then the ends the stage was given are to be closed      *)
(* "immediately (signals EOF to next stage)".                              *)
StdIn ==
    IF shell.redir_in # Nothing THEN shell.redir_in
    ELSE IF shell.s > 1 THEN shell.pipe_r[shell.s - 1] ELSE Nothing
StdOut ==
    IF shell.redir_out # Nothing THEN shell.redir_out
    ELSE IF shell.s < Stages THEN shell.pipe_w[shell.s] ELSE Nothing

Fd(f) == IF f = Nothing THEN FreeFd ELSE tables.fds[f]

EndsGiven == <<IF shell.s > 1 THEN shell.pipe_r[shell.s - 1] ELSE Nothing,
               IF shell.s < Stages THEN shell.pipe_w[shell.s] ELSE Nothing>>
Forgotten(sh) ==
    [sh EXCEPT !.pipe_r = [i \in DOMAIN @ |-> IF i = sh.s - 1 THEN Nothing ELSE @[i]],
               !.pipe_w = [i \in DOMAIN @ |-> IF i = sh.s THEN Nothing ELSE @[i]]]

RedirsAtOnce(sh, spawned, kid) ==      \* seeded fault: redirections are closed too
    Closing([Forgotten(sh) EXCEPT !.pids = Append(@, kid)],
            EndsGiven \o <<shell.redir_in, shell.redir_out>>,
            IF spawned THEN "stage_done" ELSE "cleanup")
Spawned(sh, spawned, kid) ==
    Closing([Forgotten(sh) EXCEPT !.pids = Append(@, kid),
                !.redirs = @ \o <<shell.redir_in, shell.redir_out>>],
            EndsGiven, IF spawned THEN "stage_done" ELSE "cleanup")

Spawn ==
    LET free  == {k \in Kids : ~kids[k].live}
        works == Stage.cmd = "spawns" /\ free # {}
        kid   == IF works THEN Least(free) ELSE Nothing
    IN  /\ At("spawn")
        /\ kids' = IF ~works THEN kids
                   ELSE [kids EXCEPT ![kid] =
                            [NoKid EXCEPT !.live = TRUE, !.in = StdIn, !.out = StdOut,
                                          !.given = <<Fd(StdIn), Fd(StdOut)>>]]
        /\ shell' = Spawned(shell, works, kid)
        /\ UNCHANGED <<tables, dropped>>

(* sys_close of the next descriptor, or on to what comes after.            *)
Ahead == {i \in DOMAIN shell.todo : shell.todo[i] # Nothing}
CloseNext ==
    LET i == Least(Ahead)
    IN  /\ At("close") /\ Ahead # {}
        /\ tables' = vfs_close(tables, shell.todo[i])
        /\ shell' = [shell EXCEPT !.todo = SubSeq(@, i + 1, Len(@))]
        /\ UNCHANGED <<kids, dropped>>

GoesOn(sh) ==
    CASE sh.next = "stage_done" -> StageDone(sh)
      [] sh.next = "cleanup"    -> Cleanup(sh)
      [] OTHER -> AtPrompt
ClosingDone ==
    /\ At("close") /\ Ahead = {}
    /\ shell' = GoesOn([shell EXCEPT !.todo = <<>>])
    /\ UNCHANGED <<tables, kids, dropped>>

(* sys_wait for each stage; then the redirections are closed.              *)
Child == shell.pids[shell.s]
Running(pid) == pid # Nothing /\ kids[pid].live
AfterWait ==
    IF shell.s < Stages THEN [shell EXCEPT !.s = @ + 1]
    ELSE Closing(shell, shell.redirs, "cleanup")

WaitFor ==
    /\ At("wait") /\ ~Running(Child)
    /\ shell' = AfterWait
    /\ UNCHANGED <<tables, kids, dropped>>

(* When every program sleeps in a pipe and nobody else is there to run,    *)
(* scheduler() returns, and so does sys_wait.                              *)
Asleep(k) ==
    LET pipe == tables.pipes[kids[k].inside]
    IN  \/ kids[k].does = "read" /\ pipe.level = 0 /\ pipe.write_open > 0
        \/ kids[k].does = "write" /\ pipe.level = PipeRoom /\ pipe.read_open > 0

WaitCutShort ==
    /\ At("wait") /\ Running(Child)
    /\ \A k \in Kids : kids[k].live => Asleep(k)
    /\ kids' = [kids EXCEPT ![Child].left = TRUE]
    /\ shell' = AfterWait
    /\ UNCHANGED <<tables, dropped>>

-----------------------------------------------------------------------------
(* The programs.  Inside the loop of a pipe a program does not look at its *)
(* descriptor again, only at the place in the table of pipes.              *)
WriteBegin(k) ==
    LET e == Fd(kids[k].out)
    IN  /\ kids[k].live /\ kids[k].inside = Nothing
        /\ e.type = "pipe_w" /\ tables.pipes[e.index].read_open > 0
        /\ kids' = [kids EXCEPT ![k].inside = e.index, ![k].does = "write"]
        /\ UNCHANGED <<tables, shell, dropped>>

WriteGoesOn(k) ==
    LET p == kids[k].inside
    IN  /\ kids[k].live /\ p # Nothing /\ kids[k].does = "write"
        /\ \/ /\ tables.pipes[p].level < PipeRoom
              /\ tables' = [tables EXCEPT !.pipes[p].level = @ + 1]
           \/ /\ tables.pipes[p].level = PipeRoom /\ tables.pipes[p].read_open <= 0
              /\ UNCHANGED tables
        /\ kids' = [kids EXCEPT ![k].inside = Nothing, ![k].does = "none"]
        /\ UNCHANGED <<shell, dropped>>

ReadBegin(k) ==
    LET e == Fd(kids[k].in)
    IN  /\ kids[k].live /\ kids[k].inside = Nothing /\ e.type = "pipe_r"
        /\ kids' = [kids EXCEPT ![k].inside = e.index, ![k].does = "read"]
        /\ UNCHANGED <<tables, shell, dropped>>

ReadGoesOn(k) ==
    LET p == kids[k].inside
    IN  /\ kids[k].live /\ p # Nothing /\ kids[k].does = "read"
        /\ \/ /\ tables.pipes[p].level > 0
              /\ tables' = [tables EXCEPT !.pipes[p].level = @ - 1]
           \/ /\ tables.pipes[p].level = 0 /\ tables.pipes[p].write_open <= 0
              /\ UNCHANGED tables
        /\ kids' = [kids EXCEPT ![k].inside = Nothing, ![k].does = "none"]
        /\ UNCHANGED <<shell, dropped>>

(* SYS_EXIT closes none of these descriptors.                              *)
Exit(k) ==
    /\ kids[k].live /\ kids[k].inside = Nothing
    /\ kids' = [kids EXCEPT ![k] = NoKid]
    /\ UNCHANGED <<tables, shell, dropped>>

Next ==
    \/ \E line \in Lines : ReadLine(line)
    \/ sys_pipe \/ EmptyStage \/ OpenInput \/ OpenOutput \/ Spawn
    \/ CloseNext \/ ClosingDone \/ WaitFor \/ WaitCutShort
    \/ \E k \in Kids : WriteBegin(k) \/ WriteGoesOn(k) \/ ReadBegin(k) \/ ReadGoesOn(k)
                          \/ Exit(k)

Spec == Init /\ [][Next]_vars

-----------------------------------------------------------------------------
(* A pipe counts exactly the descriptors of each of its ends and is in use *)
(* while there is one; a file's handle belongs to one descriptor and is    *)
(* open while that is: nothing is closed twice, none kept by nobody,       *)
(* whatever fails half-way.                                                *)
Pointing(type, i) == {f \in Fds : tables.fds[f] = [type |-> type, index |-> i]}
DescriptorsCounted ==
    /\ \A p \in Pipes :
          LET pipe == tables.pipes[p]
          IN  /\ pipe.read_open = Cardinality(Pointing("pipe_r", p))
              /\ pipe.write_open = Cardinality(Pointing("pipe_w", p))
              /\ pipe.used <=> pipe.read_open + pipe.write_open > 0
              /\ pipe.level \in 0 .. PipeRoom
    /\ \A h \in Handles : Cardinality(Pointing("file", h)) = IF h \in tables.handles THEN 1 ELSE 0

(* Whichever stage failed, no pipe is left in use when the shell is back   *)
(* at its prompt, but those it forgot because a later sys_pipe failed.     *)
NoPipeLeft == At("prompt") => {p \in Pipes : tables.pipes[p].used} = dropped

(* "Close redirect fds after children finish (not before -- they need them *)
(* open)": as long as a program lives, a file it was given as its input or *)
(* output is what its descriptor means, but for a program that the shell   *)
(* waited for in vain, as nobody was runnable.                             *)
StillGiven(k, type) ==
    /\ kids[k].given[1].type = type => Fd(kids[k].in) = kids[k].given[1]
    /\ kids[k].given[2].type = type => Fd(kids[k].out) = kids[k].given[2]
RedirectsStayOpen ==
    \A k \in Kids : kids[k].live /\ ~kids[k].left => StillGiven(k, "file")

(* "Close pipe ends immediately (signals EOF to next stage)": it is the    *)
(* shell's hold on the end that goes, the program goes on having its own,  *)
(* so that its output reaches the next stage.                              *)
PipeEndsStayOpen == \A k \in Kids : kids[k].live => StillGiven(k, "pipe_w")
=============================================================================
