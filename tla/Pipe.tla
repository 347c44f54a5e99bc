-------------------------------- MODULE Pipe --------------------------------
(***************************************************************************)
(* One kernel pipe (kernel/pipe.c), its two wait queues (kernel/           *)
(* waitqueue.c) and the processes that use it, on top of the scheduler of  *)
(* module Process.  vfs_pipe gives each end of the pipe a single file      *)
(* descriptor, in a table that all processes share, so read_open and       *)
(* write_open are 1 or 0 and also say whether that descriptor is open;     *)
(* any process may use or close it.                                        *)
(*                                                                         *)
(* A process inside pipe_read or pipe_write executes one iteration of the  *)
(* loop per action.  Interrupts are off there, so no other process gets in *)
(* between except where the loop sleeps.                                   *)
(***************************************************************************)
EXTENDS Process, Sequences

CONSTANTS
    PidOf,          \* the pids of the live processes, by slot
    PipeBufSize,    \* PIPE_BUF_SIZE; one byte of it stays free
    WaitQueueMax,   \* WAIT_QUEUE_MAX
    Bytes,          \* the bytes a program may write
    Sizes           \* the sizes of a read or a write

ASSUME PipeAssumption ==
    /\ PidOf \in [Slots -> Pids]
    /\ PipeBufSize \in Nat /\ PipeBufSize >= 2
    /\ WaitQueueMax \in Nat \ {0}
    /\ Sizes \subseteq Nat

VARIABLES
    buf, head, tail,        \* the ring
    read_open, write_open,
    readers, writers        \* the wait queues: pids, or None

ring     == <<buf, head, tail>>
queues   == <<readers, writers>>
pipeVars == <<ring, read_open, write_open, queues>>

Places == 1 .. WaitQueueMax

(* Init runs in slot 0 and waits for the process in slot 1, which has just *)
(* called vfs_pipe; the others are ready.  A pid is the slot's number only *)
(* as long as no slot has been used twice.                                 *)
PipeInit ==
    /\ state = [s \in Slots |-> CASE s = 0 -> "WAITING" [] s = 1 -> "RUNNING"
                                  [] OTHER -> "READY"]
    /\ pid = PidOf
    /\ waiting_for = [s \in Slots |-> IF s = 0 THEN PidOf[1] ELSE None]
    /\ sleep_until = [s \in Slots |-> 0]
    /\ kernel_stack = [s \in Slots |-> IF s = 0 THEN Boot ELSE s - 1]
    /\ page_directory = [s \in Slots |-> IF s = 0 THEN "kernel" ELSE "own"]
    /\ call = [s \in Slots |-> IF s = 0 THEN [kind |-> "wait", arg |-> PidOf[1]]
                                        ELSE NoCall]
    /\ frame = kernel_stack
    /\ kstack_used = 0 .. MaxProcesses - 2
    /\ esp0 = kernel_stack[1]
    /\ current_pid = 1
    /\ next_pid = MaxPid + 1
    /\ ticks = 0
    /\ sigint_target = None
    /\ crashed = FALSE
    /\ buf = [i \in 0 .. PipeBufSize - 1 |-> 0]
    /\ head = 0 /\ tail = 0
    /\ read_open = 1 /\ write_open = 1
    /\ readers = [i \in Places |-> None]
    /\ writers = [i \in Places |-> None]

-----------------------------------------------------------------------------
(* Wait queues.  The queue q after the caller has stored its pid in the    *)
(* first empty place, if there is one.                                     *)
Enqueued(q) ==
    LET free == {i \in Places : q[i] = None}
    IN  [i \in Places |->
            IF i \in free /\ (\A j \in free : i <= j) THEN pid[current_pid] ELSE q[i]]

wq_sleep(c) ==
    /\ waiting_for' = [waiting_for EXCEPT ![current_pid] = None]
    /\ scheduler([state EXCEPT ![current_pid] = "WAITING"], sleep_until, ticks,
                 page_directory, c)
    /\ UNCHANGED <<pid, sleep_until, kernel_stack, page_directory, kstack_used,
                   next_pid, ticks, sigint_target>>

(* A queue holds pids, the wake functions use them as slot numbers: those  *)
(* that are none are passed over.                                          *)
IsSlot(p) == p >= 0 /\ p < MaxProcesses

(* The places whose slot is WAITING, and those wq_wake_one goes through.   *)
Wakeable(q) == {i \in Places : IsSlot(q[i]) /\ state[q[i]] = "WAITING"}
FirstWakeable(q, i) == i \in Wakeable(q) /\ \A j \in Wakeable(q) : i <= j
Visited(q, i) == IsSlot(q[i]) /\ \A j \in Wakeable(q) : i <= j

WokenOne(q) ==
    [s \in Slots |-> IF \E i \in Places : FirstWakeable(q, i) /\ q[i] = s
                     THEN "READY" ELSE state[s]]

WokenAll(q) ==
    [s \in Slots |-> IF \E i \in Wakeable(q) : q[i] = s THEN "READY" ELSE state[s]]

Kept(q) == q                      \* seeded fault: the woken place is not cleared

LeftAfterOne(q) == [i \in Places |-> IF Visited(q, i) THEN None ELSE q[i]]
LeftAfterAll(q) == [i \in Places |-> IF IsSlot(q[i]) THEN None ELSE q[i]]

-----------------------------------------------------------------------------
(* The table entries a call into the pipe does not touch.                  *)
Untouched ==
    UNCHANGED <<pid, waiting_for, sleep_until, kernel_stack, page_directory,
                frame, kstack_used, esp0, current_pid, next_pid, ticks,
                sigint_target, crashed>>

Inside(kind) == ~crashed /\ call[current_pid].kind = kind
Left         == call[current_pid].arg
Call(kind, n) == [call EXCEPT ![current_pid] = [kind |-> kind, arg |-> n]]
Return       == [call EXCEPT ![current_pid] = NoCall]

Empty  == head = tail

After(i) == (i + 1) % PipeBufSize

NeverFull == FALSE                \* seeded fault: the writer does not look
Full == After(tail) = head

EnterRead(n) ==
    /\ CanCall
    /\ read_open > 0
    /\ call' = Call("read", n)
    /\ UNCHANGED state /\ Untouched /\ UNCHANGED pipeVars

ReadByte ==
    /\ Inside("read") /\ Left > 0 /\ ~Empty
    /\ head' = After(head)
    /\ call' = Call("read", Left - 1)
    /\ state' = WokenOne(writers)
    /\ writers' = LeftAfterOne(writers)
    /\ Untouched /\ UNCHANGED <<buf, tail, read_open, write_open, readers>>

ReadSleep ==
    /\ Inside("read") /\ Left > 0 /\ Empty /\ write_open > 0
    /\ readers' = Enqueued(readers)
    /\ wq_sleep(call[current_pid])
    /\ UNCHANGED <<ring, read_open, write_open, writers>>

ReadReturn ==
    /\ Inside("read")
    /\ Left = 0 \/ (Empty /\ write_open <= 0)
    /\ call' = Return
    /\ UNCHANGED state /\ Untouched /\ UNCHANGED pipeVars

(* pipe_write looks at read_open on entry and whenever it has slept: those *)
(* are the points where it can find it closed.                             *)
EnterWrite(n) ==
    /\ CanCall
    /\ write_open > 0 /\ read_open > 0
    /\ call' = Call("write", n)
    /\ UNCHANGED state /\ Untouched /\ UNCHANGED pipeVars

WriteByte ==
    /\ Inside("write") /\ read_open > 0 /\ Left > 0 /\ ~Full
    /\ \E b \in Bytes : buf' = [buf EXCEPT ![tail] = b]
    /\ tail' = After(tail)
    /\ call' = Call("write", Left - 1)
    /\ state' = WokenOne(readers)
    /\ readers' = LeftAfterOne(readers)
    /\ Untouched /\ UNCHANGED <<head, read_open, write_open, writers>>

WriteSleep ==
    /\ Inside("write") /\ read_open > 0 /\ Left > 0 /\ Full
    /\ writers' = Enqueued(writers)
    /\ wq_sleep(call[current_pid])
    /\ UNCHANGED <<ring, read_open, write_open, readers>>

WriteReturn ==
    /\ Inside("write")
    /\ Left = 0 \/ read_open <= 0
    /\ call' = Return
    /\ UNCHANGED state /\ Untouched /\ UNCHANGED pipeVars

pipe_close_read ==
    /\ CanCall
    /\ read_open > 0
    /\ read_open' = read_open - 1
    /\ state' = WokenAll(writers)
    /\ writers' = LeftAfterAll(writers)
    /\ UNCHANGED call /\ Untouched /\ UNCHANGED <<ring, write_open, readers>>

pipe_close_write ==
    /\ CanCall
    /\ write_open > 0
    /\ write_open' = write_open - 1
    /\ state' = WokenAll(readers)
    /\ readers' = LeftAfterAll(readers)
    /\ UNCHANGED call /\ Untouched /\ UNCHANGED <<ring, read_open, writers>>

-----------------------------------------------------------------------------
Kernel ==
    ReadByte \/ ReadSleep \/ ReadReturn \/ WriteByte \/ WriteSleep \/ WriteReturn

PipeNext ==
    \/ Kernel
    \/ \E n \in Sizes : EnterRead(n) \/ EnterWrite(n)
    \/ pipe_close_read
    \/ pipe_close_write
    \/ (process_exit \/ timer_handler) /\ UNCHANGED pipeVars
    \/ \E p \in Pids : sys_wait(p) /\ UNCHANGED pipeVars

allVars == <<vars, pipeVars>>

(* The timer keeps interrupting user mode, and the kernel executes.        *)
PipeSpec ==
    /\ PipeInit /\ [][PipeNext]_allVars
    /\ WF_allVars(Kernel)
    /\ WF_allVars(timer_handler /\ UNCHANGED pipeVars)

-----------------------------------------------------------------------------
(* Switched out in the pipe, and not to be switched to.                    *)
Blocked(s, kind) ==
    s # current_pid /\ state[s] = "WAITING" /\ call[s].kind = kind

(* A reader or writer in the loop that will look at the ring again.        *)
Active(kind) ==
    \E s \in Slots : call[s].kind = kind /\ (s = current_pid \/ state[s] = "READY")

(* No wake-up is lost that is meant for a process whose pid is its slot    *)
(* number: while such a reader is blocked, the pipe is empty and still has *)
(* its write end, or a woken reader is on its way to the ring; and the     *)
(* like for writers.                                                       *)
NoLostWakeup ==
    \A s \in {t \in Slots : pid[t] = t} :
        /\ Blocked(s, "read") => (Empty /\ write_open > 0) \/ Active("read")
        /\ Blocked(s, "write") => (Full /\ read_open > 0) \/ Active("write")

(* sys_wait is not cut short by a pipe: who waits for a pid, waits for a   *)
(* live one, and no wait queue wakes it.                                   *)
WaitersUndisturbed ==
    [][\A s \in Slots :
         state[s] = "WAITING" /\ state'[s] = "READY" /\ call[s].kind = "wait"
         => \A t \in Slots : pid[t] = call[s].arg => state'[t] = "DEAD"]_allVars

(* The ring with its blocking callers implements a bounded FIFO.           *)
Contents == [i \in 1 .. (tail - head) % PipeBufSize |->
                buf[(head + i - 1) % PipeBufSize]]

Promise == INSTANCE Stream WITH
    Capacity <- PipeBufSize - 1, queue <- Contents,
    readable <- read_open > 0, writable <- write_open > 0

IsStream == Promise!Spec

(* End of file reaches the readers: once the write end is closed, nobody   *)
(* stays blocked in a read.                                                *)
EofReachesReaders ==
    \A s \in Slots : (Blocked(s, "read") /\ write_open = 0) ~> ~Blocked(s, "read")
=============================================================================
