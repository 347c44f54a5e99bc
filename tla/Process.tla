------------------------------ MODULE Process ------------------------------
(***************************************************************************)
(* The process table and the scheduler of ToxenOS (kernel/process.c), with *)
(* the system calls, the timer interrupt and the Ctrl+C key that act on    *)
(* them.                                                                   *)
(*                                                                         *)
(* There is one CPU, and system calls enter through an interrupt gate, so  *)
(* the kernel runs with interrupts off: a call is atomic from its entry to *)
(* the point where it calls scheduler(), and from there the next process   *)
(* continues.  Interrupts hit user mode only.  Every action below is one   *)
(* such stretch.  The process that is executing is the one in slot         *)
(* current_pid (a SLOT NUMBER, whatever its name says), in whatever state  *)
(* its table entry is.                                                     *)
(***************************************************************************)
EXTENDS Integers

CONSTANTS
    MaxProcesses,   \* MAX_PROCESSES, the slots of the table
    MaxPid,         \* bound of the model: the pids next_pid may hand out
    Quantum,        \* the timer calls scheduler() every Quantum ticks (10)
    TickMod,        \* ticks is a uint32_t; here it wraps at TickMod
    SleepTicks,     \* the sleeps, in ticks, a program may ask for
    ExitedMayCall   \* may a process marked DEAD, still executing, call again?

ASSUME ProcessAssumption ==
    /\ MaxProcesses \in Nat /\ MaxProcesses >= 2
    /\ MaxPid \in Nat
    /\ Quantum \in Nat \ {0}
    /\ TickMod \in Nat \ {0}
    /\ SleepTicks \subseteq Nat
    /\ ExitedMayCall \in BOOLEAN

Slots  == 0 .. MaxProcesses - 1
Pids   == 0 .. MaxPid
None   == -1
Boot   == -2                    \* the boot stack, below stack_top
States == {"READY", "RUNNING", "WAITING", "SLEEPING", "DEAD"}

(* A process that is switched out inside a blocking call has that call's   *)
(* frame on its kernel stack: call[s] is that frame.  sys_wait and         *)
(* sys_sleep return as soon as scheduler() does; pipe_read and pipe_write  *)
(* (module Pipe) go on with their loops.                                   *)
NoCall == [kind |-> "none", arg |-> 0]
Calls  == [kind : {"none", "wait", "sleep", "read", "write"}, arg : Int]

AfterScheduler(c) == IF c.kind \in {"read", "write"} THEN c ELSE NoCall

VARIABLES
    state, pid, waiting_for, sleep_until,   \* fields of processes[slot]
    kernel_stack,    \* the stack of the slot: a stack number, Boot or None
    page_directory,  \* "kernel", "own", or "none" for the null pointer
    call,            \* the blocking call each slot is switched out in
    frame,           \* the stack each slot's saved registers lie on
    kstack_used,     \* the stack numbers kstack_alloc has given out
    esp0,            \* TSS.esp0: the stack the next kernel entry runs on
    current_pid, next_pid, ticks, sigint_target,
    crashed          \* the machine ran on a stack or directory it freed

table == <<state, pid, waiting_for, sleep_until, kernel_stack,
           page_directory, call, frame>>
vars  == <<table, kstack_used, esp0, current_pid, next_pid, ticks,
           sigint_target, crashed>>

(* After process_init and launch_init: slot 0 was the kernel, is marked    *)
(* DEAD by process_retire_kernel, and goes on as init in user mode.        *)
Init ==
    /\ state = [s \in Slots |-> "DEAD"]
    /\ pid = [s \in Slots |-> 0]
    /\ waiting_for = [s \in Slots |-> None]
    /\ sleep_until = [s \in Slots |-> 0]
    /\ kernel_stack = [s \in Slots |-> IF s = 0 THEN Boot ELSE None]
    /\ page_directory = [s \in Slots |-> IF s = 0 THEN "kernel" ELSE "none"]
    /\ call = [s \in Slots |-> NoCall]
    /\ frame = [s \in Slots |-> IF s = 0 THEN Boot ELSE None]
    /\ kstack_used = {}
    /\ esp0 = Boot
    /\ current_pid = 0
    /\ next_pid = 1
    /\ ticks \in 0 .. TickMod - 1
    /\ sigint_target = None
    /\ crashed = FALSE

-----------------------------------------------------------------------------
(* scheduler().  It is called on a table whose entries st, until the       *)
(* caller has just written, at time now, by a process inside the call c.   *)

AwakeLate(st, until, now) ==      \* seeded fault: > for >=
    [s \in Slots |->
        IF st[s] = "SLEEPING" /\ now > until[s] THEN "READY" ELSE st[s]]

Awake(st, until, now) ==
    [s \in Slots |->
        IF st[s] = "SLEEPING" /\ now >= until[s] THEN "READY" ELSE st[s]]

Runnable(st) == {s \in Slots : st[s] \in {"READY", "RUNNING"}}

Distance(s) == (s - current_pid - 1) % MaxProcesses

IsFirst(st, next) ==              \* seeded fault: search from slot 0
    IF Runnable(st) = {}
    THEN next = current_pid
    ELSE next \in Runnable(st) /\ \A s \in Runnable(st) : next <= s

(* The first runnable slot after current_pid, in a circle that ends with   *)
(* current_pid itself, which also stays when nothing is runnable.  (The    *)
(* code then prefers slot 0 if that one is READY or RUNNING, which cannot  *)
(* be: the search would have found it.)                                    *)
IsNext(st, next) ==
    IF Runnable(st) = {}
    THEN next = current_pid
    ELSE next \in Runnable(st) /\ \A s \in Runnable(st) : Distance(next) <= Distance(s)

SwitchNoDemote(st, next) ==       \* seeded fault: no RUNNING -> READY
    [st EXCEPT ![next] = "RUNNING"]

SwitchTo(st, next) ==
    [s \in Slots |-> IF s = next THEN "RUNNING"
                     ELSE IF s = current_pid /\ st[s] = "RUNNING" THEN "READY"
                     ELSE st[s]]

(* With next = current_pid scheduler() returns at once and so does the     *)
(* call c, whatever state its caller has put itself in.  Otherwise c stays *)
(* on the stack of the old process and the call of the next one returns.   *)
scheduler(st, until, now, dirs, c) ==
    LET woken == Awake(st, until, now)
    IN  \E next \in Slots :
          /\ IsNext(woken, next)
          /\ \/ /\ next = current_pid
                /\ state' = woken
                /\ call' = [call EXCEPT ![current_pid] = AfterScheduler(c)]
                /\ UNCHANGED <<frame, esp0, current_pid, crashed>>
             \/ /\ next # current_pid
                /\ state' = SwitchTo(woken, next)
                /\ call' = [call EXCEPT ![current_pid] = c, ![next] = AfterScheduler(@)]
                /\ frame' = [frame EXCEPT ![current_pid] = esp0]
                /\ esp0' = kernel_stack[next]
                /\ current_pid' = next
                /\ crashed' = (dirs[next] = "none")

-----------------------------------------------------------------------------
(* Interrupts and system calls find the CPU in user mode.                  *)
UserMode == ~crashed /\ call[current_pid] = NoCall

(* The process in slot current_pid makes a system call.  One that process_ *)
(* exit, SYS_KILL or Ctrl+C has marked DEAD while it executes returns to   *)
(* its user code, and calls again if ExitedMayCall; init starts out DEAD.  *)
CanCall ==
    /\ UserMode
    /\ ExitedMayCall \/ current_pid = 0 \/ state[current_pid] # "DEAD"

Alive(p) == \E s \in Slots : state[s] # "DEAD" /\ pid[s] = p

(* Wake any process waiting on the dead one: the states and the            *)
(* waiting_for fields after the loop over the table.                       *)
IsWaiter(st, s, p) == st[s] = "WAITING" /\ waiting_for[s] = p

WakeSlot(st, p) ==                \* seeded fault: the slot for the pid
    [s \in Slots |-> IF IsWaiter(st, s, current_pid) THEN "READY" ELSE st[s]]

WakeAll(st, p) ==                 \* seeded fault: waiting_for not compared
    [s \in Slots |-> IF st[s] = "WAITING" THEN "READY" ELSE st[s]]

Wake(st, p) == [s \in Slots |-> IF IsWaiter(st, s, p) THEN "READY" ELSE st[s]]

WakeFor(st, p) ==
    [s \in Slots |-> IF IsWaiter(st, s, p) THEN None ELSE waiting_for[s]]

FirstIdle(slot) ==                \* seeded fault: any slot off the CPU queue
    /\ slot \in Slots \ {0}
    /\ state[slot] \notin {"READY", "RUNNING"}
    /\ \A s \in Slots \ {0} : s < slot => state[s] \in {"READY", "RUNNING"}

FirstDead(slot) ==
    /\ slot \in Slots \ {0}
    /\ state[slot] = "DEAD"
    /\ \A s \in Slots \ {0} : s < slot => state[s] # "DEAD"

(* The stacks in use once the old stack of a reused slot has been freed,   *)
(* and the one kstack_alloc then finds.                                    *)
kstack_keep(slot) == kstack_used  \* seeded fault: old stack not freed

kstack_free(slot) == kstack_used \ {kernel_stack[slot]}

kstack_first(used, k) == k = 0    \* seeded fault: kstack_used not tested

kstack_alloc(used, k) ==
    /\ k \in Slots \ used
    /\ \A j \in Slots \ used : k <= j

RecyclePid(p) == IF p < MaxProcesses - 1 THEN p + 1 ELSE 1    \* seeded fault

NextPid(p) == p + 1

(* process_create_elf up to its allocations: the slot is taken over.  If   *)
(* it is the slot of the process that is executing, its kernel stack is    *)
(* unmapped under its feet.                                                *)
TakeSlot(slot) ==
    /\ CanCall
    /\ next_pid <= MaxPid
    /\ FirstDead(slot)
    /\ kernel_stack[slot] # esp0
    /\ pid' = [pid EXCEPT ![slot] = next_pid]
    /\ next_pid' = NextPid(next_pid)
    /\ waiting_for' = [waiting_for EXCEPT ![slot] = None]
    /\ UNCHANGED <<sleep_until, esp0, current_pid, ticks, sigint_target, crashed>>

(* A spawn that succeeds: the new process is READY.                        *)
process_create_elf ==
    \E slot \in Slots, k \in Slots :
        /\ TakeSlot(slot)
        /\ kstack_alloc(kstack_free(slot), k)
        /\ kstack_used' = kstack_free(slot) \union {k}
        /\ kernel_stack' = [kernel_stack EXCEPT ![slot] = k]
        /\ frame' = [frame EXCEPT ![slot] = k]
        /\ call' = [call EXCEPT ![slot] = NoCall]
        /\ page_directory' = [page_directory EXCEPT ![slot] = "own"]
        /\ state' = [state EXCEPT ![slot] = "READY"]

(* Out of memory for the stack or the directory (dir = "none") or, later,  *)
(* for the image or the user stack (dir = "own"): the slot stays DEAD with *)
(* the pid, and in the second case with the directory.                     *)
CreateFails(dir) ==
    \E slot \in Slots :
        /\ TakeSlot(slot)
        /\ kstack_used' = kstack_free(slot)
        /\ kernel_stack' = [kernel_stack EXCEPT ![slot] = None]
        /\ page_directory' = [page_directory EXCEPT ![slot] = dir]
        /\ UNCHANGED <<state, call, frame>>

(* kstack_free unmaps the stack the call is running on: a double fault.    *)
FreeOwnStack ==
    /\ CanCall
    /\ next_pid <= MaxPid
    /\ \E slot \in Slots : FirstDead(slot) /\ kernel_stack[slot] = esp0
    /\ crashed' = TRUE
    /\ UNCHANGED <<table, kstack_used, esp0, current_pid, next_pid, ticks,
                   sigint_target>>

-----------------------------------------------------------------------------
(* SYS_EXIT, and a fault in user mode.  The kernel stack is left to the    *)
(* next user of the slot.                                                  *)
process_exit ==
    LET me   == current_pid
        dead == [state EXCEPT ![me] = "DEAD"]
        dirs == [page_directory EXCEPT ![me] = "none"]
    IN  /\ UserMode
        /\ me # 0
        /\ page_directory' = dirs
        /\ waiting_for' = WakeFor(dead, pid[me])
        /\ scheduler(Wake(dead, pid[me]), sleep_until, ticks, dirs, NoCall)
        /\ UNCHANGED <<pid, sleep_until, kernel_stack, kstack_used, next_pid,
                       ticks, sigint_target>>

(* SYS_KILL: only the state changes, the victim's resources stay.          *)
sys_kill(p) ==
    /\ CanCall
    /\ p > 0
    /\ \E t \in Slots :
         LET dead == [state EXCEPT ![t] = "DEAD"]
         IN  /\ state[t] # "DEAD" /\ pid[t] = p
             /\ state' = Wake(dead, p)
             /\ waiting_for' = WakeFor(dead, p)
    /\ UNCHANGED <<pid, sleep_until, kernel_stack, page_directory, call, frame,
                   kstack_used, esp0, current_pid, next_pid, ticks,
                   sigint_target, crashed>>

sys_wait(p) ==
    /\ CanCall
    /\ Alive(p)
    /\ waiting_for' = [waiting_for EXCEPT ![current_pid] = p]
    /\ scheduler([state EXCEPT ![current_pid] = "WAITING"], sleep_until, ticks,
                 page_directory, [kind |-> "wait", arg |-> p])
    /\ UNCHANGED <<pid, sleep_until, kernel_stack, page_directory, kstack_used,
                   next_pid, ticks, sigint_target>>

sys_sleep(n) ==
    LET until == (ticks + n) % TickMod
    IN  /\ CanCall
        /\ sleep_until' = [sleep_until EXCEPT ![current_pid] = until]
        /\ scheduler([state EXCEPT ![current_pid] = "SLEEPING"], sleep_until', ticks,
                     page_directory, [kind |-> "sleep", arg |-> until])
        /\ UNCHANGED <<pid, waiting_for, kernel_stack, page_directory,
                       kstack_used, next_pid, ticks, sigint_target>>

sys_yield ==
    /\ CanCall
    /\ scheduler(state, sleep_until, ticks, page_directory, NoCall)
    /\ UNCHANGED <<pid, waiting_for, sleep_until, kernel_stack, page_directory,
                   kstack_used, next_pid, ticks, sigint_target>>

(* sys_exec sets esp0 to the process's stack, and jump_to_ring3, which it  *)
(* ends with, sets it to the boot stack.                                   *)
sys_exec ==
    /\ CanCall
    /\ current_pid # 0
    /\ page_directory' = [page_directory EXCEPT ![current_pid] = "own"]
    /\ esp0' = Boot
    /\ UNCHANGED <<state, pid, waiting_for, sleep_until, kernel_stack, call, frame,
                   kstack_used, current_pid, next_pid, ticks, sigint_target, crashed>>

keyboard_set_sigint_target(p) ==
    /\ CanCall
    /\ sigint_target' = p
    /\ UNCHANGED <<table, kstack_used, esp0, current_pid, next_pid, ticks, crashed>>

-----------------------------------------------------------------------------
(* Interrupts.                                                             *)

TickNoWrap(t) == t + 1            \* seeded fault: wider than 32 bits

TickAfter(t) == (t + 1) % TickMod

timer_handler ==
    /\ UserMode
    /\ ticks' = TickAfter(ticks)
    /\ IF ticks' % Quantum = 0
       THEN scheduler(state, sleep_until, ticks', page_directory, NoCall)
       ELSE UNCHANGED <<state, call, frame, esp0, current_pid, crashed>>
    /\ UNCHANGED <<pid, waiting_for, sleep_until, kernel_stack, page_directory,
                   kstack_used, next_pid, sigint_target>>

(* Ctrl+C.  sigint_target holds a pid; the handler takes it for a slot.    *)
ctrl_c ==
    LET target == sigint_target
        hit    == target > 0 /\ target < MaxProcesses /\ state[target] # "DEAD"
        dead   == [state EXCEPT ![target] = "DEAD"]
    IN  /\ UserMode
        /\ IF hit
           THEN /\ state' = Wake(dead, target)
                /\ waiting_for' = WakeFor(dead, target)
           ELSE UNCHANGED <<state, waiting_for>>
        /\ sigint_target' = None
        /\ UNCHANGED <<pid, sleep_until, kernel_stack, page_directory, call, frame,
                       kstack_used, esp0, current_pid, next_pid, ticks, crashed>>

-----------------------------------------------------------------------------
Syscall ==
    \/ process_create_elf
    \/ \E dir \in {"none", "own"} : CreateFails(dir)
    \/ FreeOwnStack
    \/ process_exit
    \/ \E p \in Pids : sys_kill(p)
    \/ \E p \in Pids : sys_wait(p)
    \/ \E n \in SleepTicks : sys_sleep(n)
    \/ sys_yield

(* The machine without Ctrl+C and without exec.                            *)
Next == Syscall \/ timer_handler

(* All of it.                                                              *)
NextAll ==
    \/ Next
    \/ sys_exec
    \/ \E p \in Pids \union {None} : keyboard_set_sigint_target(p)
    \/ ctrl_c

Spec    == Init /\ [][Next]_vars
SpecAll == Init /\ [][NextAll]_vars

(* The PIT keeps interrupting, and user mode always has interrupts on.     *)
FairSpec == Spec /\ WF_vars(timer_handler)
-----------------------------------------------------------------------------
(* Every field stays in its range. *)
TypeOK ==
    /\ state \in [Slots -> States]
    /\ pid \in [Slots -> Pids]
    /\ waiting_for \in [Slots -> Pids \union {None}]
    /\ sleep_until \in [Slots -> 0 .. TickMod - 1]
    /\ kernel_stack \in [Slots -> Slots \union {None, Boot}]
    /\ page_directory \in [Slots -> {"kernel", "own", "none"}]
    /\ call \in [Slots -> Calls]
    /\ frame \in [Slots -> Slots \union {None, Boot}]
    /\ kstack_used \in SUBSET Slots
    /\ esp0 \in Slots \union {None, Boot}
    /\ current_pid \in Slots
    /\ next_pid \in 1 .. MaxPid + 1
    /\ ticks \in 0 .. TickMod - 1
    /\ sigint_target \in Pids \union {None}
    /\ crashed \in BOOLEAN

(* Only the slot the CPU is in is ever marked RUNNING: whatever calls,     *)
(* kills, sleeps and interrupts come in between, scheduler() leaves no     *)
(* second RUNNING entry that a later search would pick up.                 *)
RunningIsCurrent == \A s \in Slots : state[s] = "RUNNING" => s = current_pid

(* No two live processes have the same pid, so that process_get_by_pid,    *)
(* which returns the first match, finds the process that was meant         *)
(* ("never reuses a PID", process.c:14).                                   *)
UniquePids ==
    \A s, t \in Slots :
        state[s] # "DEAD" /\ state[t] # "DEAD" /\ pid[s] = pid[t] => s = t

(* Kernel stacks are neither shared nor lost: the stacks kstack_alloc has  *)
(* given out are exactly those the slots hold, and no two slots hold one,  *)
(* although a stack outlives its process and is freed by the next owner of *)
(* the slot.                                                               *)
KStackOwnership ==
    /\ kstack_used = {kernel_stack[s] : s \in Slots \ {0}} \ {None}
    /\ \A s, t \in Slots : kernel_stack[s] = kernel_stack[t] /\ s # t
                             => kernel_stack[s] = None

(* No lost wake-up: a process that waits for a pid waits for a live one.   *)
WaitTargetAlive ==
    \A s \in Slots : state[s] = "WAITING" => Alive(waiting_for[s])

(* The switched-out processes have their registers on distinct stacks that *)
(* are still mapped, none of which is the stack the CPU will use next.     *)
NoSharedStack ==
    /\ esp0 \in kstack_used \union {Boot}
    /\ \A s \in Slots \ {current_pid} : state[s] # "DEAD" =>
         /\ frame[s] \in (kstack_used \union {Boot}) \ {esp0}
         /\ \A t \in Slots \ {s, current_pid} :
              state[t] # "DEAD" => frame[t] # frame[s]

(* The kernel never frees the stack it is running on (process.c:396-400)   *)
(* and never switches to a process whose directory is gone.                *)
NoCrash == ~crashed

(* A process blocked in sys_wait is resumed only when its child is dead.   *)
WaitReturnsAfterDeath ==
    [][\A s \in Slots :
         s # current_pid /\ current_pid' = s /\ call[s].kind = "wait"
         => \A t \in Slots : pid'[t] = call[s].arg => state'[t] = "DEAD"]_vars

(* No starvation: a READY process gets the CPU (or is killed), by the      *)
(* circular search and the timer alone.                                    *)
ReadyRuns ==
    \A s \in Slots : state[s] = "READY" ~> (current_pid = s \/ state[s] # "READY")

(* A sleeper wakes, unless its deadline lies after the last tick before    *)
(* the wrap of ticks at which the timer calls scheduler().                 *)
LastQuantum == TickMod - 1 - ((TickMod - 1) % Quantum)

SleepsBeforeWrap(s) == state[s] = "SLEEPING" /\ sleep_until[s] <= LastQuantum

SleeperWakes == \A s \in Slots : SleepsBeforeWrap(s) ~> ~SleepsBeforeWrap(s)

(* Ctrl+C kills the process whose pid was made the target.                 *)
CtrlCKillsTarget ==
    [][sigint_target # None /\ sigint_target' = None
       => \A s \in Slots : state[s] # "DEAD" /\ state'[s] = "DEAD"
                            => pid[s] = sigint_target]_vars
=============================================================================
