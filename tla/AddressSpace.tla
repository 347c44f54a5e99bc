---------------------------- MODULE AddressSpace ----------------------------
(***************************************************************************)
(* The memory of processes (kernel/process.c, kernel/paging.c) on top of   *)
(* the frame allocator: page directories over create, exit, kill, exec and *)
(* sbrk.  A system call runs with interrupts off, so while `call' is not   *)
(* Idle only its own steps happen, one page at a time.                     *)
(*                                                                         *)
(* Directories and page tables are pages of the kernel heap, of which only *)
(* the number left matters here.  What module Process says of stacks, pids *)
(* and the scheduler is left out: any live process may run next, and a new *)
(* process does not get the slot that is executing.  Init, in slot 0, has  *)
(* its pages in the kernel's directory and never exits.                    *)
(***************************************************************************)
EXTENDS Pmm, Sequences

CONSTANTS
    Slots,          \* the process table without slot 0
    HeapPages,      \* the pages the kernel heap has room for
    TablePages,     \* pages of a page table
    UserHeapBase, UserStackTop, UserStackPages,
    ElfPages,       \* the pages an ELF file may lie on
    Images,         \* the pages of the files there are, in loading order
    Increments,     \* the arguments of sbrk
    None            \* a null pointer to a directory

ASSUME AddressSpaceAssumption ==
    /\ Slots \subseteq Nat \ {0}
    /\ HeapPages \in Nat /\ TablePages \in Nat \ {0} /\ UserStackPages \in Nat \ {0}
    /\ UserHeapBase \in Nat \ {0} /\ UserStackTop \in Nat /\ UserStackTop <= Width
    /\ UserHeapBase + (UserStackPages + 2) * FrameSize <= UserStackTop
    /\ ElfPages \subseteq 1 .. (UserHeapBase \div FrameSize) - 1
    /\ Images \subseteq Seq(ElfPages)
    /\ \A i \in Increments : i \in Int /\ -Width <= 2 * i /\ 2 * i < Width

New   == 0                        \* new_dir, which sys_exec is building
Roots == Slots \union {New}

VARIABLES
    live,               \* the slots whose state is not DEAD
    current,            \* the slot that is executing
    dirs,               \* page_directory of each slot, and new_dir
    heap_end,           \* 0 before the first sbrk
    heap_left,          \* free pages of the kernel heap
    call                \* the system call that is mapping pages

vars == <<pmmVars, live, current, dirs, heap_end, heap_left, call>>

Idle   == [kind |-> "idle", at |-> New, todo |-> <<>>, ok |-> FALSE, first |-> 0, end |-> 0]
Exited == [Idle EXCEPT !.kind = "exited"]    \* process_exit came back

UserPages == 0 .. (UserStackTop \div FrameSize) - 1
TableOf(p) == p \div TablePages
Tables == {TableOf(p) : p \in UserPages}
StackPages == [i \in 1 .. UserStackPages |-> (UserStackTop \div FrameSize) - i]
GuardPage == (UserStackTop \div FrameSize) - UserStackPages - 1
UserHeapMax == UserStackTop - (UserStackPages + 2) * FrameSize

Directories == [pages : [UserPages -> Frames], tables : SUBSET Tables]
ASSUME NoDirectory == None \notin Directories

EmptyDirectory == [pages |-> [p \in UserPages |-> NoFrame], tables |-> {}]
Present(at) == dirs[at] # None
MappedBy(d) == {d.pages[p] : p \in UserPages} \ {NoFrame}
HeapPagesOf(d) == 1 + Cardinality(d.tables)

Init ==
    /\ pmm_init
    /\ live = {} /\ current = 0
    /\ dirs = [at \in Roots |-> None]
    /\ heap_end = [s \in Slots |-> 0]
    /\ heap_left = HeapPages
    /\ call = Idle

-----------------------------------------------------------------------------
(* process_create_elf.  The file was read into a heap buffer, freed at the *)
(* end whatever happens; ok says that no later segment is refused.  The    *)
(* slot's old directory is taken to have been freed.                       *)
FirstDead(s) == s \in Slots \ live /\ \A t \in Slots \ live : s <= t

CreateBegin(s, image, ok) ==
    /\ call = Idle /\ FirstDead(s) /\ s # current
    /\ heap_left >= 2
    /\ dirs' = [dirs EXCEPT ![s] = EmptyDirectory]
    /\ heap_end' = [heap_end EXCEPT ![s] = 0]
    /\ heap_left' = heap_left - 2
    /\ call' = [Idle EXCEPT !.kind = "create", !.at = s, !.ok = ok,
                            !.todo = image \o (IF ok THEN StackPages ELSE <<>>)]
    /\ UNCHANGED <<pmmVars, live, current>>

CreateNoDirectory(s) ==
    /\ call = Idle /\ FirstDead(s) /\ s # current
    /\ heap_left = 1
    /\ dirs' = [dirs EXCEPT ![s] = None]
    /\ heap_end' = [heap_end EXCEPT ![s] = 0]
    /\ UNCHANGED <<pmmVars, live, current, heap_left, call>>

(* The process is made READY, its guard page unmapped.                     *)
CreateDone ==
    /\ call.kind = "create" /\ call.todo = <<>> /\ call.ok
    /\ live' = live \union {call.at}
    /\ dirs' = [dirs EXCEPT ![call.at].pages[GuardPage] = NoFrame]
    /\ heap_left' = heap_left + 1
    /\ call' = Idle
    /\ UNCHANGED <<pmmVars, current, heap_end>>

CreateFails ==
    /\ call.kind = "create" /\ call.todo = <<>> /\ ~call.ok
    /\ heap_left' = heap_left + 1
    /\ call' = Idle
    /\ UNCHANGED <<pmmVars, live, current, dirs, heap_end>>

-----------------------------------------------------------------------------
(* paging_map(dirs[at], page, frame).  The call returns nothing: without   *)
(* a page for the table, nothing is mapped and nobody learns of it.        *)
paging_map(at, page, frame) ==
    LET d == dirs[at]
        t == TableOf(page)
    IN  \/ /\ t \in d.tables
           /\ dirs' = [dirs EXCEPT ![at].pages[page] = frame]
           /\ UNCHANGED heap_left
        \/ /\ t \notin d.tables /\ heap_left > 0
           /\ dirs' = [dirs EXCEPT ![at] =
                  [pages |-> [d.pages EXCEPT ![page] = frame],
                   tables |-> d.tables \union {t}]]
           /\ heap_left' = heap_left - 1
        \/ /\ t \notin d.tables /\ heap_left = 0
           /\ UNCHANGED <<dirs, heap_left>>

(* One turn of the loops over segments, the stack and the new heap.        *)
MapPage ==
    /\ call # Idle /\ call.todo # <<>>
    /\ phys_alloc_page
    /\ paging_map(call.at, Head(call.todo), Found)
    /\ call' = [call EXCEPT !.todo = Tail(@)]
    /\ UNCHANGED <<live, current, heap_end>>

(* With no frame left the callers give up.  Pages mapped so far stay       *)
(* allocated; a create leaves them in the directory of a DEAD slot.        *)
LoadOutOfMemory ==
    /\ call.kind \in {"create", "exec", "exec_stack"}
    /\ call.todo # <<>> /\ Found = NoFrame
    /\ dirs' = [dirs EXCEPT ![New] = None]
    /\ heap_left' = IF call.kind = "exec_stack" THEN heap_left ELSE heap_left + 1
    /\ call' = Idle
    /\ UNCHANGED <<pmmVars, live, current, heap_end>>

(* sbrk unmaps what this call had mapped, paging_unmap for each page.      *)
SbrkOutOfMemory ==
    /\ call.kind = "sbrk" /\ call.todo # <<>> /\ Found = NoFrame
    /\ dirs' = [dirs EXCEPT ![call.at].pages =
           [p \in UserPages |-> IF p \in call.first .. Head(call.todo) - 1
                                THEN NoFrame ELSE @[p]]]
    /\ call' = Idle
    /\ UNCHANGED <<pmmVars, live, current, heap_end, heap_left>>

-----------------------------------------------------------------------------
(* sys_exec: the file's buffer is freed before the stack is mapped, the    *)
(* old directory is not freed, heap_end not reset.                         *)
ExecBegin(image, ok) ==
    /\ call = Idle /\ current # 0 /\ heap_left >= 2
    /\ dirs' = [dirs EXCEPT ![New] = EmptyDirectory]
    /\ heap_left' = heap_left - 2
    /\ call' = [Idle EXCEPT !.kind = "exec", !.at = New, !.todo = image, !.ok = ok]
    /\ UNCHANGED <<pmmVars, live, current, heap_end>>

ExecLoaded ==
    /\ call.kind = "exec" /\ call.todo = <<>> /\ call.ok
    /\ heap_left' = heap_left + 1
    /\ call' = [call EXCEPT !.kind = "exec_stack", !.todo = StackPages]
    /\ UNCHANGED <<pmmVars, live, current, dirs, heap_end>>

RefusedAfterSwap ==            \* seeded fault: page_directory is set before loading
    /\ call.kind = "exec" /\ call.todo = <<>> /\ ~call.ok
    /\ dirs' = [dirs EXCEPT ![current] = None, ![New] = None]
    /\ heap_left' = heap_left + 1
    /\ call' = Idle
    /\ UNCHANGED <<pmmVars, live, current, heap_end>>

ExecRefused ==
    /\ call.kind = "exec" /\ call.todo = <<>> /\ ~call.ok
    /\ dirs' = [dirs EXCEPT ![New] = None]
    /\ heap_left' = heap_left + 1
    /\ call' = Idle
    /\ UNCHANGED <<pmmVars, live, current, heap_end>>

ExecDone ==
    /\ call.kind = "exec_stack" /\ call.todo = <<>>
    /\ dirs' = [dirs EXCEPT ![current] = dirs[New], ![New] = None]
    /\ call' = Idle
    /\ UNCHANGED <<pmmVars, live, current, heap_end, heap_left>>

-----------------------------------------------------------------------------
(* sys_sbrk.  heap_end + increment is a sum of 32-bit numbers.             *)
Base == IF heap_end[current] = 0 THEN UserHeapBase ELSE heap_end[current]
Sum(increment) == (Base + increment) % Width

SbrkQuery ==
    /\ call = Idle /\ current # 0
    /\ heap_end' = [heap_end EXCEPT ![current] = Base]
    /\ UNCHANGED <<pmmVars, live, current, dirs, heap_left, call>>

SbrkShrink(increment) ==
    /\ call = Idle /\ current # 0 /\ increment < 0
    /\ heap_end' = [heap_end EXCEPT ![current] =
           IF Sum(increment) < UserHeapBase THEN Base ELSE Sum(increment)]
    /\ UNCHANGED <<pmmVars, live, current, dirs, heap_left, call>>

AnyFits(increment) == Sum(increment) > Base    \* seeded fault: no USER_HEAP_MAX
Fits(increment) == Sum(increment) > Base /\ Sum(increment) <= UserHeapMax

SbrkGrow(increment) ==
    /\ call = Idle /\ current # 0 /\ increment > 0
    /\ heap_end' = [heap_end EXCEPT ![current] = Base]
    /\ \/ /\ ~Fits(increment)
          /\ UNCHANGED call
       \/ /\ Fits(increment)
          /\ LET first == RoundedUp(Base)
                 past  == RoundedUp(Sum(increment))
             IN  call' = [Idle EXCEPT !.kind = "sbrk", !.at = current,
                     !.first = first, !.end = Sum(increment),
                     !.todo = [i \in 1 .. past - first |-> first + i - 1]]
    /\ UNCHANGED <<pmmVars, live, current, dirs, heap_left>>

SbrkDone ==
    /\ call.kind = "sbrk" /\ call.todo = <<>>
    /\ heap_end' = [heap_end EXCEPT ![call.at] = call.end]
    /\ call' = Idle
    /\ UNCHANGED <<pmmVars, live, current, dirs, heap_left>>

-----------------------------------------------------------------------------
(* scheduler() as far as it matters here.  An exit from which it comes     *)
(* back, as nobody is runnable, leaves the process executing in user mode, *)
(* without a directory.  It is taken to make no call but process_exit, by  *)
(* a fault or SYS_EXIT, until a tick finds somebody runnable.              *)
Leave ==
    \/ current' \in {0} \union live' /\ call' = Idle
    \/ current' = current /\ call' = Exited

ExitKeepsPointer ==            \* seeded fault: page_directory is not cleared
    /\ call \in {Idle, Exited} /\ current # 0
    /\ live' = live \ {current}
    /\ FreeAll(MappedBy(dirs[current]))
    /\ heap_left' = heap_left + HeapPagesOf(dirs[current])
    /\ Leave
    /\ UNCHANGED <<dirs, heap_end>>

(* process_exit frees what its directory maps, the tables and the          *)
(* directory, if it has not done so before.                                *)
process_exit ==
    /\ call \in {Idle, Exited} /\ current # 0
    /\ live' = live \ {current}
    /\ \/ /\ Present(current)
          /\ FreeAll(MappedBy(dirs[current]))
          /\ heap_left' = heap_left + HeapPagesOf(dirs[current])
          /\ dirs' = [dirs EXCEPT ![current] = None]
       \/ /\ ~Present(current)
          /\ UNCHANGED <<pmmVars, heap_left, dirs>>
    /\ Leave
    /\ UNCHANGED heap_end

KillFrees(s) ==                \* seeded fault: frees the pages, keeps the pointer
    /\ call = Idle /\ s \in live
    /\ live' = live \ {s}
    /\ FreeAll(MappedBy(dirs[s]))
    /\ UNCHANGED <<current, dirs, heap_end, heap_left, call>>

(* SYS_KILL and Ctrl+C only mark the process.  One that kills itself goes  *)
(* on.                                                                     *)
Kill(s) ==
    /\ call \in {Idle, Exited} /\ s \in live
    /\ live' = live \ {s}
    /\ UNCHANGED <<pmmVars, current, dirs, heap_end, heap_left, call>>

(* scheduler() from the other calls and the timer.                         *)
Switch ==
    /\ call \in {Idle, Exited}
    /\ current' \in {0} \union live /\ call' = Idle
    /\ UNCHANGED <<pmmVars, live, dirs, heap_end, heap_left>>

Next ==
    \/ \E s \in Slots, image \in Images, ok \in BOOLEAN : CreateBegin(s, image, ok)
    \/ \E s \in Slots : CreateNoDirectory(s)
    \/ \E image \in Images, ok \in BOOLEAN : ExecBegin(image, ok)
    \/ CreateDone \/ CreateFails
    \/ MapPage \/ LoadOutOfMemory \/ SbrkOutOfMemory
    \/ ExecLoaded \/ ExecRefused \/ ExecDone
    \/ SbrkQuery \/ SbrkDone
    \/ \E i \in Increments : SbrkShrink(i) \/ SbrkGrow(i)
    \/ process_exit \/ Switch
    \/ \E s \in Slots : Kill(s)

Spec == Init /\ [][Next]_vars

-----------------------------------------------------------------------------
(* Whoever lives has a directory, which scheduler() loads without a test,  *)
(* and so has who executes, also after it was killed, whatever creates,    *)
(* execs and sbrks fail, unless it has exited and nobody could take over.  *)
Runners == live \union (IF call = Exited THEN {} ELSE {current} \ {0})
RunnersHaveDirectories == \A s \in Runners : Present(s)

(* No frame is mapped twice, in one directory or in two, and none that is  *)
(* mapped is free to be handed out: whatever is killed, fails half-way,    *)
(* shrinks and grows again, no process can write another's memory.         *)
FramesOwnedOnce ==
    /\ \A a, b \in Roots : Present(a) /\ Present(b) =>
          \A p, q \in UserPages :
              /\ dirs[a].pages[p] = dirs[b].pages[q] /\ dirs[a].pages[p] # NoFrame
                    => a = b /\ p = q
    /\ \A a \in Roots : Present(a) => MappedBy(dirs[a]) \subseteq used

(* What is mapped for a process lies in usable memory and not in the       *)
(* kernel's, and so does all that may still be handed out.                 *)
NeverReserved ==
    /\ FreeIsUsable
    /\ \A a \in Roots : Present(a) => \A f \in MappedBy(dirs[a]) : UsableAndClear(f)

(* Who has which page of the kernel heap: a table, or -1, the directory.   *)
PagesOfHeap == UNION {{a} \X ({-1} \union dirs[a].tables) : a \in {b \in Roots : Present(b)}}
FileBuffer  == IF call.kind \in {"create", "exec"} THEN 1 ELSE 0

(* The pages of the kernel heap that directories, tables and the buffer of *)
(* the file being loaded take, and those left, are never more than there   *)
(* are: a table freed twice, or a directory freed while a slot still       *)
(* points to it and freed again by its exit, would make them more.         *)
KernelHeapPagesOwnedOnce == heap_left + FileBuffer + Cardinality(PagesOfHeap) <= HeapPages

(* The page below a process's stack is never mapped, so that an overflow   *)
(* faults: no file reaches it, and the heap stops below it however large   *)
(* the increments are.  (USER_GUARD_PAGE, and the checks of sys_sbrk.)     *)
GuardPageUnmapped == \A a \in Roots : Present(a) => dirs[a].pages[GuardPage] = NoFrame
=============================================================================
