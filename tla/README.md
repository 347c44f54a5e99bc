# TLA+ models of ToxenOS

ToxenOS is a 32-bit single-CPU kernel (`kernel/`, 11,200 lines of C) with its
own file systems, drivers, TCP/IP stack and user programs. This directory holds
specifications of its core, the TLC runs that check them on small instances,
and proofs, checked by TLAPS, of the properties that hold for every instance.
Nine tenths of the 226,000 lines of C in the repository are a copy of mbedTLS,
which is not modelled; the percentages of coverage are small for that reason.

## 1. The system

### How the kernel executes

* One CPU. System calls enter through an *interrupt gate* (`idt.c:164-171`), so
  the kernel runs with interrupts off. The timer, the keyboard and the other
  IRQs only hit user mode (and the boot code).
* A system call is therefore atomic from its entry to the point where it calls
  `scheduler()`; from there the next process goes on. This is the grain of the
  actions in `Process`, `Pipe`, `Tcp` and `Pipeline`. The file systems and the
  heap never call `scheduler()`; what can come between their steps is the loss
  of power.
* `current_pid` in `process.c` is a slot number of the process table, not a
  pid. A process may be executing in any state of its table entry: marked
  `DEAD` (after `SYS_KILL` of itself or Ctrl+C, or after `process_exit` with
  nobody left to run), `SLEEPING` or `WAITING` (when `scheduler()` found nobody
  else). Most of what is hard in this code follows from that.
* There is no idle process. When nobody is runnable, `scheduler()` returns to
  its caller.
* `ticks` moves only in the timer interrupt, hence only while some process is
  in user mode: every loop of the kernel that waits for a deadline depends on
  other processes being runnable.

### Inventory

| component | state | operations | hard parts | what makes it correct |
|---|---|---|---|---|
| processes (`process.c`) | table of 16 slots, kernel-stack bitmap, `current_pid`, `next_pid`, TSS.esp0 | create, exit, kill, wait, sleep, yield, exec, sbrk, `scheduler` | slots, stacks and directories outlive their process; early returns of `scheduler` | one RUNNING slot, unique pids, stacks owned once, no lost wake-up, no starvation |
| timer, keyboard (`timer.c`, `keyboard.c`) | `ticks`, key ring, `sigint_target` | timer tick, key, Ctrl+C | wrap of `ticks`; a target that is stale | sleepers wake, Ctrl+C hits its target |
| pipes (`pipe.c`, `waitqueue.c`) | 16 rings with two wait queues each | read, write, close | block in a loop, woken byte by byte, pids as slots | FIFO, no lost wake-up, end of file |
| VFS (`vfs.c`, `tmpfs.c`) | mounts, global and per-process descriptors | open, read, write, close, pipe | descriptors are global; a number is reused while somebody still has it | a descriptor means one object, every end is counted |
| memory (`pmm.c`, `mm.c`, `paging.c`) | frame bitmap, size classes, page tables | alloc, free, map, sbrk | limits, failing half-way, splitting and merging | owners are disjoint |
| file systems (`txfs.c`, `fat.c`, `ext2.c`) | bitmaps, inodes, tables, directories, snapshots | create, write, mkdir, remove, snapshot | power cuts, handles with old copies, full disk | what has a name is marked taken, and once |
| network (`tcp.c`, `net.c`, `dhcp.c`, `tls.c`) | sockets, sequence numbers, ARP cache | connect, send, recv, close, poll | loss, reordering, timeouts | in-order delivery, no data of another connection, what a send reports |
| drivers (`nvme.c`, `ahci.c`, `e1000.c`, `usb_hid.c`, `ata.c`) | DMA rings | submit, poll | wrap and phase bits | a completion belongs to its command |
| small tables (`env.c`, `klog.c`, `tty.c`) | arrays, rings | set, put, get | full and empty | no overwrite |
| the shell (`user/shell.c`) | a command line's pipes and redirections | `run_pipeline` | failing at any stage, programs that share its descriptors | nothing leaks, a program keeps what it was given |
| display, boot, PCI, other programs, mbedTLS | - | - | - | not modelled |

Components interact by direct calls: the timer calls `scheduler()` and
`net_poll()`; pipes block through `wq_sleep()`, which writes the process table;
the VFS calls the file systems; `process_create_elf`, `process_exit` and
`sys_sbrk` use the frame allocator, and take directories and page tables from
the kernel heap. The only concurrency is between processes, at the calls of
`scheduler()`, and between user mode and interrupts.

## 2. Modules and plan

| module | what | composes | abstract specification | proofs |
|---|---|---|---|---|
| `Process` | process table, scheduler, timer, Ctrl+C | - | - | types, pids, stacks, waits, no crash |
| `Pipe` | a pipe and its wait queues | `Process` | `Stream`, a bounded FIFO | the refinement; wake-ups hit nobody else and none is lost, where pids allow it |
| `Pmm` | frame bitmap | - | - | the scan is first fit, reserved memory is kept |
| `AddressSpace` | directories and frames over create, exit, kill, exec, sbrk | `Pmm` | - | one owner per frame and heap page, the guard page, no null directory |
| `Heap` | blocks and size classes of `mm.c` | - | `Arena`, disjoint pieces of memory | the refinement, blocks and lists, all given back |
| `Vfs` | the global descriptors as functions on tables | - | - | with `Pipeline` |
| `Pipeline` | `run_pipeline` and its programs | `Vfs` | - | counters exact, no pipe left, redirections kept |
| `Txfs` | bitmaps, inodes, directories, power cuts | - | - | what is reachable is marked, one owner per block |
| `Fat` | both copies of the table, chains, directories, power cuts | - | - | chains apart, handles in their files, copies agree |
| `Tcp` | connections over a lossy network | - | - | sockets given back, bytes in order, no gaps, sends arrive |
| `Nvme` | the I/O queues of `nvme.c`, its device | - | `Disk`, requests answered one at a time | the refinement |
| later: `Ext2`, snapshots, small rings, UDP/ARP/DHCP | | | | |

Modules to be proved about have no recursive operators, one action per
operation, and invariants that are conjunctions of named parts. Operators named
as *seeded fault* in a comment are the code with a plausible mistake; putting
one in place of the definition next to it breaks the property it is listed with
in `PROJECT.json` (`mutants`).

The passing runs, with the number of distinct states and minutes they take:

| run | module | states | time |
|---|---|---|---|
| `process_all` | `Process` | 89,076 | 0:20 |
| `process_fair` | `Process` | 20,367 | 0:20 |
| `pipe` | `Pipe` | 168,779 | 1:00 |
| `memory` | `AddressSpace` over `Pmm` | 255,733 | 0:50 |
| `heap` | `Heap` | 20,560 | 0:40 |
| `pipeline` | `Pipeline` over `Vfs` | 1,272,068 | 0:45 |
| `txfs` | `Txfs` | 417,847 | 2:50 |
| `fat` | `Fat` | 76,022 | 0:55 |
| `tcp` | `Tcp` | 118,675 | 1:00 |
| `nvme` | `Nvme` | 263,656 | 0:07 |

The runs `ctrl_c` and `pipeline_ends` end in a counterexample (section 9).

## 3. `Process`

One action per system call, interrupt handler and outcome of
`process_create_elf`, with the names of the C functions.

| variable | code |
|---|---|
| `state`, `pid`, `waiting_for`, `sleep_until`, `kernel_stack`, `page_directory` | the fields of `processes[]`. A stack is its number in the allocator, `Boot` for the boot stack; a directory is "kernel", "own" or "none" (null) |
| `kstack_used`, `current_pid`, `next_pid`, `ticks`, `sigint_target` | the variables of that name |
| `call` | the blocking call whose frame lies on a slot's kernel stack |
| `frame` | the stack on which `regs.esp` of a slot lies |
| `esp0` | TSS.esp0, the stack of the next entry into the kernel, and so the one the current system call runs on |
| `crashed` | the machine unmapped the stack it ran on or loaded a freed directory |

`scheduler(st, until, now, dirs, c)` is the C function, called on the table the
caller has just written, from inside the call `c`. It wakes sleepers, picks the
next slot in a circle, and either returns (so does `c`) or switches (so the
call of the next process returns). A blocking call thus needs no action of its
own to return.

Abstracted: names, arguments, ttys, users, exit codes; the contents of images
and directories (`AddressSpace` has these); `process_count`, which nothing
reads; the per-process descriptor tables, which are empty in every program of
the tree (`SYS_SPAWN_INHERIT` alone fills them and has no caller).
`sys_wait_status` is `sys_wait` and always answers 0: the process it looks up is
dead. `process_create` has no caller. The image a spawn reads from the file
system is in the choice between `process_create_elf` and `CreateFails`.

Two next-state relations, `Next` (no exec, no Ctrl+C) and `NextAll`
(everything), and the constant `ExitedMayCall`: whether a process that was
marked DEAD while it executes goes on to make system calls.

| run | specification | bounds | shows |
|---|---|---|---|
| `process_all` | `SpecAll`, DEAD processes call | 3 slots, 2 spawns, 2 tick values | `TypeOK`, `RunningIsCurrent`, `UniquePids`, `KStackOwnership` survive everything |
| `process_fair` | `FairSpec`, they do not | 3 slots, 3 spawns, quantum 2, ticks wrap at 3 | `WaitTargetAlive`, `NoSharedStack`, `NoCrash`, `WaitReturnsAfterDeath`, `ReadyRuns`, `SleeperWakes` |

Three slots are init and two processes; three spawns make one of the two slots
be reused, and two of them by way of a failed spawn. `ticks` wraps after two or
three steps instead of 2^32, so that every sleep meets the wrap; a wrap that is
no multiple of the quantum is the case of the real counter (2^32 and 10). The
bound on pids is in the guard of `TakeSlot`. `MCProcess` gives the view: fields
that the code writes before it reads them again do not tell states apart.
`process_all` says `CHECK_DEADLOCK FALSE` because a machine that has crashed
stops; `process_fair` checks deadlock.

Fairness: only of the timer. The PIT interrupts for ever and user mode always
has interrupts on (`ring3.c:30`, `process.c:318`), so a tick is never put off
for ever. No system call is assumed to be made.

## 4. `Pipe` and `Stream`, `Vfs` and `Pipeline`

`Pipe` extends `Process`: three processes use one pipe while init waits for the
first of them. A process inside `pipe_read` or `pipe_write` does one iteration
of the C loop per action (`ReadByte`, `ReadSleep`, `ReadReturn`, ...), with
`call` holding how much is left; only the iterations that sleep let another
process in. A close by anyone closes an end for all.

`Stream` is what a pipe promises: a bounded FIFO that only its ends change.
`IsStream` is the refinement, with the ring's contents for the queue.

Run `pipe`: 3 users, a ring of 3 (2 bytes), reads and writes of 2, two byte
values; `NoLostWakeup`, `WaitersUndisturbed`, `IsStream` and
`EofReachesReaders` hold as long as every pid is the number of its slot
(`PidOf <- SlotNumbers`); the first three also with one process whose pid is
beyond the table, in 158,186 states. Two readers and a writer, and the reverse, block on a
full and on an empty ring, and calls block half-way. The view leaves out where
in the ring the bytes lie. The queues have a place for every user, as in the
code (16 and 16). The system may stop (everybody blocked, or exited), so
deadlock is not checked. Fairness: the timer, and that the kernel goes on
executing.

A lone reader of an empty pipe with nobody runnable loops in the kernel with
interrupts off: in the model `ReadSleep` then stutters for ever.

`Vfs` has the descriptors, pipes and driver handles as a record `tables`, and
`vfs_open`, `vfs_close`, `vfs_pipe` as functions on it. `Pipeline` is the
shell's `run_pipeline` at work on it, one system call per action, with up to
two programs that read, write and exit in between. `shell` holds where the
function is (`pc`) and its local variables; `StageDone`, `Cleanup` and `Closing`
are its `goto cleanup` and its loops of `sys_close`. A program's read or write
of a pipe is two steps, because inside the loop it no longer looks at its
descriptor: the pipe may be freed and handed out again in between. `given` is
what a program's descriptors meant when it was started; `dropped` collects the
pipes that `run_pipeline` forgets when a later `sys_pipe` fails. The shell's
`sys_wait` passes when the program is dead (`WaitFor`), and also when every
program sleeps in a pipe, because `scheduler()` then finds nobody to run and
returns (`WaitCutShort`, `left`).

Run `pipeline`: five descriptors, two pipes, two driver handles, two programs at
a time, pipes of one byte, and fourteen command lines that have each kind of
failure at each stage, one of them with an empty last stage, where the wait is
cut short. With five descriptors a third pipe fails for want of descriptors and
the leaks of earlier lines make later ones fail. `DescriptorsCounted` (each
pipe's counts are the descriptors that point to its ends; nothing is closed
twice), `NoPipeLeft` (no failure path leaves a pipe, but those in `dropped`),
`RedirectsStayOpen` (a file given to a program stays what its descriptor means
until it exits, if the wait for it was not cut short). Deadlock is not checked:
a program that waits for ever for an end of file may stop the line.

## 5. `Pmm` and `AddressSpace`

`Pmm` is the frame bitmap: `used`, `free_frame_count`, `alloc_hint`, and the
memory map the boot loader handed over. `pmm_init` computes the two passes over
the map and the marks, with the 32-bit sums that wrap at 4 GB. `Found` is the
scan of `phys_alloc_page`, which looks at the first free bit of each word only.

`AddressSpace` extends it with processes' memory. A system call that maps pages
is a sequence of `MapPage` steps (`call.todo` is the list of pages to come) that
nothing interleaves with, because running out of frames half-way is what
matters. `dirs` holds each slot's directory (which page is which frame, which
tables exist) and the one `sys_exec` is building; `heap_left` counts the pages
of the kernel heap, from which tables, directories and the loader's buffer come.
`Kill` only marks, as in the code; `process_exit` frees what is there. With
nobody runnable its `scheduler()` returns and the process goes on executing,
without a directory (`call = Exited`), until a tick finds somebody; it is taken
to make no call but another `process_exit` meanwhile (section 9).

| property | says |
|---|---|
| `FramesOwnedOnce` | no frame is mapped twice, none that is mapped is free |
| `NeverReserved` | what is mapped or free lies in usable memory and outside the kernel |
| `FirstFit` | no free frame lies below the hint, so the scan by words finds the first there is |
| `KernelHeapPagesOwnedOnce` | no directory or table is given back twice |
| `GuardPageUnmapped` | the page below the stack stays unmapped whatever `sbrk` is given |
| `RunnersHaveDirectories` | whoever lives has a directory, which `scheduler()` loads untested, and whoever executes, unless its own exit came back |

Run `memory`: 16 frames of two units each, three memory maps (with a gap and
ragged edges; enough for two processes; one that ends at 4 GB), two processes,
tables of four pages, images of two segments on one page, increments that grow
into the next table, shrink, and wrap. There is enough of everything for two
processes and too little for both to grow, so that each call fails for each of
its reasons.

## 6. `Heap` and `Arena`

`hdr` and `ftr` are the headers and footers that lie in memory, also stale ones
inside blocks; `free_lists` the lists by size class; `given` what callers hold.
`kmalloc` looks at the head of each class only and splits; `kfree` merges with
the right neighbour and, by the footer before it, with the left one;
`kmalloc_aligned` keeps the raw pointer before the aligned one. The
operators work on a record of the three, so a call is one action.

`Arena` is what an allocator promises: pieces inside its memory, apart from all
that are still held. `IsArena` is the refinement. `BlocksTile`: going from
header to header one comes to the end, and the footers agree. `FreeListsExact`:
the lists hold exactly the free blocks, each once and in its class.
`AllGivenBack`: when all is given back, one free block remains.

Run `heap`: 28 units with headers of 2, a footer and a pointer of 1, a smallest
block of 2 and four classes; sizes 1, 3 and 6 and an alignment of 4. Several
blocks, of three classes and the aligned kind, split and merge in all orders.

## 7. File systems: `Txfs` and `Fat`

Both are built the same way. A call computes, on a copy of the disk, the list
of images the disk goes through, one per block (sector) that the C code writes
and in its order; `DiskWrite` then takes them one by one, and `PowerCut` may
come between any two, forgets what is pending and all handles, and mounts what
is there. The handle's changes are made when the call begins: nobody looks at
them before it ends.

`Txfs`: `disk` has the superblock's counts, both bitmaps, inodes with direct,
single, double and triple indirect pointers, and blocks that are read as what
they were last written as. Handles keep a copy of the inode, as in the code.
`ReachableIsMarked` and `BlocksOwnedOnce` hold at every moment outside a remove;
`UntouchedFilesKeepContents` is an action property: no disk write of a call
changes a file the call is not about. Run `txfs`: a root and two more inodes,
four blocks, one direct pointer and one per indirect block, so that a file of
two blocks has an indirect one; two names for files, one of them in the
directory `d`, two handles, one power cut. The disk gets full in the middle of
appends and of writes. A directory can be opened like a file, as in
`txfs_open_fn`, which does not look at the type; the handle then holds a copy of
the directory's inode, and positions count entries. Three switches leave out
what the code does not survive: `WriteDirs` (directories are truncated when
opened, or written through such a handle, `AsEntry` being the entry that the
data then is), `RemoveOpen` (files are removed while open) and `CutRemove` (the
power fails during a remove); see section 9. The root itself is neither opened
nor removed: paths have at least one name. `BitmapBits` is the size of a bitmap,
one block of 32,768 bits; disks with more blocks are left out, because the
code's search leaves its array there (section 9).

`Fat`: the FAT32 side of the driver. `disk` has both copies of the table and the
entries of directories with their long names; positions count clusters. `safe`
says whether at this moment a power cut leaves names and chains in order: not
during a remove, nor while a directory grows, because there the new cluster is
linked before it is filled with zeros. `lost` is a history of the clusters that
the code is known to lose, and `LostIsKnown` says that there are no others.
`ChainsApart`: each name leads to its own terminated chain. `HandlesStayInFile`:
what is read or written through a handle is never in somebody else's cluster.
`CopiesAgree`: the two tables differ in no more than the entry being written,
and one for each power cut. Run `fat`: five clusters, three entries per
directory cluster, a disk that another system has filled with a file of two
clusters (or none) with a long name, and one that is left alone; programs use
the long and the short name and a directory `d`; one power cut. The root grows
by one cluster and fills up. The directory can be opened too (`fat_open_fn`
looks at no attribute) and is read to no effect, since its entry's size is 0.
The switches `WriteDirs` (what is written through such a handle goes over the
entries), `RemoveOpen`, `RemoveLong` and `CutAnywhere` are off; see section 9.
Contents of files are left out, and so are paths that go through the name of a
file (`ThroughDirs`): `fat_lookup` and `fat_dir_cluster` would take the file's
data for entries, and a create would write its entry into them.

Both views leave out what is in free blocks, deleted names and the order of
equal handles. `CHECK_DEADLOCK FALSE`, because a full disk with no handle open
may be the end.

## 8. `Tcp`

`socks` are the sockets with the fields of the C struct, and four histories
(`got`, what programs have read; `gap`, whether bytes were acknowledged and
thrown away; `told`, the sum of what `tcp_send` has returned; `late`, how many of
its calls ended at their deadline). One process makes the calls; each waits in
its loop (`call`) for `Returns` or for its deadline, `Expire`. A segment may
arrive between any two steps, as `net_poll()` is called from the loops and from
the timer. The other ends are correct TCPs (external): `peer` is what they have sent and received,
`PeerSegments` every segment they may have sent by now, any of which may arrive
any number of times and in any order; loss is that it does not. Segments
of connections that are over go on arriving.

`BytesInOrder`: bytes are of the own connection, none twice, none before an
earlier one, over reuse of sockets; `GapsAreKnown`: bytes are missing only where
the ring overflowed or a FIN overtook data; `SentIsReceived`: `tcp_send` goes on
to the next chunk only when the other end has all before it, and of what it told
its callers no more is missing than a segment for each call that its deadline
ended (such a call returns what it sent, which for the last chunk is its full
length: nothing tells the caller); `SocketsAreHeld`: no failed connect or close
keeps a socket.

Run `tcp`: one socket and two connections after each other, sequence numbers
modulo 16 with the other end's starting at 14 and ours at 11, so that both wrap
(ours after four bytes), a ring of two bytes, segments of two, three bytes from
the other end and four of ours. Once our own numbers have wrapped
`SentIsReceived` says nothing (section 9). Ticks are not counted: a deadline may
pass at any time, whatever has arrived, or never, as the loops run with
interrupts off. No fairness is assumed, and nothing is claimed about calls that
return. The `VIEW` leaves out, of connections that are over, what was sent on
them and how much of it was acknowledged; their other ends go on sending.

### `Nvme` and `Disk`

`Disk` is what the file systems take a drive to be: one request at a time, which
is answered with what is on the disk or fails; a write that failed may have been
done in part, and no other sector ever changes. `Nvme` is the driver after its
initialisation. `call` is the request in progress: `Submit` fills `dma_buf` and
the next entry of `iosq`, and `Poll` takes the next entry of `iocq` if its phase
is the expected one, or `TimeOut` gives up. (No caller asks for more than 128
sectors, so that the loop over chunks never repeats.) `Serve` and `Die` are the
device (external): it takes commands in order, transfers, and posts completions
with its own phase; it may fail a command, done or not, and it may stop
answering for good. The calls spin with interrupts off, so that only the device
moves meanwhile. `IsDisk` is the refinement; what makes it hard is the wrap of
the two queues and of the phase.

Run `nvme`: four sectors, blocks of one and of two sectors, queues of three,
requests of up to three sectors, and identifiers that come back after two laps
of the queues. `AnyAlignment` and `LateAnswers` are off and no request is larger
than a page, as the code survives none of the three (section 9). Deadlock is not
checked: after the device has stopped, or with nobody asking, nothing need
happen. The view leaves out queue entries that both sides are done with.

## 9. Disagreements found

By a run that ends in a counterexample:

* `ctrl_c`: `keyboard.c:67` uses the stored pid as a slot number.
* `pipeline_ends`: the shell closes a pipe's ends "immediately" after the spawn
  (`shell.c:621`), but descriptors are global and counted once, so the program
  just started loses them; once the number is used again what it prints goes
  elsewhere.

By changing an instance:

* `sys_sleep` (and `sys_wait`) of the only runnable process returns at once,
  still marked SLEEPING (`process.c:482` against `:636`): in `process_fair`, the
  invariant `state[current_pid] # "SLEEPING"`.
* The shell closes redirections "AFTER waiting (child needs them open while
  running)" (`shell.c:623`, `:652`), but in `a < f |`, with an empty last stage,
  `a` sleeps in a full pipe, nobody is runnable, `sys_wait` returns at once
  (`process.c:482`, `:618`) and `f` is closed under `a`: `RedirectsStayOpen` in
  `pipeline` without the condition on `left`.
* After `sys_exec` the process uses init's boot stack (`ring3.c:16` against
  `process.c:576-578`): `NoSharedStack` under `SpecAll`.
* A killed process that goes on and spawns frees the stack it runs on
  (`process.c:266` against `:396-400`): `NoCrash` with `ExitedMayCall = TRUE`.
* Wait queues store pids and index the table with them (`waitqueue.c:21`,
  `:39`): `WaitersUndisturbed` and `EofReachesReaders` in `pipe` with
  `PidOf <- OneSlotOn`, and `NoLostWakeup` stated for all processes.
* TXFS clears the bitmaps before the name goes: a power cut in between leaves a
  name that leads to free blocks (`CutRemove = TRUE`). A file removed while open
  is written to through the handle, into blocks that are somebody else's by then
  (`RemoveOpen = TRUE`).
* TXFS opens, truncates and writes a directory as if it were a file
  (`txfs.c:509-535`, `:568-579`; `vfs.c:147-184` does not look either). What is
  written becomes entries that lead to inodes that are free
  (`ReachableIsMarked`); the stale copy of the inode that a write brings back
  takes back what mkdir and create added since, so that a new block is shared or
  an old pointer leads to a block that is somebody else's (`BlocksOwnedOnce`);
  and a truncation takes all names below away (`UntouchedFilesKeepContents`): all
  three in `txfs` with `WriteDirs = TRUE`.
* FAT does the same (`fat.c:650-655`, `:811-813`): what is written through a
  handle on a directory goes over its entries, and can give a name to any
  cluster. `ChainsApart`, `HandlesStayInFile` and `LostIsKnown` in `fat` with
  `WriteDirs = TRUE`, where it gives a name to the second cluster of a file.
* FAT finds the entry to delete by its short name only (`fat.c:987-1031`): a
  remove by the long name frees the chain and leaves the entry, which the next
  file then shares (`RemoveLong = TRUE`; `fat.c:9-12` lists long names and
  remove as supported). The same holds of the power failing during a remove or
  the growth of a directory (`CutAnywhere = TRUE`) and, for handles, of removing
  open files (`RemoveOpen = TRUE`).

* A usable region that lies inside the last frame below 4 GB: rounding its base
  up wraps to 0 and all frames below it become free, the kernel's too
  (`pmm.c:61`; `NeverReserved` in `memory` with such a region in a map).
* After a time-out `nvme_io` takes the late answer for that of the next command,
  because the poll compares the phase only (`nvme.c:298`): `IsDisk` in `nvme`
  with `LateAnswers = TRUE`.
* Drives with blocks of 4096 bytes, which `nvme.c:323` names as supported: a read
  of one sector gives the first sector of the block, and a write of one sector
  overwrites the other seven. FAT, ext2 and `SYS_DISK_WRITE` ask for single
  sectors (`IsDisk` in `nvme` with `AnyAlignment = TRUE`).
* `SYS_DISK_READ` and `SYS_DISK_WRITE` accept 128 sectors (`syscall.c:573`,
  `:586`), but only `prp1` is ever set (`nvme.c:287`): what is beyond the first
  page of the transfer buffer is not transferred to or from it (`IsDisk` in
  `nvme` with `Page = 1`). Of the kernel's own requests only those
  of ext2 with blocks over 4096 bytes are as large.

Met while reading, and in the models where they matter, without a property:

* An exit with nobody runnable comes back (`process.c:474-483`; "process_exit()
  does not return", `idt.c:76`), and the process goes on DEAD and with a null
  `page_directory`, on a directory that is free to be reused. A fault makes it
  exit again. What another call would then do is left out of `AddressSpace`:
  `sbrk` would take what lies at address 0 for a page directory.
* Memory: `sbrk` with a large decrement wraps to an address above 3 GB;
  `sys_exec` frees neither the old directory nor resets `heap_end`; a page that
  gets no table is silently not mapped; killed processes, failed creates and
  failed `sbrk`s keep their frames for ever (the comment at `process.c:269`
  takes the directory to have been freed by `process_exit`); a region that ends
  at 4 GB is not used; `free_frame_count` counts reserved frames as free.
* Heap: `kmalloc` fails although a block fits when that is not the head of its
  class; a size near 2^32 wraps to 0.
* TXFS: the bitmap of blocks is one block of 4096 bytes (`txfs.c:91`), but
  `total_blocks` is the drive's number of 512-byte sectors, or 204,800
  (`:499-502`), less 36. Once 32,768 blocks are taken the search goes on past the
  end of the array (`:108-113`), sets bits there that are never written to the
  disk, and hands out blocks that the drive of an eighth as many does not have.
* TXFS: a create under a path whose parent is a file writes an entry into that
  file's data, and one whose parent is missing goes to the root
  (`txfs.c:558-563` against the header, 5-7); directories that are not empty may
  be removed and leave what is below; double and triple indirect blocks are
  never freed; two handles of one file lose blocks to each other.
* FAT: `rmdir d/.` frees the clusters of `d` and leaves its entry (the models'
  paths have no dots); a write never updates the entry's size and first cluster (`fat.c:787-824`
  against "Write / append to existing files" in the header), and what it adds
  past the end is linked to the table's entry of the end mark: a lost cluster,
  and on disks over 1 GB a foreign sector that is overwritten; append and trunc
  are not looked at; FAT12 entries that cross a sector are written wrong
  (`fat.c:264`); mkdir makes a second directory of the same name; entries of
  long names stay behind and belong to whatever comes next; a create in a
  missing directory loses a cluster. One static `fat_fs` (and `ext2_fs`) is
  replaced by the next drive that is mounted.
* TCP: `tcp_send` returns at its deadline what it has sent, the chunk nobody
  acknowledged included (`tcp.c:306`), so that its caller takes bytes that were
  lost for sent; the unsigned `snd_una < seq` means nothing when our numbers
  wrap, the next chunk then goes at once or at the deadline; the deadlines
  themselves never come while nobody runs in user mode, as the loops have
  interrupts off and `ticks` stands still (`tcp.c:268`); the window announced is
  the whole ring, whatever it holds, so that bytes are acknowledged and dropped;
  a FIN is taken at any sequence number; repeated data is not acknowledged
  again; nothing is sent again; exit and kill close no socket. `net_ping` and
  `net_udp_recv` wait with interrupts off like `tcp_connect`.
* Shell and VFS: when the second `sys_pipe` fails the earlier pipes leak; so do
  the redirections of background lines and of lines that fail at a later stage;
  a read or write of the wrong end of a pipe falls through to the stale driver
  handle of the descriptor.

## 10. Proofs

All proofs are for any values of the constants that the named assumptions allow:
any number of slots, pids, tick width, quantum and sleep lengths
(`ProcessAssumption`), any memory map and number of frames (`PmmAssumption`),
any sizes of heap, tables and stacks, images and increments
(`AddressSpaceAssumption`; `NoDirectory` says that the null pointer is no
directory), any ring, wait queue and number of users of a pipe
(`PipeAssumption`), any heap, header, footer and number of classes
(`HeapAssumption`), any number of sockets, ring and width of the sequence
numbers that is more than a ring and a stream (`TcpAssumption`), any drive and
depth of queues (`NvmeAssumption`; `NoRequest` says that no request is no
request), any sizes of a TXFS disk of at most as many blocks as a bitmap has
bits, its pointer blocks and directories (`TxfsAssumption`), any number of FAT
clusters, entries and handles (`FatAssumption`; the disks put in have the
driver's format and equal tables), any sizes of the tables of descriptors, pipes
and files (`VfsAssumption`), any finite number of programs and any command lines
(`PipelineAssumption`). The model values and TLC's bounds play no part in them.
Hypotheses beyond these stand in the theorem, and say where the code fails
without them.

* `ProcessProofs`, about `SpecAll`. `SchedulerEffect` says once what a call of
  `scheduler()` does: it kills and revives nobody, starts and ends no wait,
  marks only the slot it goes to RUNNING. `QuietSteps` says that every step but
  a spawn moves no pid and no stack, and that whoever is alive or executing
  after it was so before. With these:
  * `TypeCorrect`: `TypeOK`, inductive as it stands;
  * `OneRunning`: `RunningIsCurrent`, inductive with `TypeOK`;
  * `PidsAreUnique`: `UniquePids` is not inductive, because unused slots all
    have pid 0, as init has, and a DEAD process that executes can be entered in
    the table again. `PidInv` adds that pids are below `next_pid`, that no two
    slots share a pid other than 0, and that nobody but slot 0 lives with 0;
  * `StacksAreOwned`: `KStackOwnership` needs in addition that only slot 0 holds
    the boot stack (`StackInv`). The second part is about `Spec`:
  * `NobodyWaitsForTheDead`: the loop over the waiters misses none
    (`KillLeavesNoWaiter`), because the pids of the dead one and of the targets
    still alive differ. With Ctrl+C this is false: the loop then compares with a
    slot number.
  * `WaitIsForTheChild` (`WaitReturnsAfterDeath`), with `ExitedMayCall = FALSE`:
    `WaitInv` follows each process that is switched out inside `sys_wait`; it is
    WAITING for the pid it gave, or that pid is gone for good, which a spawn into
    the dead child's slot does not change, because a new pid is never one that
    somebody waits for.
  * `StacksAreSafe` (`NoSharedStack`) and `KernelNeverCrashes` (`NoCrash`), with
    the same assumption, from `CpuInv`: `esp0` is the stack of the slot the CPU
    is in, everybody alive or executing has a mapped stack, everybody alive a
    directory. Both assumptions are needed; section 9 says which counterexamples
    there are without them. The third part is about `PipeSpec`, whose steps are
    steps of processes:
  * `PipeIsStream`: the refinement `IsStream`. `RingOK` says where head and tail
    may be; a step of the ring is a step of the queue because remainders of
    numbers less than a turn apart differ (`OneTurn`);
  * `PipesLeaveWaiters`: `WaitersUndisturbed`, if `PidsFit`: no process has the
    number of another one's slot as its pid. `QueueInv`: a queue holds only pids
    of processes blocked in a call of its kind, each once;
  * `NoWakeupIsLost`: `NoLostWakeup`, which is about processes whose pid is
    their slot number, if besides the queues have a place for all other
    processes, which 16 and 16 are. Seen alone it is not inductive: `WakeInv`
    counts. As long as such a process sleeps in a read, the bytes in the ring
    are no more than the readers that are already awake for them, and the other
    way round for room and writers. `PidsFit` is true until a slot is used a
    second time, and again when every process has its own slot's number or one
    beyond the table, as it is once the pids, which only grow, have passed 15
    and the processes in between are gone. It admits processes that never wake
    from a pipe and whose entries fill the wait queues; the theorems say that
    nobody else suffers. In between, while a pid is another slot's number, both
    fail (section 9).
* `MemoryProofs`, about `Spec` of `AddressSpace`. `AllocatorSteps` reduces every
  step to what it does to the bitmap: nothing, one allocation, or freeing a set.
  * `AllocatorIsFirstFit`: `FirstFit` from `FitInv`, that no free frame lies
    below the hint or beyond `total_frames`. The second half is what makes the
    first pass of the scan see all of them (`FitFound`); that a least element
    exists comes from < being well-founded (`LeastExists`).
  * `FramesHaveOneOwner`: `FramesOwnedOnce` from `OwnInv` and `FitInv`, with one
    fact for each way a directory changes (`FramesOwnedOnce` survives pages
    unmapped, directories dropped or moved, a free frame mapped).
  * `StackOverflowFaults`: `GuardPageUnmapped` from `DirInv`: a call in progress
    has a directory, and the pages it still has to map are user pages other
    than the guard page. For `sbrk` this is arithmetic on rounding
    (`DivisionIsMaximal`, `TimesSum`, `HeapPagesBelowTop`): the last page of a
    heap that ends at or below `USER_HEAP_MAX` lies below the guard page.
  * `RunnersKeepDirectories`: `RunnersHaveDirectories`, also from `DirInv`. It
    leaves out the process whose own exit came back with nobody runnable, for
    which it is false;
  * `ReservedMemoryIsKept`: `NeverReserved`, if `BootLayout`: the kernel and the
    boot block end, and every usable region begins, before the last frame below
    4 GB (or the region reaches beyond it). Without the last part the code frees
    what it should not (section 9). `Above` and `Below` say what rounding up
    and down does when sums wrap; after `pmm_init` what is mapped or free only
    moves between the two (`HandledStep`);
  * `HeapPagesHaveOneOwner`: `KernelHeapPagesOwnedOnce` from `HeapInv`, which
    adds that the pages in use are finitely many. The pages are a set of pairs,
    a directory and a table of it, so that no sum is needed: one pair more when
    `heap_left` goes down by one, and a one-to-one map between the two when
    `sys_exec` hands its new directory over.
* `HeapProofs`: all that is checked of the kernel heap. `Heaped(m, B, P, n, x)`
  says of headers, footers and lists `m` that the blocks `B` lie side by side,
  that `n` units are in use, that the lists hold the free blocks but `x`, and
  that no two free blocks but `x` are neighbours; `x` is the block a call is
  working on. Each helper of `mm.c` has a lemma (`Removes`, `Pushes`,
  `Resizes`, `Marks`), and each part of a call one on top (`Carves`,
  `MergesRight`, `Coalesces`, `Takes`, `Frees`). What is in use is a sum over
  the blocks; `P`, the sum up to each block, makes it a local statement. `Held`
  relates the blocks to what callers hold.
  * `HeapIsArena`: `IsArena`, and with it that the padding of `kmalloc_aligned`
    is enough for every alignment;
  * `BlocksAlwaysTile` and `FreeListsAreExact`. `WalkVisits` shows that going
    from header to header visits `B` and nothing else; it and the existence of
    the recursive function `Walk` are shown by looking at a least counterexample
    (`LeastExists`), as there is no induction;
  * `HeapIsGivenBack`: `AllGivenBack`.
* `NvmeProofs`: `DriverIsDisk`, the refinement `IsDisk`, from `DriverInv`: an
  entry of the completion queue has the device's phase if it was posted in this
  lap and the other one if not; the device has nothing to do or has the one
  command the driver waits for. The hypotheses are the three that the code needs
  (section 9): requests are whole blocks of the drive and fit a page, and no
  answer comes after its time-out.
* `TcpProofs`, about any interleaving of the program's calls with lost, repeated
  and reordered segments.
  * `SocketsAreGivenBack`: `SocketsAreHeld` from `TableInv`, which adds that the
    ports of sockets in use are different and older than the next one;
  * `StreamsAreOrdered` and `StreamsHaveNoGaps`: `BytesInOrder` and
    `GapsAreKnown` from `StreamsOK`, which relates the text a socket has
    received, the acknowledgement number and what the other end has sent.
    `SameRemainder` and its kin are why a segment of the wrong place is never
    taken for the next one as long as a stream is shorter than the sequence
    numbers;
  * `SendsAwaitTheOther`: `SentIsReceived` from `SendersOK`, which counts what
    was sent and acknowledged on each connection, and `OwedInv`, which adds up
    what the calls were told, what the one in progress has sent and how much of
    it the other end has; both hold whatever our numbers do, `OwedInv` says
    something while they have not wrapped (`Unwrapped`, `AllAcknowledged`).
* `PipelineProofs`, about command lines of any length with programs that run
  between any two system calls. Opening, closing and making pipes have a lemma
  each that says what it does to the descriptors and that the counters follow
  (`OpenCounts`, `CloseCounts`, `PipeCounts`, from `Recounts`: giving one
  descriptor another meaning moves one count down and one up).
  * `TypesAreKept`, and `CountersAreExact`: `DescriptorsCounted`, from
    `TableInv`, which says how far `run_pipeline` has come: how long its lists
    are at each place, so that no index is out of range and what it closes is a
    descriptor (`Progress`).
  * `NoPipeIsLeft` (`NoPipeLeft`) and `RedirectsAreKept` (`RedirectsStayOpen`),
    from `ShellInv`. The descriptors that the shell's variables still are to
    close are in five places: read ends, write ends, redirections to be closed
    after the wait, those about to be closed, those of the stage it is at. No
    descriptor is in two places or twice in one, each means what it was made for
    (`Once`, `Apart`), and every descriptor of a pipe is in one of them, unless
    the pipe was dropped (`Accounted`). That makes the cleanup complete, and
    keeps a number from being closed that another `open` has been given since. A
    file that a live program was given is not about to be closed; if it is to be
    closed after the wait, the program is one still to be waited for (`Kept`).
    Programs whose wait was cut short do not count (section 9).
    While the pipes are made both ends of each are there (`Paired`), so that a
    failing `sys_pipe` drops whole pipes.

* `TxfsProofs`: `DisksAreSound`, the inductive invariant `IInv`, and from it
  `NothingReachableIsFree` (`ReachableIsMarked`), `NoBlockIsShared`
  (`BlocksOwnedOnce`) and `OtherFilesKeep` (`UntouchedFilesKeepContents`), if
  directories are opened only to be read, open files are not removed and the
  power stays on in a remove (`WriteDirs`, `RemoveOpen` and `CutRemove` are
  FALSE: section 9 has the counterexamples). What a disk image must be like is
  `Sound(d, versions, own, named)`: `own` gives each block that anything points
  to the one place that does, `named` each inode the one entry that has its
  name. The stale copies of inodes in the handles of files are further
  `versions` of the inode: two of them may lead to different blocks from the
  same place, never to one block from two. (A directory's stale copy is only
  read from.) That is why two handles that grow one file lose blocks but share
  none. `Settled` says it of the image a call ends with, `Saved` of every image
  on the way (each write of `txfs_get_block` and `txfs_dir_append` is made
  before the pointer to what it writes), `Live` that what a handle holds is
  still a file. For these, reachability two levels deep plays no part: they hold
  of every inode in `named`.

  `Chained` is about two images in a row: from each to the next no file but the
  one the call is about changes (`Untouched`), and a remove changes entries and
  bitmaps only (`SameFiles`). A write keeps the other files because the block it
  fills has one owner (`DataStep`), a new pointer because the slot was empty
  (`LinkStep`), a new entry because no entry that is in use is in its place and
  the block is one of a directory (`NameStep`): a way through pointers and
  entries that led to a file leads there still (`CalmStep`, `NamedGrows`). For
  the entry to go to a directory `OtherFilesKeep` needs `NamesApart`: no path goes
  through a name that files have. `txfs_open` and `txfs_mkdir` do not look whether
  the parent is a directory (section 9), and without the hypothesis the property
  is false. The paths of the run satisfy it.

  `FreeEach`, `txfs_get_block` and `Walk` are recursive functions, whose values
  are followed from place to place; that they exist is shown as in `HeapProofs`.
* `FatProofs`, from the two halves of an invariant.
  * `CInv` (`DisksAreTyped`) is about the two tables, for every use of the
    driver: there are at most `cuts` entries outside of which they will agree
    when the call is over, and on the way one more is being written. From it
    `CopiesDifferLittle` (`CopiesAgree`).
  * `LInv` (`DisksAreLaidOut`), if directories are only read, files are removed
    closed and by their short names, and the power stays on in a remove and
    while a directory grows (`Kind`; section 9 has the counterexamples), from
    disks that are laid out and for all paths that go through directories. A layout
    `m` names clusters, among them all that names lead to, and says of each in
    which chain it is, where in it, at which place the entry of that chain is
    and how deep below the root. It forbids two chains to meet and a chain to
    run into itself without a word about reachability. There must be one of the
    image that the call ends with, in which also every handle is at a cluster
    of the file or directory it was opened for, and one of each image after which the power
    may fail. From it `NoClusterIsShared` (`ChainsApart`) and `NoHandleStrays`
    (`HandlesStayInFile`).
  * A new cluster is in no layout until its entry is written (`Fresh`,
    `NewEntry`); a write through a handle links nothing, since the end mark is
    no cluster (`WroteCluster`). A remove is the hard step: it frees the chain
    and then walks the path again, on the changed disk. The chain lies deeper
    than every directory on the path, so the walk is the same (`WalkSame`,
    `FreedApart`), and what has the short name there is what was found before
    (`FoundAgain`). `HostLayout` in `MCFat` shows that the disks of the run are
    laid out.

Only model-checked:

* the liveness properties (`ReadyRuns`, `SleeperWakes`, `EofReachesReaders`):
  liveness under fairness is out of the prover's reach;
* `LostIsKnown` of `Fat`. It looks two directories deep, as far as the run's
  paths go; with longer ones it is false as it stands.

## 11. Not modelled

The C code of the system itself has about 20,500 lines, 11,200 of them in
`kernel/`; the other 205,700 are the vendored mbedTLS.

* `ext2.c`, `tmpfs.c`, TXFS snapshots: planned after what is there. A snapshot
  shares all blocks with the live tree and nothing protects them, so that most
  of what holds of `Txfs` fails after one.
* `net.c`, `dhcp.c` (ARP, IP, UDP, ICMP, leases): to `Tcp` an ARP miss is a lost
  segment. `tls.c` hands the socket functions to mbedTLS.
* Drivers: of `nvme.c` the initialisation and the admin queue; `ahci.c` and
  `ata.c`, which have one command at a time and poll; `e1000.c` and `usb_hid.c`,
  rings that are planned. In the latter `cmd_submit` flips the cycle bit of the
  link entry (`usb_hid.c:199`) in the way that `hid_queue` says would be wrong
  (`:300-301`); it matters once a controller has been given 15 commands.
* The key ring, `klog.c`, `env.c`, `tty.c`: small tables, planned with the
  drivers.
* Of the VFS, the mount table, directories, stat and the per-process
  descriptors `fd_table_*`, which no program fills.
* Of the FAT driver, FAT12 and FAT16.
* Of the exceptions, what is printed; of the keyboard, scan codes.
* Display, fonts, boot, PCI, CPU tables, image tools and the build: straight
  code that writes hardware or files once.
* User programs other than `run_pipeline`: they are clients, and what they may
  call in any order is in the models of the kernel.
* mbedTLS: third-party, no concurrency of its own here.
