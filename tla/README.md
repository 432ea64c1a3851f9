# Verification of the xv6 container kernels

The repository holds two kernels derived from xv6: `xv6/`, with message
passing between processes, and `xv6-structured/`, with containers. They share
most files byte for byte; `proc.c`, `sysfile.c`, `sysproc.c`, `fs.c`,
`kalloc.c` and `vm.c` differ. This directory models their core in TLA+,
checks the models with TLC on small instances and proves most of their safety
properties with TLAPS for instances of any size.

Where a file is the same in both kernels the definitions name the lines of
`xv6-structured/`, and a definition that groups the steps of particular
functions (`CommitStep`, `Namex`, `InWrite`, ...) names those functions in the
copy in `xv6/`, so that both copies can be found from the map. Where a `Next`
or `Enter` is the choice of a system call it names `syscall()` or `trap()`;
groupings that translate no lines of their own are not in the map.

## Inventory

| Component | State | Operations | What makes it hard | What makes it correct |
|---|---|---|---|---|
| Process table (`proc.c`, `trap.c`, `sysproc.c`) | slots with state, pid, parent, channel, killed; locks `ptable.lock`, `tickslock`; per CPU the running process | fork, exit, wait, kill, sleep, wakeup, yield, scheduler, timer | the lock travels through `swtch`; sleep swaps locks; exit, wait and kill race | no lost wakeup, one CPU per process, no orphan, nobody starves, killed processes end |
| Containers (`xv6-structured/proc.c`) | table of containers with process lists and stack pages, `containerNum`, `allocFor`, per CPU scan positions | addContainer, joinContainer, conalloc, fork in a container, scheduler with one pass per container, logs and queries | globals without locks, two-lock protocols, stale list entries | a runnable process is listed, lists bound containers, stacks are private, every process runs |
| Scheduler log and container manager (`xv6-structured/proc.c`, `cm.c`) | `scheduler_log`, `scheduler_history`, a mark per list entry, a flag per container | turn the log on, poll it, mark, test and clear in every scheduler | four flags without a common lock | nobody passes the barrier before every process was picked |
| Messages (`xv6/proc.c`) | a circular queue and a request flag per slot | send, recv | flag set outside the lock, channel shared with wait | messages arrive in order, each once |
| Spin locks (`spinlock.c`, `trap.c`) | holder of a lock; per CPU the interrupt flag, `ncli`, `intena` | acquire, release, pushcli, popcli, sched, interrupts | a thread takes a lock on one CPU and releases it on another; a handler in between | interrupts off with a lock, on without |
| Log (`log.c`) | log header and blocks on disk, reservation counters | begin_op, log_write, end_op, commit, recovery | crash at any block write, group commit | atomicity, reservations suffice, sleepers are woken |
| Buffer cache and disk (`bio.c`, `sleeplock.c`, `ide.c`) | buffers with reference counts, LRU list, request queue | bread, bwrite, brelse, acquiresleep, iderw, ideintr | recycling against lookup, interrupts, kill | one buffer and one lock per block, no update lost, requests answered |
| Inodes and names (`fs.c`, `sysfile.c`) | inodes, links, directories on disk; cache with reference counts and locks | open, create, mkdir, mknod, link, unlink, chdir, close, namex, iput | reference before lock, two locks at a time, free on last put | counts cover links, nobody uses a freed inode, directories form a tree, no deadlock |
| File contents (`fs.c`, `file.c`) | block bitmap, block lists, offsets, file table | balloc, bmap, readi, writei, dup, read, write | offsets shared after fork, bounds | blocks belong to one file, reads return what was written |
| Pipes (`pipe.c`) | ring with wrapping counters, open ends | pipewrite, piperead, pipeclose | two channels, one lock, kill and close | a FIFO of bytes, nobody sleeps through its event |
| Console and keyboard (`console.c`, `kbd.c`) | ring with three wrapping counters; static modifiers of `kbdgetc` | consoleintr, consoleread, kbdgetc | interrupt against readers, editing at the wrap, escaped keys | lines arrive once and in order, entered text stays, no modifier is stuck |
| Memory (`kalloc.c`, `vm.c`, `exec.c`) | free list, page tables, sizes | kalloc, kfree, fork, exec, sbrk, exit, wait | failure of any allocation in the middle | a page has one owner, a process the pages of its size, memory is private |
| Disk image (`mkfs.c`) | the image file | layout, root directory, files, bitmap | rounding | the kernel finds a consistent disk |
| User programs (`sh.c`, `umalloc.c`, `usertests.c`, ...) | none in the kernel | | | |

How they interact: system calls enter through `trap()`; everything that waits
uses `sleep`/`wakeup` of the process table; files reach the disk through
`sysfile.c`, `fs.c`, the log and the buffer cache; containers add a list the
scheduler consults before the process table.

## Modules

`ProcTable` is the state under `ptable.lock` and the operations that the
kernels share. A critical section is one action; whatever the code does
without the lock, or after passing it on, is a separate action. `phase` says
what each CPU does (`sched`, `scan` with the lock, `resume` after `swtch`,
`run`, `preempt` at the end of a timer trap, `swtch` on the way back), `pc`
says where a kernel thread is. `BaseKernel` adds the fork and the round-robin
scheduler of `xv6/`. `ContainerKernel` adds containers and the scheduler of
`xv6-structured/`; `allocFor` and `containerNum` are read and written in steps
of their own, because the code takes no lock for them. `MCContainerKernel`,
the module of the `container_*` runs, gives the two states from which they
start.

`SchedLog` models the part of that scheduler which `ContainerKernel` leaves
out, the log of a scheduling session, together with the two sides of the
barrier in `cm.c`. Each read or write of a flag outside `ctable.lock` is a
step. It starts when the manager has seen all its processes in the containers.

`Log` models `log.c` with the disk as `home` blocks, log blocks and header; a
crash may happen before and after every block write, and recovery itself can
be interrupted. `AtomicDisk` states what the log promises, and `CrashAtomic`
is the refinement. `BufCache` models `bio.c`, `sleeplock.c` and `ide.c`;
`BlockStore` is its promise: one value and one owner per block
(`IsBlockStore`). `Pipe` models `pipe.c` with counters that wrap at `UMAX`;
`Fifo` is its promise (`IsFifo`).

`FileTree` models the inode layer and the system calls on names. The sleep
lock of an inode is its holder; a step covers what a process does while it
holds the lock and ends where another lock is needed. `todo` is the list of
inodes a process must still `iput()`; `iput()` itself has four steps, because
its test, the clearing of the inode and the drop of the reference are three
critical sections. `MCFileTree` names the system calls of the two processes.

`FileData` models what `FileTree` leaves out: the bitmap, `bmap()` with its
indirect block, `itrunc()`, `readi()`, `writei()`, the table of open files and
the calls on descriptors. Its disk is the `Image` that `Mkfs` computes, the
translation of `mkfs.c`. `ByteFiles` is its promise (`IsByteFiles`): files are
sequences of bytes with shared offsets.

`Memory` models `kalloc.c`, `vm.c` and the calls that build or destroy an
address space; each `kalloc()` and `kfree()` is a step, and each `kalloc()`
finds memory exhausted in some behaviour. `PrivateMemory` is its promise
(`IsPrivate`): programs see a memory of their own. `SpinLock` models
`spinlock.c` with the interrupt flag, `sched()` and the gates of `trap.c`:
every context has the list of lock operations that it has still to do, and an
interrupt puts those of its handler in front. `Console` models the input ring
of `console.c` and implements `LineInput` (an edit line and a queue);
`Keyboard` models `kbdgetc()` with the keys that are really down. `MsgQueue`
models the messages of `xv6/proc.c` down to the circular list of pages;
`Mailbox` is its promise, a queue per receiver (`IsMailbox`).

`MCParts` puts seven of these modules, which share no state, into one run: a
variable `part` says which one a behaviour is about.

The proofs are in modules of their own: `ProcTableProofs`, `BaseKernelProofs`
and `ContainerKernelProofs` for the kernels, `LogProofs`, `FileTreeProofs` and
`FileDataProofs` for the file system, `PoolProofs` for what hands out buffers
and pages (buffer cache, memory), `PartsProofs` for pipe, console, keyboard,
messages, scheduler log and spin locks. `SoundImage` says what an image must be for the theorems about `FileData`, and `MCFileData`,
the module of `file_data`, makes TLC evaluate that for the image of the run.
Definitions marked "Mutant" are variants of a definition with a plausible bug;
each property is violated under one of them.

## Runs

| Run | Instance | What it shows |
|---|---|---|
| `base_safety` | 2 CPUs, 3 slots, pids to 4 | no exit or tick is missed, one CPU per process, no orphan |
| `base_liveness` | 1 CPU, 3 slots, pids to 3 | orphans are reaped, killed processes exit, runnable processes run |
| `container_kernel` | 1 CPU, 3 slots, pids to 5, host and up to 2 containers with two entries each, from two states after boot | listed, bounded, private stacks; the passes over the lists reach everybody |
| `container_leave_stuck` | the same states, with 1 container and one stack page | violated: a process that leaves can be lost (below) |
| `log_crash` | 3 threads, 2 blocks, log of 2 blocks | atomic groups, reservations, sleepers wake |
| `buffer_cache` | 2 threads, 3 blocks, 2 buffers | one store of blocks, exact counts, every request served |
| `fs_names` | 2 processes, 3 inodes, 2 names | exact references, nothing freed in use, covered links and a tree |
| `fs_deadlock` | the same | violated: create and unlink deadlock (below) |
| `file_data` | 2 processes, 12 blocks of 2 units, 2 direct and 2 indirect blocks, 5 system calls | byte files, exact bitmap, write-through inodes, operations that fit the log |
| `fs_dotdot` | 4 inodes, one process uses `..` | violated: an entry in a directory that has been removed (below) |
| `mkfs_hole` | a root directory that fills its blocks exactly | violated: a block of the directory that is not on disk (below) |
| `parts` | see below | seven parts: `OneOwner`, `SizeExact`, `IsPrivate` (memory); `NoLostWakeup`, `IsFifo` (pipe); `NoLostLine`, `IsLineInput` (console); `NoStuckModifier` (keyboard); `IsMailbox` (messages); `InterruptsExact` (spin locks); `BarrierExact` (scheduler log) |

Why the bounds are enough. Three slots give init, a parent and a child, hence
every role in exit, wait and re-parenting; pids above the slots make slots get
reused; two CPUs give every hand-over of a lock, and the proofs cover any
number of each. `MaxSleep` 1 puts the last tick next to the sleep. The
log is smaller than two reservations, so `begin_op()` waits, commits overlap
with waiting threads and the log fills up. Three blocks for two buffers force
recycling. The ring is shorter than a write, and `UMAX` is a multiple of
`PIPESIZE`, as 2^32 is of 512. Three inodes allow a directory in a directory,
one too few for the calls, so that `ialloc()` also fails.

In `container_kernel` a list has two entries: a live one stands beside a
stale, a free or a second live one, `curLocation` moves from one to the other,
and the list fills up, so that fork and join also fail. All states from boot
are too many for a check of liveness. The runs therefore start from two
states that TLC has found reachable from boot, with a process of container 1
first on its list and behind it a zombie or a free entry. `NCONT` 3 leaves one
more container to create, and two overlapping calls of `addContainer()` can
both set it up: both read `containerNum` before either writes it, and one
increment is lost. Overlapping creations that both count need a fourth
entry. The safety properties are proved from boot for every value of these bounds;
`ContainerRuns` is checked from these two states only.

In `file_data` five calls (`NCALLS`) open a file twice, share it by fork or
dup, write into the indirect block in several chunks, remove the name and
close; 12 blocks (`FSSIZE`) are fewer than two such files need, so that
`balloc()` panics in some behaviours. In `parts`: 13 pages (`NPAGES`) let two
processes exist, the second one under construction, and exhaust the memory in
the middle of every loop; the pipe has a ring of 2 and `UMAX` 4, writes of up
to 2 bytes; the console has a ring of 3 and counters that wrap at 6 (`UintMax`,
a multiple of the ring, as 2^32 is of 128), reads of 2; the controller of the
keyboard holds 3 bytes (`PortMax`), an escaped key and another; three pages
(`NNODES`) and two senders for one receiver; two threads on two processors
with two locks; two processors, a container with two processes and one with
one. The bounds `NNODES`, `PortMax` and `NCALLS` cut behaviours off by
disabling the step that would exceed them.

`parts` uses symmetry. The writers of the pipe, the senders and the threads
are one pair of model values, the readers of the console, the messages and the
processors another: a behaviour is one of one part, so that sharing them adds
nothing, and each pair occurs in no ordering and no `CHOOSE`. There is no
liveness in that run, where symmetry would not be sound.

Deadlock is checked except in `parts`, where everybody may have closed its end
of the pipe, been killed or passed the barrier, in `file_data` and
`mkfs_hole`, where the calls are bounded, and in the `fs_*` runs, where a
panic, or the deadlock of `fs_deadlock`, stops the machine.

### Fairness

`base_liveness`, `container_kernel`: strong fairness of every scheduler
loop, of the timer with the yield it causes, of each kernel thread inside the
kernel, and of init's `wait()`. The scheduler loops for ever and the timer
keeps interrupting; spin locks are not queued, so a step may find the lock
taken any finite number of times, which is what strong fairness grants and
weak fairness does not. Programs other than init may do nothing for ever.
`log_crash`: every operation ends (strong, for it competes for `log.lock`),
commit and recovery go on, crashes may happen any time but not for ever.
`buffer_cache`: the disk answers, a process inside the cache goes on, a holder
releases, and a sleep lock that is free again and again is obtained; sleep
locks wake every waiter and have no queue, so the last is an assumption on the
scheduling, not a consequence of `sleeplock.c`.

## What is proved

The theorems hold for every value of the constants that satisfies the named
assumption of the module: any number of slots, CPUs, pids
(`ProcTableAssumption`), containers, entries and stack pages
(`ContainerAssumption`), threads, blocks and sizes of the log
(`LogAssumption`), and so on. The assumptions say that sets of processes are
finite where the code counts them, that special values differ from ordinary
ones and that sizes are positive.

| Module | Properties proved |
|---|---|
| `BaseKernelProofs` | `TypeOK`, `NoLostExit`, `NoLostTick`, `CpuAgreement`, `NoOrphan` |
| `ContainerKernelProofs` | the same but for ticks; `RunnableListed`, `NoSharedStack`, `ContainerBound` |
| `LogProofs` | `TypeOK`, `Reserved`, `NoLostWakeup`; `Log` implements `AtomicDisk` (`CrashAtomic`) |
| `PoolProofs` | `RefcntExact`, `NoLostWakeup`; `BufCache` implements `BlockStore` (`IsBlockStore`); `OneOwner`, `SizeExact` of the memory; `Memory` implements `PrivateMemory` (`IsPrivate`) |
| `FileTreeProofs` | `RefExact`, `NotFreedInUse`; `TreeSound` for programs that do not use `..` |
| `FileDataProofs` | `BlocksExact`, `Settled`, `OpFits`, and that the only panics are those of a full disk (`PanicFull`), from a sound image |
| `PartsProofs` | `BarrierExact`, `InterruptsExact`; `NoLostWakeup` of the pipe, `NoLostLine`, `NoStuckModifier`; `Pipe` implements `Fifo`, `Console` implements `LineInput`, `MsgQueue` implements `Mailbox` (`IsMailbox`) |

None of these properties is inductive. The invariants that carry them:

*Process table.* `PtInv` adds

* `LockInv`: the CPU that holds `ptable.lock` is the one whose phase says so,
  and a CPU has a process unless it is in the scheduler - without it two
  critical sections could overlap in an unreachable state;
* `TickInv`: who is between the test of `sys_sleep` and `sleep()` holds
  `tickslock` and has time left - this is what makes `NoLostTick` survive the
  timer;
* `ForkInv`: a thread that forks owns one embryo which nobody else owns, so
  that giving a slot back or making it runnable without the lock harms nobody;
* `FamilyInv`: parents are alive and init never exits - `NoOrphan` follows,
  and `exit()` can hand its children to init.

Each shared operation has a lemma `...Inv` in `ProcTableProofs`; the frame
lemmas (`ForkFrame`, `FamilyFrame`, `CpuFrame`, `TickFrame`) say which
conjuncts survive a step that leaves their variables alone. `BaseKernelProofs`
adds its scheduler and fork. `CkInv` adds the range of `joining` and
`InitStays` (init never joins a container, hence never exits).

*Containers.* `ContInv` says that a process is on the list of its container
from before it is runnable until it strikes itself off (`MemberInv`,
`ChildInv`), although listing, filling in and starting a child are three
critical sections, and that a page is among those a container has handed out
and in one process only (`StackInv`). `ContainerBound` follows because
every member of a container has an entry of its own that is not free.

*Log.* `Reserved` needs that no open operation has logged more than its share.
The provers have no induction over sets, so `ShareInv` states this for every
set of open operations at once. `StageInv` says for every step of `commit()`
and of recovery which part of the log is a copy of the cache and which home
blocks are installed; from it the contents that a crash would leave
(`Durable`) change only when the header is written.

*Buffer cache.* `BufInv` ties the holder of a sleep lock, the queue of the
disk and the flags to where each process is. The refinement assumes that reads
succeed (`ReadOk = {TRUE}`), because `ideintr()` marks a buffer valid after an
error too. The order of the list `lru` is not covered: the proof holds for any
choice among the unused buffers.

*Inodes.* `TreeInv` lets any program make any calls. `RefExact` compares a
count with six references of each process, so a step is described by what it
does to the six (`StepTo`, `RefTo`), and `CallStep` is the one lemma that
every step of a system call uses. `UseOK` is why `iput()` frees nothing that
is used: when it has found one reference and no link, that reference is its
own. `CacheOK` says that a valid inode in the cache is what is on the disk,
except between the two critical sections of the `iput()` that frees it.

`TreeSound` is false for programs that follow `..` (run `fs_dotdot`), so
`LinksAndTree` has the hypothesis `NoDotDot`: no path of a call has that
element. `LinkInv` then adds to `TreeInv`:

* `Covered`: `nlink` counts the names of an inode, its subdirectories, the
  root, and the links in between (`Extra`): what `sys_link()` has counted and
  not entered yet, what `sys_unlink()` has erased and still counts;
* `TruncOK` and `LiveOK`: an inode that `iput()` is about to free has no links
  and no other reference, and nobody refers to a free inode except an `iput()`
  that is past its test (`Dying`) - that one must not touch the inode again,
  which by then may be another one;
* `NewOK`: what `ialloc()` has given to `create()` is empty, and no one but a
  dying reference knows it until it has its name;
* `DirOK`, `ValidOK`: a name that was looked up under the lock of the
  directory is still there, or still free, when the entry is changed;
* `DotOK`, `TreeOK`: the contents of directories.

A reference only comes from another live reference, from a name, from the root
or from `ialloc()` (`Source`, `Gains`); this is what the lookup of `..` breaks,
and `OtherLinks` derives from it that a step leaves the other processes alone.

*File data.* The theorems have the hypothesis `ImageSound` (`SoundImage`):
every block in use has one place, every file the blocks below its size, names
and link counts agree. What `Image()` of `Mkfs` computes is a recursion over
the files, beyond the prover, so that the hypothesis cannot be derived from
the constants; TLC evaluates it for the image of `file_data`. It fails for an
image whose root directory fills its blocks exactly, the one of `mkfs_hole`,
and there `Settled` fails too. `DInv` has

* `CtlInv`: reference counts of open files and inodes are the numbers of
  descriptors, open files and calls in `iput()` that refer to them, and the
  lock of an inode belongs to the call that is inside it;
* `OwnInv`: a *place* is a direct entry, the entry of the indirect block, or an
  entry in it; every block of the bitmap beyond the metadata is named by one
  place. `BlocksExact` follows by counting. Places below the progress of an
  `itrunc()` are left out, for their blocks are free already;
* `HeadInv`, `ThroughInv`: what of a cached inode may differ from the disk,
  and when: never type and links, the rest only while `writei()` or `itrunc()`
  has the lock, in `writei()` only the addresses, and only if the write goes
  beyond the size;
* `HoleInv`: a file has the blocks below its size and, in the middle of a
  write, those up to where the write has got; hence `bmap()` of `readi()`
  allocates nothing;
* `FreeInv`, `TruncInv`, `DirInv`: free inodes are empty, an inode is truncated
  only without links and with one reference, entries of the directory and
  `nlink` agree;
* `RangeInv`, `LogInv`: where a loop stands in its chunk, and which blocks an
  operation can have logged. A chunk of a write logs its blocks, the bitmap,
  the indirect block and the inode; any other operation the bitmap and at most
  two more (`Few`), the entry of the directory and the inode. `OpFits` follows
  from the number of blocks a chunk of `max` bytes touches.

Every step of a call is one of a few kinds of change to the places (`Kept`,
`Gained`, `Lost`, `Readdressed`), each with one lemma per part of `DInv`.

*Streams.* `PipeInv` counts a reader as safe when the pipe is empty or a
writer is still inside `pipewrite()` and will call `wakeup()`. The rings of
pipe and console are compared with a sequence across the wrap of the unsigned
counters, for any size that divides the range of the counters. `KbdInv` says
that every modifier that is on, or will be when the controller is empty, has
its key down. *Messages.* `MsgInv` says that every slot has a list of nodes
that differ from each other, from those of the other slots and from the free
ones, and that front, rear and the links, the last one back to the front,
describe it; `Walk`, on which `IsMailbox` is based, finds that list and no
other (`WalkIs`).

*Spin locks.* `SpinInv` describes the rest of each context's program by the
set of locks it holds and the interrupt flag at every point (`Sound`), and
says that `ncli`, `intena` and the flag of the processor agree with it, also
for the contexts that wait in `sched()`. *Scheduler log.* `SlogInv` has three
stages, before, during and after the session. *Memory.* `MemInv` says for
every point of every call which pages the address space under construction
and the old one have (`CallOK`), and that each page is in one place (`Own`);
a place is a page table entry, a table, a directory, a kernel stack or the
page in the hand of a call. For `IsPrivate`, `Priv` adds what the pages of an
unfinished address space hold: the copy of a `fork()` what the pages of its
parent hold (no other step writes either of them, for each page has one
place), the segment of an `exec()` the program, its stack and a page that is
allocated but not entered zeroes. A step that writes only pages no program
sees (`Loose`: free, a kernel stack, or of the call's own unfinished space)
is a stutter of `PrivateMemory`; the others are its `Write`, `Extend`,
`Release`, `Fork`, `Exec` and `Reap`.

To make the proofs possible some definitions are stated without recursion or
as sets of places: `Worker` (`SchedLog`), `Place` and `Owners` (`Memory`),
`Slot` and `Pointer` (`FileTree`), `Walk` (`MsgQueue`).

Only model-checked:

* liveness (`SleeperWakes`, `BlockServed`, `RunnableRuns`, `ContainerRuns` and the
  others of the kernels), which the prover does not do;
* `TreeSound` of `FileTree` for the calls of `fs_names` that use `..`;
* that `FileData` implements `ByteFiles` (`IsByteFiles`);
* that the image of `mkfs.c` is sound (`ImageSound`), by evaluation;
* the order of the list of buffers (`SelectSeq` is recursive).

## What the code does not guarantee

The violation runs:

* `container_leave_stuck`: `joinContainer()` takes the caller off its list
  before `exit()`; preempted in between it is never scheduled again.
* `fs_deadlock`: `create()` and `sys_unlink()` call `iput()` on a directory,
  which locks it, while they hold an inode in it; `sys_unlink()` locks in the
  other order.
* `fs_dotdot`: the `..` of a removed directory in which a process still
  stands is not counted. When the parent is removed too and `ialloc()` hands
  its inode to `create()`, the process can follow `..` into the new directory
  and lock it first; the subdirectory it makes there is counted, and
  `create()` then sets `nlink` to 1. From then on `nlink` is too small and
  `iput()` frees a directory that has a name (`LinksCovered`). `fs_names` has
  too few inodes for this, and checks the property (in `TreeSound`) for the
  rest of the protocol.
* `mkfs_hole`: `mkfs.c` rounds the size of the root directory up by a block
  even if the entries fill the last one, as they do in `xv6/`. The first
  search for a missing name then allocates the block in the cached inode only,
  names entered there do not reach the disk, and the bitmap has a block that
  no inode on disk has (`WriteThrough`; `file_data` has an image without the
  hole).

Invariants that are stated in a module, that TLC refutes and that no run
relies on:

* `StackOfOwner` (`ContainerKernel`): `allocFor` is a global without a lock
  that stays set after a failure; forks of others take stacks from that
  container.
* `LogInside` (`Log`): `log_write()` tests for room without `log.lock`, and two
  calls that overlap at the last block outgrow the log, behind which the
  inodes begin.
* `LastPutFrees` (`FileTree`): two overlapping `iput()` of an unlinked inode
  both see the other's reference and nobody frees it.
* `NoLostMessage` (`MsgQueue`): `recv()` finds its queue empty and sets
  `request[]` afterwards, without a lock; a message sent in between wakes
  nobody, and the receiver sleeps on it.

Also seen while modelling: the `..` of a removed directory outlives its
parent, and a lookup through it panics (`IlockPanic`); a file created in a
directory that was just removed keeps its link for ever; a kill between the
test of `killed` and the sleep in a pipe is noticed only when somebody else
uses the pipe; a killed writer that leaves a full pipe wakes no reader, not
even after other readers have begun to empty it (the exception `GaveUp` of
`NoLostWakeup` in `Pipe`); `fork()` and
`joinContainer()` lose the copied address space when the container is full
(the exception `lost` of `OneOwner`); `sbrk(-sz)` gives the pages back and
keeps the size (the exception of `SizeExact`); `recv()` that is woken by the
exit of a child returns success without a message; `enQueue()` does not look
at the result of `kalloc()` (the model sends only when there is a page);
`scheduler()` can set `done` after another processor has cleared the flags, so
that the barrier of a second session opens at once (61 steps in a variant of
`SchedLog` with two sessions), and `check_schedule_log(1)` recognises a
session that is over only if it was the first; `kill(0)` marks an unused slot;
a negative argument of `sys_sleep()` is a huge unsigned one; `ideintr()` marks
a buffer valid after a read error too; a full log pins as many buffers as
there are.

## Abstractions

* Programs are nondeterministic: any system call at any time, arguments from
  small sets. `KillArgs` leaves out pid 0. `joinContainer()` gets ids that
  exist; the code does not check them.
* Outside `SpinLock` a spin lock is its holder, and interrupts are off where
  the code turns them off, so that the timer meets a CPU only while it holds
  no spin lock. `SpinLock` has two locks, taken in the order the kernel takes
  them, the sleep and the wakeup as system calls, and one kind of handler
  besides the timer.
* Outside `Memory` an allocation succeeds or fails. In `Memory` the contents
  of a page are one bit, the page tables of the kernel are one page, the free
  list hands out its lowest page, and a program faults when it has given
  everything back. Registers are left out. Beyond the last page of a container `conalloc()` returns what
  follows its array; the stack then is a number past `MCONT`.
* In `BufCache` a process holds one buffer at a time and reads succeed
  (`ReadOk`); in `Log` buffers are the contents `bread()` returns.
* In `FileTree` a process has one descriptor, transactions (`begin_op`) are
  left to `Log`, the inode cache has an entry per inode, and the name a
  container's `open()` creates is the name after its prefix was added.
* In `FileData` there is one directory, a name is found or entered in one
  step, a directory entry and a block number take one unit of a block, and a
  process writes bytes that bear its name. The sleep locks of inodes are
  there, the order of transactions is not; `logged` collects the blocks an
  operation gives to `log_write()`. `create()` and `sys_unlink()` count the
  block of the directory and the one of the inode, and the `iput()` at the end
  of `sys_unlink()` belongs to the same operation. The image has room for an
  entry per inode in the directory (`FileDataAssumption`), so that `dirlink()`
  never makes it longer.
* `Console` leaves out the echo, `Keyboard` the codes of all but one letter,
  Enter and the modifiers; `\r` is stored as a newline.
* `MsgQueue`: a message is one value; a receiver has a fixed slot, so that
  messages left to the next owner of a slot are not seen.
* `SchedLog`: no process joins, leaves or exits during the session, and there
  is one session.

## Not modelled

* User programs other than the barrier of `cm.c`: the shell, the small
  utilities, `usertests.c` and the test programs run on the kernel and hold no
  state of it; the models let programs make any call. `umalloc.c`, `ulib.c`
  and `printf.c` are sequential library code without concurrency or failure.
* Start-up: `bootmain.c`, `main.c`, `mp.c`, `lapic.c`, `ioapic.c`,
  `picirq.c` set up hardware once, before the initial states.
* Console output, `cprintf()`, `panic()`, `procdump()`, `ps` and the counting
  queries: they print or return what other modules keep.
* The registers of the disk controller and the serial port.
* `sys_pipe()` with its descriptors, `fstat()`, the argument fetching of
  `syscall.c`, the container prefix of `sys_open()` (string handling), the
  memory log (a flag that is set and never cleared), `send_multi` (a stub),
  and `getContainerMemory()` (no caller).

## What is left

One refinement is model-checked and not proved: `IsByteFiles`, for which
`DInv` is the invariant that is needed. The composition of `Log` and
`BufCache`, for the buffers that a full log pins, is the one model still worth
adding.
