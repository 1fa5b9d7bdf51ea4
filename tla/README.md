# Specifications of tatakOS

TLA+ specifications of tatakOS (an xv6 descendant for RISC-V, run on RustSBI and
QEMU), the TLC configurations that check them on small instances, and proofs
that TLAPS checks. `PROJECT.json` maps each definition to the lines it models,
and lists the runs, the mutants that show each property can fail, the hazards
and the theorems.

## The system and its parts

| part | source (`src/src/kernel/...`) | modules |
|---|---|---|
| processes, scheduler | `proc.c`, `asm/swtch.S` | `Proc`, `Machine` |
| traps, interrupts, clock | `trap.c`, `asm/trampoline.S`, `asm/kernelvec.S`, `plic.c` | `Machine`, `Proc` |
| spinlocks | `spinlock.c` | `Machine`; lock owners in `Proc`, `Pipe`, `VirtioDisk` |
| console, UART | `console.c`, `platform/qemu/driver/uart.c` | `Console`, `Machine` |
| pages, address spaces, exec | `mm/kalloc.c`, `mm/vm.c`, `exec.c` | `Vm`, `Memory`, `AddressSpaces` |
| pipes | `fs/pipe.c` | `Pipe`, `BoundedFifo` |
| file system calls, file and inode tables | `sysfile.c`, `fs/file.c`, `fs/fs.c` | `FileSys` |
| inodes, blocks, directories; mkfs | `fs/fs.c`, `src/script/mkfs.c` | `FsImage` |
| log | `fs/log.c` | `Log`, `AtomicDisk` |
| buffer cache, sleep-locks | `fs/bio.c`, `sleeplock.c` | `Bcache`, `BlockStore` |
| disk driver | `platform/qemu/driver/virtio_disk.c` | `VirtioDisk`, `BlockDevice` |
| shell, init, echo, cat | `src/src/user/{sh,init,echo,cat}` | `ShellParse`, `Shell` |

How they stand on one another. A process enters the kernel by a trap (`Machine`)
and blocks with sleep() and wakeup() (`Proc`). Each file system call runs
between begin_op() and end_op() of the log; the log uses the buffer cache, which
calls the driver. Each layer is shown to implement an abstract specification,
and the layer above is written against it:

    Shell       pipes, descriptors, fork, wait as single steps
    Pipe        implements BoundedFifo
    FileSys     a crash falls back to the image as of the last moment without
                operations: AtomicDisk; the inodes' locks are exclusive
    Log         implements AtomicDisk; a block has one contents, changed by the
                holder of its buffer: BlockStore
    Bcache      implements BlockStore; a disk read or write is one step: BlockDevice
    VirtioDisk  implements BlockDevice
    Memory      implements AddressSpaces

`Proc` shows for wait(), exit() and kill() how sleep() and wakeup() work slot by
slot under p->lock; the other modules take wakeup() as one step that makes the
sleepers of a channel go on, and sleep() as one that gives up the lock and blocks.

## Reading the modules

A critical section that takes no other lock is one step; a lock held across
several steps is a variable that holds its owner. Where a call is sequential
code on records (`FsImage`, `Vm`, `Console`), it is an operator, and `Then` of
`Steps` is the semicolon. Definitions named in a comment "Mutant of X" are not
part of a specification: they are plausible bugs, and show that a property can
fail.

### Proc

State: the fields of `struct proc` (`state`, `chan`, `killed`, `pid`, `parent`),
`nextpid`, the owner of each p->lock and of wait_lock, the local variables of
each kernel thread, and of each CPU c->proc, its scheduler's control point and
loop variable. A spinlock is owned by a CPU, so that handing p->lock from thread
to scheduler through swtch() is visible.

| code | actions |
|---|---|
| scheduler | `SchedSkip`, `SchedRun`, `SchedBack` |
| sched; return of yield, sleep, forkret | `Sched`, `Resume` |
| usertrap | `TrapKilled`, `UserFault`, `UserTimer`, `Syscall`, `SyscallKill`, `SyscallReturn` |
| kerneltrap, yield | `KernelTimer`, `Yield` |
| fork, allocproc, allocpid, freeproc | `ForkScan`, `ForkFull`, `ForkAlloc`, `ForkFail`, `ForkParent`, `ForkRun`, `Freeproc` |
| exit, reparent | `ExitPanic`, `PanicLoop`, `ExitLock`, `Reparent*`, `ExitZombie` |
| wakeup (in exit, reparent) | `WakeupSkip`, `WakeupHit`, `WakeupDone` |
| wait, sleep | `WaitLock`, `WaitScan`, `WaitReap`, `WaitCopyoutFail`, `WaitNone`, `WaitBlock`, `WaitSleep` |
| kill | `KillScan`, `KillNone`, `KillFound` |

A failing allocation is a choice, and so is what a process does in user mode.
`WaitCopyoutFail` is not taken by init, which passes a null address. Memory,
files and exit statuses are left out.

### Machine, Console

State: of each hart stvec, sepc, sstatus.SIE, tp, `struct cpu` (noff, intena) and
its timer; the stack of frames of each kernel thread and scheduler; process
states with what the trapframe and sched() save; the three spin-locks of
console, UART and clock; the console's and UART's rings. An action is what a
thread does up to where another hart, a device or an interrupt can make a
difference: `Uservec`, `Usertrap`, `Usertrapret`, `Userret`, `Kernelvec`,
`Kerneltrap`, `Kernelret`, `Sret` for traps, `Acquire`, `SchedLoop`, `Schedule`
for locks and switches, `ReadWait`, `ReadSleep`, `ReadChar`, `Copyin`, `Uartputc`,
`Uartgetc`, `ConsoleInput`, `UartSend`, `Clockintr`, `SysSleep`, `TickSleep`, `SysKill`
for the calls and handlers. consoleread() and sys_sleep() test p->killed in one
step and go to sleep in the next, since kill() takes none of their locks. The loop
of uartstart() sends one character, or more when the UART is idle again in time
(`Sends`). `Console` has the switch of consoleintr() (editing with ^H, ^U, ^D) and the
indices that wrap at `Word`. Its fields `lines`, `taken` and `sent` are history.
p->lock is not a variable here: what happens under it is one step. General
registers, sstatus.SPP and SPIE, printf and the listing on ^P are left out.

### Vm, Memory

`Vm` follows kalloc.c and vm.c function by function on a record of pages: page
tables of `FAN` entries in three levels, contents of pages, the panics. `Memory` has
fork, exit, sbrk, exec and stores as actions. A call works on its own page table
and shares the free list only, so it is one step, and the interference of other
calls is that kalloc() fails after any number `n` of pages; exec also fails at each
of its checks (`stop`). The free list is a set.

### FsImage, FileSys

`FsImage` is the image (inodes, bitmap, blocks, indirect blocks, directories) with
balloc, bmap, itrunc, writei, dirlookup, dirlink, create and mkfs as operators that
also collect what log_write() is called with. `FileSys` has the calls. A process
keeps a stack of what its call has still to do, cut where it locks an inode:
namex() one element at a time ("walk"), "create", "found", "open", "link", "link2",
"linkbad", "unlink", "unlink2", "chdir", "writei", and iput() in its three steps ("put", "free",
and the end), because it looks at ref and nlink before it has the inode's lock.
A unit of data is a directory entry. Writes may fail half way (`WriteiFault`); the
contents of regular files are one value, so what either_copyin() left in the
block it failed on makes no difference here, but it does in `Log`.

### Log

State: on disk the home locations, the log blocks and the header; in memory the
buffers (contents, pins, owner), `log.lh`, `log.outstanding`, `log.committing`; of each
thread its control point and the blocks it wrote. A thread changes a buffer
(`Modify`) and calls log_write() (`LogWrite`) in two steps, or gives the buffer back
without log_write(), as writei() does when either_copyin() fails half way
(`GiveUp`); a change that was given up is seen by readers until the buffer is
recycled (`Evict`), which `AtomicDisk` allows as `Forget`, or until the block is
logged by somebody else. Each disk write of commit() and of recovery is a step; `Crash` may come anywhere. panic() stops one
hart, which keeps log.lock: steps that need log.lock are over, the others go on.

### Bcache

State: the buffers (block, valid, refcnt, data, owner of the sleep-lock), the list
in its order, what is on disk, what the log has pinned, and where each thread is
with each of its handles. A handle is a variable that a buffer is read into: a
thread may hold one buffer while it asks for another, as install_trans(),
write_log(), bmap() and itrunc() do. `BgetHit` and `BgetRecycle` are the two scans of
bget(), and `BgetPanic` is its end: the thread keeps bcache.lock, and the steps that
need it are over. Waiting in acquiresleep() is a step of its own, so that another
thread may take a lock between its release and the woken sleeper. A holder changes
its buffer (`Modify`), writes it (`Bwrite`), and pins or unpins it for the log (`Bpin`,
`Bunpin`), in any order: what the log makes of that is in `Log`. Which two blocks a
thread holds together is left open too, so callers that wait for each other's
blocks are possible here, and their order is not a subject of this module.

### Pipe

State: `struct pipe` with counters that wrap at `Word`, the owner of pi->lock, the
processes that have each end open, p->killed, and the calls in progress. p->killed
is not protected by pi->lock, so its test is a step (`WriteCheck`, `ReadCheck`). The
holders of each end close one by one; a fork would only add holders while the end
is open.

### VirtioDisk

State: descriptors, disk.ops, disk.info, both rings with indices that wrap at
`Word`, vdisk_lock, b->disk and the data of each buffer, the control point of each
call; of the device the blocks, what it has read of the avail ring, what it works
on, its notification and its interrupt. The device acts between any two accesses
of the driver to what they share, even under vdisk_lock, and finishes requests in
any order. Each process has its own block and buffer: the buffer's sleep-lock
keeps calls apart. kill() appears as a wakeup at any time.

### ShellParse, Shell

`ShellParse` is the recursive-descent parser on tokens. `Shell` translates a command
into the system calls that runcmd() makes for it (`Runcmd`, `Pipeline`) and runs
them: descriptors, shared open files with their offsets, pipe ends, orphans that
go to init, tables that may be full. `Meaning` says without processes what a
command writes where, and is the reference for `RunsAsWritten`. Since the shell
opens without O_APPEND, `>>` writes from the start of the file.

## What is checked

| run | instance | shows |
|---|---|---|
| `proc_smp` | 2 CPUs, 3 slots, fork() while nextpid <= 3, kill(2) | stacks, locks, wakeups, parents, pids, killed flags stay consistent |
| `proc_up` | 1 CPU, 3 slots, fair | wait() returns, orphans are freed |
| `proc_kill0` | 1 CPU, kill(0) | **violation**, see below |
| `log` | 3 threads, operations of 1 block, 2 at a time, 2 blocks, fair | refinement of `AtomicDisk` with crashes at any step, pins balance, protocol panics unreachable, sleepers in begin_op() are woken |
| `log_space` | 2 threads, operations of 2 blocks, LOGSIZE 4 | **violation**, see below |
| `pipe` | 2 readers, 2 writers, 2 bytes, PIPESIZE 2, counters modulo 4 | refinement of `BoundedFifo`, sleepers are woken, no use after free |
| `virtio` | 3 processes, 7 descriptors, indices modulo 14, 3 calls, fair | refinement of `BlockDevice`, descriptors and completions have one owner, every call returns |
| `bcache` | 2 threads with 2 handles each, 3 blocks, NBUF = LOGSIZE = 2 | refinement of `BlockStore`, reference counts, bget() panics only when all buffers are in use, sleepers wait for a held lock |
| `fs` | 2 processes, 5 inodes, 11 blocks, 3 calls, 1 crash | the image is consistent after a crash at any step, reference counts exact, no panic, no deadlock, operations keep to their reservation |
| `mem` | 2 processes, 20 pages, sizes up to 6 units | each page has one owner, no panic, refinement of `AddressSpaces` |
| `machine` | 2 harts, 2 processes, 8 scenarios | no panic of trap and lock code, traps return where they came from, input and output in order, sleepers have a reason |
| `shell` | 6 processes, 6 open files, 2 lines, fair | lines do what they mean, the shell comes back to its prompt |

### Why the bounds are enough

* `Proc`: three slots hold a parent, its child and init; with `MaxPid = 3` a slot is
  used, freed and used again, and two forks can run at once. The wakeup(initproc)
  inside reparent() makes a difference of its own only from four slots on; the
  theorems cover it.
* `Log`: three threads for two places make one wait; two blocks are absorbed,
  overwritten and recovered. `LogBlocks` exceeds LOGSIZE by one in `log`, which sets
  the disagreement that `log_space` shows apart from the other properties. A crash
  may follow any number of earlier crashes.
* `Pipe`: `Word` is a multiple of PIPESIZE, as 2^32 is of 512, and the counters
  wrap many times.
* `VirtioDisk`: 7 descriptors are two requests and one left over, so that the third
  waits with a descriptor it must put back. `Start` puts the first request shortly
  before the wrap of the indices. A write is of a value the buffer did not have.
* `Bcache`: NBUF and LOGSIZE are equal, as in `param.h`. With one block more than
  buffers all are recycled; two buffers are few enough for pins and handles to use
  them all up, so that bget() panics in the run.
* `FsImage`: blocks of two entries and two direct addresses, so that a directory
  of three entries has a second block and a file of 7 units an indirect one. The
  menu (`MCFileSys`) has creation and removal of one name in two directories,
  removal of a directory in use, `..`, truncation and links. Out of inodes, blocks
  or inode-table slots is a panic of the code, and the numbers are chosen so that it is
  not met. The link count of a reachable inode is only bounded from below:
  create() in a directory that was removed meanwhile (`sysfile.c:278`) loses an
  inode together with that directory.
* `Memory`: PGSIZE 2 gives sizes that are no multiple of a page; FAN 2 in three
  levels makes neighbouring pages share tables or not.
* `Machine`: a ring of 2 characters for two writers of 3 each wraps around, fills
  and holds characters of both; INPUT_BUF 2 fills at once, and `Start` puts the input
  indices before their wrap. Scenarios (`MCMachine`) pair readers, writers,
  sleepers and killers with typed characters and timer interrupts.
* `Shell`: PIPESIZE 1 blocks writers, and a pipeline of three may need one process more
  than there are slots, so that fork() succeeds or fails inside it (`RunsAsWritten`
  speaks of the first, `PromptReturns` of both). The fork() of init always
  finds a slot.
  `ParsesBack` evaluates the parser on all commands of depth 2, some 2300, against
  the way they are written.

SYMMETRY is used only in runs without liveness, over sets that no definition
orders. VIEW leaves out values that are written before they are read again (`virtio`,
`machine`) or the numbers of pages (`mem`, where kalloc() may take any free page
and no property depends on which); both identify states with the same future.

Deadlock is not checked where the instance ends with all calls made or all ends
closed, or with a panic: `pipe`, `virtio`, `bcache`, `fs`, `mem`, `machine`, `shell`. In `fs` the invariant
`NoDeadlock` speaks of the inode locks instead.

### Fairness

* `Proc` (one CPU): the CPU goes on executing; the timer, which hart 0 sets again
  at each tick, is taken when interrupts are on; a thread that is scheduled again
  and again advances; and init calls wait() in a loop. Nothing is assumed about
  other user programs. With several CPUs the code does not promise that a spinning
  CPU ever gets a lock, and the other harts' timers are not set again
  (`trap.c:226`), so the liveness run has one CPU.
* `Log`: a thread that can go on does, boot goes on, and an operation in progress
  ends after finitely many writes.
* `VirtioDisk`: a process that can run is scheduled again and again and in the end
  finds the lock free; the device serves what it was notified of; the interrupt is
  taken. Nobody is assumed to call or to kill.
* `Shell`: every process that can run is scheduled; nobody need type.

### Disagreements found

* `log_space`: begin_op() reserves MAXOPBLOCKS per operation against LOGSIZE, but
  log_write() panics one block earlier, since `log.size` counts the header and
  mkfs sets it to LOGSIZE; it also panics for a block it would absorb. The comment
  at `log.c:134` says otherwise.
* `proc_kill0`: kill(0) finds an UNUSED slot, whose pid is 0, and marks it killed;
  the next process in that slot exits at once. The comment on kill() says it kills
  the process with the given pid.
* `EnoughBuffers` needs NBUF to be at least LOGSIZE plus the buffers that all
  threads may hold at once. `param.h` has NBUF = LOGSIZE = 30 (lines 10 and 11) for
  64 processes, several of which may read outside any operation of the log
  (fileread(), ilock()) while blocks are pinned. So the panic at `bio.c:88` is
  reachable, as it is in `bcache`, where NBUF = LOGSIZE; no comment of the code
  denies it, so there is no run of its own for it.

## What is proved

### Proc

For every NPROC, every set of CPUs and every set of pids passed to kill(), from
`ProcAssumption` only (NPROC is positive, `NoCpu` is no CPU): `TypeCorrect`,
`StackExclusion` (OneStack), `SchedPreconditions` (SchedLocks), `FreedStacks`
(FreedOffStack), `WakeupsArrive` (NoLostWakeup), `ParentsLive` (ParentAlive) and
`PidsDiffer` (PidUnique). All follow from `Inductive == Spec => []IInv` in
`ProcProofs`. `NamedKilled` (OnlyNamedKilled) also assumes that 0 is not passed to
kill(), which is exactly what `proc_kill0` violates.

None of the properties is inductive. IInv, at the end of `Proc`, adds:

* `CpuInv`, `LockInv`: which CPU is on which process, and that p->lock is held
  exactly from the change of p's state to the scheduler's release. Without it a
  second scheduler could pick up a stack in use.
* `WaitLockInv`: wait_lock is held exactly by the CPU of the one thread between its
  acquire and its release, which is not preempted there.
* `StateInv`: a SLEEPING process is inside sleep() on its own channel, a ZOMBIE is
  in its last sched(), a free slot is on no CPU.
* `InitInv`: init does not exit, so that reparenting hands children to a live one.
* `ForkInv`: the slot fork() fills is USED, and nobody else's.
* `ExitInv`: how far reparent() has got; `WakeInv`: the parent an exiting process has
  already woken stays awake until the zombie is visible, and what a scan of
  wait() has passed is no zombie.
* `PidInv`: nextpid is larger than every pid, which makes a new one unique.

### Pipe

For any sets of readers and writers, any PIPESIZE and any counter width that
PIPESIZE divides (`PipeAssumption`), without the bound on one call's size
(`PipeProofs`):

* `ReadersWoken` (ReaderWoken), `WritersWoken` (WriterWoken) and
  `FreedUnused` (NoUseAfterFree), from `PipeInductive == Spec => []IInv`. IInv adds
  who is in its critical section (`LockInv`), that an end somebody has is open and a
  caller has its end (`OpenInv`), and that what a call saw under the lock is still
  so when it goes to sleep (`SeenInv`).
* `PipeIsFifo == Spec => IsFifo`, the refinement of `BoundedFifo`.
  `RingInv` says the counters are in range and at most PIPESIZE apart modulo Word;
  `ModuloLemmas` has the arithmetic of the wrap: bytes inside have different places
  in the ring (`Apart`, `OtherPlaces`), and writing and reading act on the queue as
  Append and Tail (`PutByte`, `GetByte`).

### Log

For any threads, blocks, values and sizes of the log, with crashes at any step
(`LogAssumption`: InitValue is a value, Absent and NoThread are not what they stand
against): `PinsBalance` (PinBalance), `ProtocolSafe` (NoProtocolPanic) and
`LogIsAtomic == Spec => CrashAtomic`, the refinement of `AtomicDisk`, all in `LogProofs`. IInv, at the end of `Log`, adds:

* `ThreadInv`: outstanding is the number of operations in progress, at most one
  thread commits, and nobody is inside an operation then. Without it a block
  could change between write_log() and install_trans().
* `OwnerInv`: a locked buffer is the one its owner is about to log or to give up.
* `HeadInv`: the header on disk is empty but between its write and its erasure, when
  it is the one in memory; neither has a block twice.
* `DataInv`: where the contents of each block are at each stage of commit and of
  recovery. The abstract disk of a crash is read off from it: the mapping
  applies the log when the header is on disk, so write_head() is the one step
  that changes it (`RecoveredValue`, `WriteHeadStep`).
* `PinInv`: exactly the blocks logged and not yet installed are pinned, once.

### Bcache

For any threads and handles, blocks and values, and any NBUF and LOGSIZE
(`BcacheAssumption`: the sets are finite, NoThread and NoBlock are not what they
stand against): `CountsExact` (RefcntExact), `NoBufferLost` (PanicsOnlyFull),
`SleepersWaitForHolder` (SleepersOnHeldLock) and
`CacheIsStore == Spec => ImplementsStore`, in `BcacheProofs`. `EnoughBuffers` states on
top of them when bget() cannot panic, with the inequality as its own hypothesis.
IInv adds that the list goes through every buffer (`LruInv`), so that the scan of
bget() finds an unused one if there is one (`RecycledUnused`) and brelse() loses
none (`MoveKeeps`); which handle is in which buffer and holds its lock (`HandleInv`,
`OwnerInv`); refcnt as users plus the log's pin (`RefInv`); that a block has one
buffer, which has its contents while it is pinned (`BlockInv`); and that after a
panic no buffer becomes unused (`FullInv`). `NoBufferLost` counts: the buffers in use
are the image of the handles inside and of the pinned blocks (`InUse`).

### VirtioDisk

For any processes and values, any NUM of at least 3 and any width of the indices
that NUM divides (`VirtioAssumption`): `RequestsKept` (RequestsOwned) and
`DriverIsDevice == Spec => Implements`, the refinement of `BlockDevice`, in
`VirtioProofs`. IInv, at the end of `VirtioDisk`, says that disk.info names each call
in one descriptor, the head of its chain of three (`HeadInv`, `CallInv`); that a
descriptor is free or one call's (`DescInv`); and that a request is in the avail
ring, with the device, in the used ring, or seen by the handler, and has a status
accordingly (`RequestInv`). The rings never overflow, since heads in them are
different and each has two descriptors behind it that are no heads (`RingFits`);
`RingPush` and `RingPop` are what the wrapping indices do to the sets of entries.

### Only model-checked

All liveness, which is beyond the prover; the invariants of `FileSys`, `Memory`,
`Machine` and `Shell`, and the refinement of `AddressSpaces`. `ShellParse` and `Shell`
use recursive operators, and `FsImage`, `Vm` folds over sequences, whose values for
every input would need induction over data. In the theorems nextpid is a natural
number that does not overflow.

## Not modelled

* printf, string functions and the fetching of system call arguments: pure.
* Boot, the kernel's own page table, SBI: they run once, before concurrency starts;
  `Machine` starts from the state they leave.
* filestat, and readings of devices other than the console: they change no state.
* The loops of copyin and copyinstr, which read an address space. That they may
  fail half way is in the callers: `GiveUp` in `Log`, `WriteiFault` in `FsImage`,
  `WriteDone` in `Pipe`, `Copyin` in `Machine`.
* A disk that reports an error, and exhaustion of inodes, blocks or inode-table
  slots: the code panics.
* General registers and the ELF header's fields.
* chdir in the shell, cat with file names, umalloc and the other user programs:
  sequential code of one process. usertests and grind only make the calls that are
  modelled, in fixed orders.
