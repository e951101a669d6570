# TLA+ models of the xv6 kernel with a priority scheduler

This directory holds TLA+ specifications of the kernel under `src/code/kernel`
(xv6 for RISC-V with a priority scheduler and a few system calls of its own),
the TLC models that check them, and TLAPS proofs. Paths below are relative to
`src/code/kernel` unless they say otherwise. `PROJECT.json` maps every
definition to the lines it models and lists components, runs, hazards, findings
and theorems.

## 1. The system and its hard parts

The kernel runs on several CPUs that share all memory. What makes it hard to
test is that almost every structure is used by several CPUs at once, under
locks that are taken for short sections, with processes sleeping and being
woken in between, devices working beside the CPUs, and a machine that may stop
at any moment.

| Component | State | Operations | What is hard |
|---|---|---|---|
| scheduler (`proc.c`) | `p->state`, `p->priority`, `p->lock`, `c->proc`, the locals of `scheduler()` | two passes over `proc[]`, `swtch`, `yield`, `sched`, `set_priority` | the lock is handed over across a context switch; the second pass uses what the first one saw under other locks |
| sleep and wakeup (`proc.c`, `trap.c`, `sysproc.c`) | `p->chan`, condition lock, `ticks` | `sleep`, `wakeup`, `kkill`, `clockintr`, `sys_pause` | lost wakeups; a counter that wraps |
| process life cycle (`proc.c`) | parents, pids, zombies, `wait_lock` | `kfork`, `kexit`, `reparent`, `kwait`, `kkill`, `getpinfo` | exit, wait and inheritance in every order; slots reused under a reader of the table |
| log (`log.c`) | header, log blocks, home blocks, `outstanding`, `committing`, pins | `begin_op`, `log_write`, `end_op`, `commit`, recovery | crashes between any two writes, also in recovery; reservation of space |
| buffer cache (`bio.c`, `sleeplock.c`) | buffers, reference counts, LRU order, sleep locks | `bget`, `bread`, `bwrite`, `brelse`, `bpin`, `bunpin` | recycling a buffer somebody is about to lock |
| pipes (`pipe.c`) | ring, two counters, open ends | read, write, close | counters that wrap, mutual sleep, freeing |
| disk driver (`virtio_disk.c`) | descriptors, two rings, `b->disk` | `virtio_disk_rw`, `virtio_disk_intr` | a device that reads the rings without a lock and completes in any order |
| uart (`uart.c`) | `tx_busy`, the chip's FIFO | `uartwrite`, `uartputc_sync`, `uartintr` | output without the lock beside output with it |
| console (`console.c`) | `cons.r`, `cons.w`, `cons.e` | `consoleintr`, `consoleread` | three indices that wrap, two of which also move back |
| inodes and names (`fs.c`, `sysfile.c`) | dinodes, inode table, one directory | `open`, `create`, `link`, `unlink`, `close`, `ireclaim` | references against links; `iput` drops its lock half way; crashes |

How they meet: everybody sleeps and wakes through `sleep()`/`wakeup()`; the
file system calls of `sysfile.c` run inside transactions of the log, the log
writes through the buffer cache, and the cache through the disk driver; the
console gets its input from `uartintr()` and echoes through `uartputc_sync()`.

Not modelled at present: virtual memory and `kalloc.c`, `exec.c`, block
allocation and file contents, the file table, boot, formatting, `mkfs`, user
programs. Section 8 says why and what is planned.

## 2. Modules

| Module | Models | Abstract specification it implements |
|---|---|---|
| `Sched` | `scheduler()`, `sched()`, `yield()`, `set_priority()` and all changes of `p->state` | `CpuAssign`: a process is RUNNING on exactly one CPU, and states follow the life cycle |
| `SleepWakeup` | `sleep()`, `wakeup()`, `kkill()`, `clockintr()`, `sys_pause()`, lock by lock | `CondVar`: waiting and releasing the lock is one step, and so is waking everybody |
| `ProcLife` | fork, exit, wait, kill, `getpinfo()` | |
| `Log` | `log.c` with crashes | `AtomicDisk`: a group of calls becomes durable as a whole or not at all |
| `BufCache` | `bio.c`, `sleeplock.c` | `BlockStore`: one current value per block, held by one process at a time |
| `Pipe` | `pipe.c` and the closing of its two files | `ByteQueue`: a bounded queue with two ends |
| `VirtioDisk` | `virtio_disk.c` and the device | |
| `Uart` | the output side of `uart.c` and the chip | |
| `Console` | `consoleintr()`, `consoleread()` | `LineInput`: entered characters, and a line that can be edited |
| `Inode` | inode layer and name system calls, with crashes | |
| `SchedProofs`, `SleepWakeupProofs` | the theorems | |
| `MC*` | instances for TLC | |

The abstract specifications are how the modules fit together: `Log`, `Pipe`,
`VirtioDisk`, `BufCache`, `Uart` and `Console` use sleep and wakeup as
`CondVar` describes them, `ProcLife` has the scheduler that `CpuAssign`
describes, with a CPU for everyone, and `Inode` has a log that commits in one
step, as `AtomicDisk` allows.

### Conventions

- A section of one spinlock is one step unless something can be seen of it from
  outside the lock: then the lock is a variable and the section several steps.
  In `Sched` and `SleepWakeup` each `p->lock` section is separate; in
  `VirtioDisk` the device acts between two steps of a holder of `vdisk_lock`.
- A process's position in the kernel is `pc[p]` (or `kpc`, `spc`, `cpc`), with
  the names of the positions taken from the function they are in.
- A kill may wake any sleeper, so the wait loops of all modules but `Inode`, where
  taking a lock is one step, are exercised with spurious wakeups. In `Pipe`, `Console`
  and `ProcLife` the test of `killed()` and the `sleep()` after it are separate
  steps, because a kill fits in between.
- Unsigned counters count modulo a constant (`TickMod`, `CounterMod`, `IdxMod`,
  `RunsMod`) that stands for 2^32, 2^16 or 2^64.
- Definitions whose name says what is wrong with them (`LeaveUnlocked`,
  `WakeNobody`, ...) are plausible bugs. They are used nowhere; put in the
  place of the definition that follows them, they violate a property.

### Module by module

**Sched.** `state`, `priority`, `runs` and `lock` are the fields of `struct proc`;
`cproc`, `spc`, `idx` and `highest` are `c->proc` and the position and locals of
`scheduler()`. A context switch is two steps on each side (`Dispatch`/`Resume`
and `Leave`/`SwtchBack`), since `p->lock` is acquired on one stack and released
on the other. `steady[c]` is a history variable: the slots that have been
RUNNABLE with one priority since CPU `c` began its two passes. `Disturb` keeps it
up to date and stands for no code.

**SleepWakeup.** The wait loop of `sys_pause()` on `ticks` under `tickslock`,
with `wakeup()` visiting slots one at a time. It stands for every use of
`sleep()`: the loop, the lock and the channel have the same shape everywhere.

**ProcLife.** Slots are found with `\E`, since other CPUs take and free slots
while a loop over `proc[]` runs. `getpinfo()` copies slot by slot; of what it
copies the model keeps the pids. A fork may fail for want of memory.

**Log.** `disk`, `dlog` and `dhead` survive a `Crash`; the rest is rebuilt by
`Booted`. Every block write of `commit()` and of recovery is a step. An unpinned
buffer may be recycled at any time. A call is assumed to write fewer than
`MAXOPBLOCKS` different blocks (`OpAssumption`): `filewrite()` splits what it writes
to that end, but the models do not count the blocks of a call. A kill wakes a
sleeper in `begin_op()`, which tests its conditions again.

**BufCache.** `lru` is the order of the list in `bcache.head`, front first. The
log is a client that pins buffers and writes them later. When no buffer is
unreferenced, `bget()` panics ("bget: no buffers"): the process stays where it is for
ever, with `bcache.lock`, and the others go on until they need that lock.

**Pipe.** `readers` and `writers` say who still has an end open; the last close
of an end calls `pipeclose()`. A byte is copied per step. A write cut short by
a kill returns without waking readers; `cut` marks that case.

**VirtioDisk.** A buffer is named by the process that holds it. The device
(external) fetches avail entries in order, completes requests in any order and
raises an interrupt for each.

**Uart.** The chip (external) has a FIFO and interrupts when it has drained;
`uartputc_sync()` reads LSR and writes THR in two steps without `tx_lock`. Writing
THR withdraws an interrupt that is pending for an empty FIFO, and `uartintr()` also
runs because of input (`IntrAckInput`), when the transmitter may be busy or idle.

**Console.** Input is typed by the interrupt: plain characters, newline, ^D,
backspace, ^U. A reader copies a character per step and holds `cons.lock`
between steps, except while asleep. Echo is left out.

**Inode.** Two names in one directory, a table of inodes in memory, and
`committed`, what the log has made durable. A transaction ends when no call is
inside one. `Crash` goes back to `committed`. `ireclaim()` then scans the inodes one
by one in the first process, and each orphan goes through `iget()`, `ilock()`,
`iunlock()` and the steps of `iput()` like any other inode, in a transaction of its
own; another crash may come at each of these steps. The table is shared with
inodes that no modelled name leads to (`OthersGet`, `OthersPut`), so it may be full:
`iget()` then panics, with `itable.lock` held for ever. The reference that `dirlink()`
takes and gives back when the new name exists is modelled by that panic only, since
nothing else can come of it.

## 3. Runs

All properties named here are invariants unless said otherwise. The number of
distinct states is that of the complete state graph.

| Run | Instance | States | Shows |
|---|---|---|---|
| `sched` | 2 CPUs, 2 slots, priorities 0, 10 and 19 and two invalid ones | 72,647 | `TypeOK`; `OneCpuPerProc`, `StackNotFreed`: kernel stacks are used by one CPU and not freed in use; `NoInversion` (action property): no CPU passes over a better process that has been waiting since its first pass began; `ImplementsCpuAssign`; `BestServed` (liveness): a process does not stay RUNNABLE with nobody ahead of it, unless its priority is changed again and again |
| `sleep_wakeup` | 2 processes, ticks modulo 4 | 75,594 | `TypeOK`, `NoLostWakeup`, `ImplementsCondVar`, `SleeperWakes` (liveness): who is SLEEPING becomes RUNNABLE |
| `proc_life` | 4 slots, 4 pids, a kill, one caller of `getpinfo()` | 1,255,800 | `TypeOK`; `NoMissedChild`: nobody sleeps in `kwait()` over a zombie, inherited ones included; `ParentAlive`; `SnapshotPidsDistinct` |
| `log` | 3 processes, 4 blocks, room for 2 calls, crashes | 78,720 | `TypeOK`, `NoPanic` (the log does not overflow), `SleepersHaveReason` (begin_op), `DurableOnReturn`, `ImplementsAtomicDisk` |
| `pipe` | 3 processes, 2 bytes of buffer, counters modulo 4 | 639,200 | `TypeOK`, `NotUsedAfterFree`, `SleepersHaveReason`, `ImplementsByteQueue` |
| `virtio` | 4 processes, 8 descriptors, indices modulo 16 | 35,633 | `TypeOK`; `DeviceOwnsBuffer`: the device works only on buffers whose process waits, and nothing returns unserved; `DescsConserved`; `SleepersHaveReason` |
| `buf_cache` | 3 processes, 4 blocks, 2 buffers, 2 pins | 52,881 | `HasItsBlock`: a process has the block it asked for, and `bget()` panics only when every buffer is pinned or in use; `SleeperHasHolder`, `ImplementsBlockStore` |
| `uart` | 3 writers, 2 CPUs, FIFO of 3 | 21,428 | `TypeOK` (the FIFO is not overrun), `BusyWillClear`, `WriterWoken` (liveness): a writer asleep is woken |
| `console` | 2 readers, 3 characters of buffer, indices modulo 6 | 164,880 | `InputReachesReader`, `ImplementsLineInput` |
| `inode` | 2 processes, 2 names, 2 inodes, 2 slots, crashes | 759,226 | `TypeOK`; `NoPanic`: no panic, except that of `iget()` when every slot is in use; `LinksOnDisk`; `NoDeadlock`: calls never all wait for each other; `BootReclaims` (action property): no orphan and no reference is left when the system is up |
| `born_killed` | 2 slots, `kill(0)` | | `NotBornKilled` is violated, see section 7 |
| `inode_leak` | as `inode`, no crash | | `LastPutFrees` is violated, see section 7 |

### Bounds

- `sched`: two slots and two CPUs are the least for which two schedulers compete
  for one process and a worse process can be dispatched before a better one. The
  safety properties are proved for every size; only `BestServed` rests on the
  instance. Several valid priorities matter to it: by changing a process's priority
  between the two passes of each CPU a third party can keep it waiting for ever,
  which is why the property excepts endless changes. In this instance CPUs are not
  scarcer than processes; with `NPROC = 3` and the priorities 0, 10 and 20 the same
  properties hold as well (507,972 states, about three minutes).
- `sleep_wakeup`: with ticks modulo 4 and pauses of 2 the counter wraps during a
  pause; a negative argument is included. `NoLostWakeup` counts the ticks that are
  due in its own way, so a comparison that forgets the wrap-around violates it.
- `proc_life`: four slots are needed for init to inherit a zombie whose parent is
  not init's child. Slots are reused, since four pids are given out.
- `log`: two calls fit and a third has to wait; four blocks are as many as the log
  holds, so that it overflows if a call enters without its reservation. Crashes are not bounded.
- `pipe`: a write of three bytes does not fit into a buffer of two; counters modulo 4
  wrap at twice the size of the buffer.
- `virtio`: eight descriptors, as in the driver, serve two requests, and two more
  processes wait for descriptors and wake each other. `VirtioView` leaves out ring
  entries that were read: they are overwritten before they are read again.
- `buf_cache`: four blocks share two buffers, so buffers are recycled, and pins and
  users together exceed them, so that `bget()` also finds none. With three processes two
  sleep on one lock, which `releasesleep()` has to wake both.
- `uart`: the FIFO holds one byte for each CPU and one for a process, the least the
  code needs (`FifoAssumption`; the chip has 16).
- `console`: three characters fill up and wrap within one line.
- `inode`: two inodes let a freed number be allocated again while another is in use.
  The rest of the system may take either slot, or both. Crashes are not bounded.
  `InodeView` leaves out what is in free slots and in inodes not read yet, which
  `iget()` and `ilock()` overwrite before anybody looks.

Deadlock is checked everywhere except in `pipe`, where the system may stop: all
processes have closed the pipe. In `inode` a crash is always possible, so that TLC's own
check says little there; `NoDeadlock` is the property.

### Symmetry

Processes, blocks, values or names are permuted where the model compares them
only for equality, and in no run that checks a liveness property.

## 4. Fairness

- `Sched`: strong fairness of each CPU's scheduler, which stands for a spinning
  `acquire()` that gets a lock released again and again, and of `yield()`, which
  the timer forces: `clockintr()` rearms it on every CPU. `amoswap` itself is not
  fair; this is an assumption about the memory system.
- `SleepWakeup`: the clock interrupts for ever (strong fairness, since its handler
  competes for locks), and a process that holds a lock goes on until it has let it go
  (`Locked`), because a spinlock keeps interrupts off and so the process on its CPU.
  Nothing is assumed of the scheduler: with strict priorities a RUNNABLE process
  may never run, so `SleeperWakes` is about `p->state` and not about what
  follows.
- `Uart`: the chip drains, interrupts are taken and handled, and a sender that holds
  `tx_lock` goes on, all of it weak fairness. Which of the woken writers sends
  next is open, and one may lose every time; `WriterWoken` says that it is woken, and
  not that its write returns. It is stated for the time when `uartputc_sync()` has gone
  quiet, because that function may keep the transmitter occupied for ever.

No fairness is assumed of calls that user programs may or may not make. In the
other models absence of lost wakeups is stated as an invariant
(`SleepersHaveReason`, `SleeperHasHolder`, `InputReachesReader`, `NoMissedChild`):
whoever sleeps still has somebody to wait for.

## 5. Proofs

Proved with TLAPS for every number of slots, CPUs and processes, every set of
arguments and every width of counters, from the named assumptions on the
constants (`NPROCAssumption`, `FreeAssumption`, `ArgsAssumption`,
`RunsAssumption`, `TickAssumption`, ...).

**SchedProofs.** The inductive invariant is `Inv == TypeOK /\ Exclusive /\ SteadyInv`.

- `Exclusive` strengthens `OneCpuPerProc` and `StackNotFreed`, which are not
  inductive: that no second CPU dispatches a process follows from who holds
  `p->lock` across `swtch()` (`SwtchHoldsLock`), from a CPU having a process exactly
  while it is switched away (`SwitchedHasProc`), and from the saved context of a
  process on no CPU being behind `sched()` (`OffCpuResumes`). `ExclusiveStep` has a
  step per action.
- `SteadyInv` says that `highest` accounts for every steady slot the first pass is
  behind. It makes `NoInversion` a consequence of the guard of `Dispatch`.

Theorems: `TypeCorrect`, `Invariant`, `StackExclusion`, `StackSafe`,
`SchedAssertions` (`sched()` never panics with "sched p->lock" or "sched RUNNING";
its two assertions about interrupts are not modelled), `PriorityHonoured`
(`NoInversion`), `Refinement` (`ImplementsCpuAssign`).

**SleepWakeupProofs.** The inductive invariant adds to the types who holds which
lock (`LockInv`, `TickslockInv`), how state and channel follow the position
(`StateInv`), and the heart of the argument, `FreshInv`: from its test of the loop
condition until it is woken, a process either still has to wait or will be visited
by the `wakeup()` in progress. `NoLostWakeup` alone is not inductive, because it
says nothing of a process that has tested and is not yet asleep. `NoLostWakeup` counts
the ticks since the call with the wrap-around spelt out (`Due`); the lemma
`WrappedDifference` connects that to the unsigned difference of `sys_pause()`.

Theorems: `TypeCorrect`, `Invariant`, `WakeupNotLost` (`NoLostWakeup`),
`Refinement` (`ImplementsCondVar`).

## 6. What is only model-checked

Liveness under fairness (`BestServed`, `SleeperWakes`, `WriterWoken`) is outside
of what TLAPS proves. The properties of the modules other than `Sched` and
`SleepWakeup` are checked on the instances above and not proved yet.

## 7. Findings

- **A process can be born killed** (`born_killed`, `proc.c:597`). Free slots have
  pid 0, so `kill(0)` marks the first of them as killed, and `allocproc()` does not
  clear the mark. In the same way `set_priority(0, ...)` stores a priority into a
  free slot (`proc.c:738`) and reports success; `allocproc()` resets the priority.
- **An inode can leak until the next boot** (`inode_leak`, `fs.c:361`). `iput()`
  releases its locks between freeing the inode and dropping its reference. If the
  number is allocated again in between, and the `create()` that did so fails (its
  `dirlink()` finds no block), that call's `iput()` sees two references and the
  first `iput()` does not look again: neither frees the inode. `ireclaim()` finds it at the next boot.

Also met while modelling, without a run of their own:

- A `kill()` between a test of `killed()` and the `sleep()` after it (`proc.c:410`,
  `pipe.c`, `console.c`) takes effect only when something else wakes the process,
  which need not happen. So no property says that a killed process exits.
- `scheduler()` dispatches every process that has the priority its first pass found:
  one that becomes RUNNABLE with a better priority later waits for the next round.
- `getpinfo()` reports the processes of every state, while the comment at
  `sysproc.c:111` speaks of the ready queue.
- A write to a pipe that is killed after some bytes returns without waking the readers
  of those bytes (`pipe.c:86`); they meet them at the next wakeup.
- The cache has as many buffers as the log has blocks (`param.h`): a log full of
  pinned buffers would leave none for `commit()`, and `bget()` would panic. The panic is
  part of `BufCache`, which shows that it takes a cache whose buffers are all
  pinned or in use; whether the real callers stay below that is not established here.
- The inode table has 50 slots (`NINODE`, `param.h:5`), while 100 files can be open
  (`NFILE`) and the disk has 200 inodes (`mkfs/mkfs.c:18`): with more than 50 different
  files in use `iget()` panics (`fs.c:267-268`). `NoPanic` shows that no reference is lost on
  the way there, not that it cannot happen.
- `log_write()` tests for a full log before it looks for absorption, so when
  the log is full it panics even for a block that is in it already. It takes calls
  that use their `MAXOPBLOCKS` blocks to the last one; `OpAssumption` excludes them.
- `nextpid` is an `int` that nothing resets (`proc.c:100`): after 2^31 forks it overflows
  and pids may repeat. In `ProcLife` pids only grow, up to a bound, so
  `SnapshotPidsDistinct` is about the time before.
- Changing the priority of a RUNNABLE process between the two passes of each CPU, over
  and over, keeps it from running although nobody is ahead of it (see `BestServed`).

## 8. Not modelled, and the plan

| Part | Why not, or when |
|---|---|
| file table and descriptors (`file.c`, `fdalloc`, `dup`, `fork`, `pipe`) | next: reference counts of files shared by processes, composed with the closing of pipes and inodes |
| block allocation and contents (`balloc`, `bmap`, `itrunc`, `readi`, `writei`) | next: which block belongs to whom across transactions, and writes split over several |
| several directories (`namex`, `mkdir`, `chdir`) | with the above: lock order along a path, removal of a directory in use |
| memory (`kalloc.c`, `vm.c`, `exec.c`) | next: frames owned by one page table or the free list, through failing forks and execs |
| `push_off()`/`pop_off()` (`spinlock.c`) | interrupt state per CPU, with the deadlock between an interrupt and a lock holder |
| priority inversion | scheduler and sleep locks in one model |
| assembly, traps, `plic.c`, boot | below the models: they provide the atomicity that the steps assume |
| `printf.c`, `string.c`, `mkfs`, user programs | formatting, copying, host tools; the calls of user programs are the nondeterminism of the models |

Proofs planned after that, in this order: the invariants of `Log` and its
refinement of `AtomicDisk`, `NoMissedChild` and `ParentAlive` of `ProcLife`,
`NotUsedAfterFree` of `Pipe`, `HasItsBlock` of `BufCache`, `DescsConserved` of
`VirtioDisk`.
