# charOS: a verification project in TLA+

charOS is an x86 kernel in C with a small user land and a 64-bit port. This directory models its
parts, checks the models with TLC on small instances and proves with TLAPS, for every size, most of
what the runs check of the scheduler, of processes and what they wait for, of memory, of the file
system in memory, of the network and of the disks, of the user shell and of the services of the
64-bit port. Paths below are relative to the repository; `A/`
stands for `kernel/arch/x86_64/`.

## 1. The system

### What makes it hard

* **One CPU; system calls are not preempted.** They enter through an interrupt gate and every IRQ
  gate turns interrupts off; `schedule()` returns at once on any CPU but the boot processor
  (`kernel/process/task.c:431`). So in a system call the code between two calls of `schedule()` is one atomic step,
  and the concurrency is in what happens while a task is parked *inside* a call: another
  task may signal it, kill it, reap it, free what it waits on, or overwrite a static buffer.
* **Kernel tasks are preempted.** The window server, the input router, the terminal and the boot task run with
  interrupts on; the timer calls `schedule()` (`kernel/kernel.c:1132`) and polls devices in the middle of what they do. `comp.c`, `wm.c`,
  `e1000_send`, `usbhid.c` and the services of the 64-bit port take no lock against it.
* **Wakeups are not addressed.** A task is BLOCKED and nothing says in what. Signals, the death of
  a child, a deadline and the primitive's own wakeup all write READY. Each primitive must survive
  being resumed for somebody else's reason.
* **Pointers to tasks outlive the tasks**: queues of semaphores, futex slots, the two wait slots of
  a pipe, the round-robin cursor. Inodes, libraries, windows and table entries of the 64-bit port
  have the same problem: a place is reused while somebody still knows its number.
* **Preemption of user code** between any two instructions of the thread library.
* **Shared frames**: fork shares pages copy-on-write, with reference counts kept by hand.
* **Interrupt handlers next to tasks**: keys, mouse, idle accounting, kernel boot with lines open.
* **Devices that answer late or not at all**: NVMe, virtio, xHCI and the PS/2 controller have
  time-outs, and an answer to something given up meets the next request.
* **Power failure** between sector writes, **lost, repeated and reordered segments**, a **wrapping
  tick counter**.
* **Failure in the middle**: exec, dlopen, a pipeline, a window, a transaction, an eviction each
  have several steps that may fail, and must undo the ones before.

### Components

| component | source | state | operations | talks to |
|---|---|---|---|---|
| scheduler | `kernel/process/task.c` | `task_list`, `state`, `priority`, `ticks_left`, `rr_cursor`, `current_task` | `schedule`, `task_create*`, `task_exit`, `task_yield`, `sys_nice` | everything that parks or wakes |
| process life | `fork.c`, `clone.c`, `wait.c` | `parent_pid`, zombies on the list | fork, clone, exit, wait, waitpid | scheduler, signals |
| timer, sleep | `kernel/drivers/timer.c` | `tick`, `sleep_until` | tick, nanosleep, waits | scheduler |
| signals | `kernel/process/signal.c` | `sig_handlers`, `sig_pending` | send, broadcast, set handler | wakes or kills anybody |
| semaphores, futexes | `semaphore.c`, `futex.c` | `wait_queue[16]`, `fut_slots[16]` | wait, post, wake, destroy | scheduler |
| thread library | `user/pthread.c` | mutex word, condition sequence number | lock, unlock, wait, signal | futex call |
| pipes | `pipe.c`, descriptors in `chfs.c` | ring, `readers`, `writers`, two wait slots | read, write, dup2, close | scheduler, the bounce buffer of `syscall.c` |
| frames, address spaces | `pmm.c`, `paging.c`, `fork.c`, `exec.c`, `mmap.c`, `brk.c` | counts, page tables, `user_regions[8]`, areas | fork, fault, exec, mmap, brk | each other |
| kernel heap | `kheap.c` | block list | kmalloc, kfree, grow | everybody |
| file systems | `chfs.c`, `diskfs.c` | inodes, blocks, descriptors; bitmap, journal | open, write, unlink; mount, recover, check | disks |
| disks | `nvme.c`, `virtio_blk.c`, `blk.c`, `gpt.c` | queues, phase bits | commands with time-outs | diskfs |
| network | `kernel/net/*.c` | connections, ARP table, rings | send, receive, retransmit | the card |
| desktop | `comp.c`, `wm.c`, `shell.c`, `inr.c` | surfaces, damage, windows, focus | move, raise, resize, close, click | input |
| console | `keyboard.c`, `mouse.c`, `input.c`, `pty.c`, `vt.c`, `term.c` | modifiers, queues, lines, screens | interrupt, route, read, write | desktop, pipes |
| housekeeping | `power.c`, `thermal.c`, `syslog.c`, `trace.c`, `prof.c`, `rtc.c` | counters and rings | tick, sample, log, alarm | timer |
| start-up | `kernel.c`, `isr.c`, `pic.c` | what is up, lines, handlers | the paragraphs of `kernel_main` | everything |
| USB | `xhci.c`, `usbhid.c`, `usbdesc.c` | rings, slots, devices | commands, enumeration, reports | keyboard |
| linker, shell | `user/dl.c`, `user/sh.c` | objects, TLS; jobs, descriptors | open, close; run a line | system calls |
| 64-bit port | `A/*64.c` | a table or a ring per service | calls of the service | mostly each other's tables |

What makes each correct: the *scheduler* gives the CPU to exactly one runnable task and starves
nobody; *process life* loses no death; *sleep* ends; a *parked* task can be found by the wakeup it
waits for; bytes arrive in order and once; *memory* and *storage* are handed out once and given back
once; what was *written* is read back, after a failure too; a *reused* place answers for its new
owner only; every *boot, enumeration and line* ends. `PROJECT.json` lists the gravest hazards,
each at its line, with the properties that guard it.

## 2. The modules

```
Dispatch            who may own the CPU                (abstract promise of schedule())
  ^  ^
  |  TaskLife       fork exit wait kill nanosleep
  |    ^   ^   ^
  |    |   |   Pipe        descriptors, ring, bounce buffer
  |    |   Futex <- Pthread    slots; mutex and condition variable
  |    Semaphore
Scheduler           the policy, implements Dispatch
PrivateMemory       what memory promises  <- AddressSpace   frames, CoW, faults, mmap, brk, exec

KernelParts   =  AddressSpace | DiskFS | ChFS | KHeap | Tcp | NetStack | BlockDevices
                 | Gui | Housekeeping | Console | DynamicLinker
Progress      =  Scheduler | Boot | Usb | UserShell                    (with fairness)
Port64        =  Memory64 | Paging64 | Kernel64 | Storage64 | Net64 | Access64
Port64User    =  Desktop64 | Session64 | Tools64 | Packages64
Tables64         helpers

Proofs:  TaskLifeProofs <- BlockingProofs (Semaphore, Pipe, Futex, Pthread)
         MemoryAndFilesProofs (AddressSpace, ChFS) <- PartsProofs (KHeap, Tcp, NetStack,
                                                      BlockDevices, DynamicLinker, Housekeeping)
         DesktopProofs (Gui)
         ProgressProofs (Scheduler, UserShell)
         Services64Proofs (Kernel64, Paging64, lemmas on Storage64) <- Port64Proofs (Storage64, Net64, Access64)
```

`PROJECT.json` names for every source line the definition that translates it. A helper whose lines
another definition already names is not listed again.

KernelParts, Progress, Port64 and Port64User are not compositions: their parts share no variables in the code beyond the calls
each offers, so a run picks one part and only that part takes steps. They exist to give the parts
constants and to check them together.

**Dispatch.** `state`, `current`, `next_pid`. A task is its pid; since `next_pid` only grows and new
tasks go to the tail, the list is the set of listed pids in order. `Schedule(st)` is a call of
`schedule()` when the caller left the states `st`: the caller goes on if it is RUNNING, or some
READY task takes over, or the idle task if there is none. The other modules build on this choice,
so what they show holds for any policy.

**Scheduler** is the policy: `KeepRunning` (slice not over), ageing and refill, the scan of three
levels from the cursor, the fallback to any READY task and then to idle. `Tick(S)`, `Block`, `Wake`,
`Spawn`, `Exit`, `Kill`, `Reap`, `Nice` are the callers. It is shown to implement Dispatch.

**TaskLife.** `op[t]` and `arg[t]` are the call a parked task is inside of; the action that resumes
it (`WaitAgain`, `SleepDone`, and in the other modules `SemAgain`, `futex_resume`, `ReadAgain`,
`WriteAgain`) is the code behind `schedule()` in that call. `sleep_until` is kept as the distance to
the deadline: 0 not set, 1 reached (the wrap of the counter is in Housekeeping). One signal number
is modelled. The pending bit is consumed where the code does it, at the switch to the task.

**Semaphore**, **Futex**, **Pipe** extend TaskLife with one primitive each; their next-state
relations contain the steps of TaskLife, so kills, deaths, handlers and reaping interleave with
every wait. A wakeup of a pointer whose task was reaped is a write to freed memory and changes no
task. `interrupted` in Semaphore and `disturbed` in Futex are history variables: something other than the primitive
has woken or killed a task that was inside it. **Pthread** runs the monitor of `user/userprog.c` on
Futex; a step is one atomic instruction or one system call, and `Tick` may come between any two.

**AddressSpace**: frames with counts, `pte` with `rw` and `cow`, region entries per page, areas, the
break. Each page is one page of the program: the stack (the image is treated alike), heap pages,
pages for mmap. `View` maps it to **PrivateMemory**: what each process reads at each page.

**KHeap**: the block list with both links, `split_block`, growth, `kfree` with merging, and the
callers in exec that walk the areas of a task twice. **ChFS**: inodes, blocks, descriptors of
several tasks, with unlink under an open descriptor. **DiskFS**: every sector write is a step, after
which power may fail (memory is lost, `diskfs_boot` mounts and recovers) and before which the device
may refuse. **BlockDevices**: NVMe submission and completion rings with phases, the read and write
of part of a native block, virtio requests given up and answered late, GPT and the start of diskfs.

**Tcp**: one connection with a peer over a network that keeps every segment and delivers any of
them, any number of times; the receive buffer is smaller than what the peer sends. **NetStack**: the rings of the card as a slower party, ARP, UDP sockets,
the header checksum over words of `SumWidth` bits. `e1000_send` is three steps, the choice of a descriptor, its filling and the end of the wait, and a
second call, from the timer, may come between any two; `tx_clash` remembers that two calls had chosen the same one.

**Gui**: a screen is a column of rows; surfaces have a place, a height and an owner, drawing is
abstracted to which surface a row shows. A command, a movement of the mouse or a redrawing may be preempted after it has read the damage
(`Preempted`), another one is made (`MadeBetween`), and the first goes on with what it has read (`Resumed`); `gui_mixed` remembers it. Of what two commands do to the
table of surfaces when one is preempted half way, only the damage is modelled. **Console**: the interrupt handler, the hub and the router
are separate steps; a terminal is its line, its ring and its screen. **Housekeeping**: small
machines for idle accounting, governor, logs, trace, profiler, the wrapping tick counter and the
alarm, with both ways the clock may count hours and write numbers. **Boot**: the list of the paragraphs of `kernel_main`, each with what it tests, uses and
makes, on machines with any of the devices missing, with interrupts coming as soon as they can.
**Usb**: command, transfer and event rings with cycle bits; the controller answers late, stalls, or
not at all; `enum_device` enters the device, counts it and clears its buffers in separate steps, with the timer's poll between. **DynamicLinker**: regions, objects, counts, TLS layout, one dlopen as a stack of frames
that may fail at each step; `tls_gone` has the TLS blocks that were unmapped while a register names them. **UserShell**: descriptor tables of the shell and its children, pipes
with their ends, each child a process of its own; a child that finds the job table full is marked `full`, since the shell forgets it.

**Memory64** to **Packages64** follow the services of the 64-bit port, one machine per file with the
file's table as its state: the same calls in any order, with the ghost state that says what the
callers are entitled to (who owns a frame, what was last written under a name). Pure functions
(parsers, solvers, versions, patterns, conversions) are checked against a definition of what they
should compute, over all inputs up to the bounds. In **Kernel64** the counter of RCU readers is loaded and stored in separate steps
(`rcu_torn`: an update was lost) and `wq64_enqueue` marks the entry used before it fills it (`wq_early`: it ran before). In **Paging64** `swap_shuffled`
says that `reclaim64_evict` has put a page back for want of a slot while others were queued. The port is checked in two runs: what is below the system call line
(Port64) reaches no recursive definition and is proved about; what users see and run (Port64User) has the solvers
and parsers that are written by recursion.

## 3. The runs

Each passing run takes under four minutes with two workers.

| run | constants | shows |
|---|---|---|
| Scheduler | 4 tasks, unit 1, all callers | `CpuOwned`, `CursorListed` (the cursor never points at a freed task, even between two calls), `BestLevelFirst`, `ImplementsDispatch` |
| TaskLife | 2 programs besides boot and idle, everybody may be signalled | `LifeSound` (`LifeTypeOK`, `OnlyCurrentRuns`), `ZombieNoticed`, `SleepsRunTheirTime` (a death passes over a sleeper), `DeadStaysDead`; `CallsEnd` (`WaitReturns`, `SleepEnds`) |
| Semaphore | 3 programs, 1 semaphore, queue of 2, value up to 2 | `SemQueueSound` (`SemTypeOK`, `SemWaiterQueued`), `NoStrandedUnit` |
| Pthread | 2 consumers, 1 producer, 2 slots, 2 items | `SlotsSound` (`FutexTypeOK`, `FutexWaiterHasSlot`, `SlotsReturned`), `MutualExclusion`, `NoLostWakeup` (`SleeperHasWaker`, `NoStrandedItem`) |
| Pipe | 2 programs, ring of 2, 3 bytes, 2 descriptors per end | `EndsCounted`, `NobodyStranded` |
| AddressSpace | 2 processes, 3 pages, 4 frames, thread stacks in mapped memory, kernel writes to writable pages | `PagesSound` (`NoDanglingPage`, `WritableUnshared`), `ImplementsPrivateMemory` |
| KernelParts | below | `KernelMemorySound`, `DiskSound`, `ChfsSound`, `NetworkSound`, `DevicesSound`, `DesktopSound`, `ConsoleSound`, `HousekeepingSound`, `LinkerSound`, `KernelSteps` |
| Progress | below | `StartSound`, `ShellSound`, `ChainObeyed`, `StarvationFree`, `PartsEnd` |
| Port64 | below | `KernelServicesSound`, `TablesSound`, `ContentsSound`, `AccessSteps` |
| Port64User | below | `UserServicesSound`, `UserServicesSteps` |
| PipeFifo | | violates `Fifo` |
| AddressSpaceKernel | | violates `ImplementsPrivateMemory` |

The four runs that say "below" take the parts one at a time: each behaviour starts in one part and
only that part moves. What they check are conjunctions of the properties the modules define, one
conjunction per area; a module states each conjunct with its meaning, and the run's module lists
them. Invariants are conjoined in `...Sound`, what a step may never do in one `[][...]` each
(`KernelSteps`, `AccessSteps`, `UserServicesSteps`), what must end in `PartsEnd`. An invariant about a part
holds trivially while another one runs, so every conjunct is checked exactly on its part.

TLC's coverage of the four runs shows every state change of every part happen, but for three: `tcp_tick` never
gives up (the code never counts up to `TCP_MAXRETX`), the NVMe disk has blocks larger than a sector,
and of Scheduler and AddressSpace the calls that their own runs make are left out.

The parts and the conjuncts about them:

| module | bounds | shows |
|---|---|---|
| AddressSpace (KernelParts) | the kernel's writes to any page, thread stacks anywhere, region table of 2 that overflows, 5 frames | `NoDanglingPage`, `WritableUnshared` when regions are dropped |
| DiskFS | 2 data sectors, 2 inodes, a directory and a file, 1 failure of any kind at any write | `FsckCleanAtRest`: bitmap and inodes agree whenever no operation runs and no write was lost; `UntornFilesIntact`: a file whose operations completed reads back, however often power fails |
| ChFS | 2 tasks, 2 descriptors, 3 inodes, 2 blocks | `ChfsBlocksOwned`, `RefCountExact`, `WriteStaysInFile` |
| KHeap | 8 units growing to 11, sizes 1 and 2 | `HeapTiles`, `FreeMerged` |
| Tcp | 3 bytes each way, segments of 2, buffer of 2 | `SlotCoversUnacked`, `ReceivedInOrder`, `NothingInvented` |
| NetStack | rings of 4 with 10 frames, a task and the timer that send, 2 ARP places for 3 hosts, 2 sockets, 4 words of 8 bits | `FramesKept`, `ReceivedAll`, `ArpCurrent`, `PeerReached`, `ChecksumAccepted`, `OneReceiver` |
| BlockDevices | queue of 3, 4 commands, 4 sectors per native block, 1 time-out | `OwnCompletion`, `NeighboursKept`, `VirtioReadsRight`, `RootKept` |
| Gui | 2 rows, 6 surfaces, 2 windows, 1 preemption while the button is down | `ScreenFresh`, `ClientAboveFrame`, `OneLitTitle`, `SurfacesOwned`, `HitIsSeen` |
| Housekeeping | log ring of 4, 4 samples, tick counter modulo 12, clock of 6 | `TicksAccounted`, `GovernorFollows`, `LogInOrder`, `ProfOrdered`, `SleepsMeasured`, `AlarmOnTime` |
| Console | hub of 3, buffer of 2, 2 inputs, lines of 3, screen 2 by 2, scrollback of 3 | `OneKeyReceiver`, `ModifiersAgree`, `MovesKept`, `KeyboardBack`, `LineReadable`, `ScreenShowsTail`, `ScrollbackKept` |
| DynamicLinker | 3 objects, 4 files with a cycle, 1 copy, 2 threads | `NothingLeaks`, `TlsApart`, `TlsMainFits`, `TlsInUseMapped`, `LoadedWhileHeld`, `DependenciesFirst` |
| Scheduler (Progress) | 4 tasks that compute | `StarvationFree` |
| Boot | 7 devices, all, none, one, all but one; no screen, 1024 and 1920 wide | `NothingBeforeInit`, `OpenLinesHandled`, `BootFits`, `BootCompletes` |
| Usb | 1 place for a keyboard or mouse, event ring of 3, 2 reports, stalls | `SlotsMatchPort`, `KeysAsReported`, `UsbBootEnds` |
| UserShell | 10 lines, two after each other, 3 segments, 3 jobs, 1 failing call | `ShellFdsBack`, `ChildFdsClean`, `JobsTracked`, `ChainObeyed`, `LineEnds` |
| Desktop64 | 2 windows on 2 workspaces, 3 themes, 4 plugin places | focus, geometry, stack, buttons, themes, launcher, panel, menus |
| Session64 | 2 settings with 2 watches, queue of 2, 2 notifications, 3 file entries | `ChangesReported`, `ExportImports`, `NumbersComeBack`, `PathsUnique`, `ListOrdered`, `NoneOverdue`, `RenameMovesAll` |
| Kernel64 | 3 tasks in 2 classes, 2 readers, 5 work items in a queue of 3, 9 time units | `NeverStarved`, `ReadersSafe`, `WorkOnce`, `TimersInPace`, `LockHeldOnce`, `ChannelKeepsMessage`, `WaitReportsReady`, `EventsInOrder`, `JournalKeepsNewest` |
| Storage64 | tables of 2 or 3, numbers of 3 bits for partitions | what is written is read back, recovered, frozen, excluded, counted |
| Tools64 | patterns of 2 items, 3 make targets, 2 characters from 10 at the edges of the encodings | `PatternsMatch`, `BuildsComplete`, `ConversionResumes`, `ExpressionsValued`, `WordsComeBack`, `HistoryNewest`, `EventsPolledInOrder` |
| Memory64 | 3 frames, 3 buddy orders, 6 units of video memory, 3 objects of the pool | each piece of memory has one owner |
| Paging64 | 6 pages, 6 frames, 2 slots, 2 evictions, 1 failing write | `PagesComeBack`, `QueuedOnce`, `SlotsOwned`, `SharersApart`, `CowCounted` |
| Packages64 | 3 packages, 4 dependency lists, 2 operations per transaction, words of 3 bits | solver, plan, transactions, updates, signatures, copying |
| Net64 | 3 octets, 2 ARP places for 3 hosts, messages of 3 options cut anywhere, 3 rules | parsers, tables, sockets, window, rules |
| Access64 | 2 users, 3 PAM modules, 2 rules of each kind | logins, stacks, stamps, policies |

**Bounds.** `MaxTask` bounds tasks ever created (boot thread and idle included). Two programs give
parent and child; three give two waiters and a third party, which the queue and the slots need.
Every table (`QueueMax`, `Slots`, `PipeSize`, `MaxRegions`, `*_MAX`) is chosen so small that it is full
in the run, and every ring turns at least once. `SliceUnit` 1 keeps the ratio of the slices of the
levels (2, 3, 4 units). `MaxSleep` 1 is enough since a deadline is either reached or not; `MaxValue`,
`MaxItems`, `MaxBytes` allow one more than there are waiters, or one more than fits. `MaxFrame` 4 is one directory, one stack
and two frames, so that memory runs out in every operation; 5 in KernelParts also leaves a frame for a thread's stack that nobody shares any more. Counters that only name things
(`SyncIds`, `DiskNumbers`, `NicNumbers`, ...) allow one more thing than there are places, so that a
place is used again. Words are narrow where sums may wrap (`PartBits`, `FileWord`, `SumWidth`,
`ClockWidth`); what they show does not depend on the width as long as it exceeds the tables. One
failure is enough where the property is about the state it leaves (DiskFS, Paging64, UserShell).
`SwapFrames` and `RECLAIM64_MAX` 6 let three pages be inactive at once, so that a page put back has others behind it; `EvictCalls` is enough for two slots
and a refusal, pages are touched for the first time in their order, and `SwapWritten` names one page that is written, since pages are alike.
`XHCI_NDEV` 1 leaves out that the previous keys of a device are cleared while the poll works on behalf of another one. `TcpRbuf` below `TcpRecv` fills the receive buffer.
Deadlock is checked in Scheduler, TaskLife, Semaphore, Pthread and Pipe. In AddressSpace all
processes may be dead, and the other parts end where a bounded counter or a finished boot ends.

**Fairness.** Scheduler: weak fairness of the timer tick, which is programmed once and never masked.
TaskLife: strong fairness of the tick (it stays pending in the interrupt controller while interrupts
are off and is taken when the running task is in user mode), weak fairness of a task resumed inside
a call (nothing preempts it), and strong fairness of handing the CPU to each program that is READY
again and again. The last one is what Dispatch leaves open; the scheduler part of Progress checks it
for the policy with tasks that compute. It is not a property of the policy when programs call
`nice`: `sys_nice` gives a fresh slice each time, so a program that calls it for ever keeps the CPU, and `StarvationFree`
is stated for programs that do not. Boot: weak fairness of the step of `kernel_main`, which nothing
preempts for good, and of the timer interrupt. Usb: weak fairness of the task that enumerates and of
its time-outs, which poll a bounded number of times; none of the controller, which may never answer.
UserShell: weak fairness of the shell and of each child, by the scheduler's `StarvationFree`.

## 4. What the two violations show

* **PipeFifo.** `bounce_buf` in `syscall.c` is static and shared; a writer that parks on a full pipe goes
  on with whatever the calls made meanwhile left there.
* **AddressSpaceKernel.** `copy_to_user` runs with CR0.WP clear, so writing to a copy-on-write page
  changes the frame both processes read.

### Disagreements without a run

Stated in the modules and refuted by TLC with the constants named; kept out of the list of runs
because they are lesser or have the same cause as another.

* `WaiterNoticesExit` (TaskLife): a handler cuts a nanosleep short; `sleep_until` stays set. When the task
  then waits, `wait_wakeup_parent` takes it for a sleeper and does not wake it (`wait.c:101`; `wait.c:95`
  "child öldüğünde parent'ı uyandır"). It recovers at the old deadline, which is why `WaitReturns` holds.
* `DeadStaysDead` in Semaphore and Pipe (kill): `signal_send` kills a parked task but leaves it in the
  queue; `sem_post_id` sets it READY again (`semaphore.c:66`; `signal.c:30-32` "kill ile ölür").
* `IdleOnlyWhenNothingReady` (Scheduler; any workload): ageing raises the idle task from 0 to a scanned level
  (`task.c:446`) although `task.c:66` says "idle_task->priority = 0; // en düşük". From then on idle competes with READY tasks.
* `WaitsForTheLiving` (TaskLife; fork, exit, wait): `wait.c:41` "Alive child var mı?" counts zombies (`wait.c:44`): waitpid for
  something that is no child parks for ever next to a zombie.
* A death wakes a parent parked in sem_wait, in a futex or in a pipe (Semaphore, Pthread and Pipe with fork and exit);
  `wait.c:99-100` says "yalnızca wait()'te bekleyen parent'ları uyandır". Only nanosleep is protected, by its deadline (`SleepsRunTheirTime`).
* `SleeperHasWaker` in Pthread without the condition on `disturbed` (a consumer that forked a child): the woken waiter leaves a stale slot behind
  (`futex.c:67`) that swallows a later wakeup; `pthread.c:150` says "her zaman birini uyandır (ucuz ve doğru)".
* `ReaderGetsEof` (Pipe; two readers): the second parked reader overwrites `reader_wait` (`pipe.c:107`), the first misses the end of file of `signal.c:37-38`.
* `CountsExact` (AddressSpace; brk, fork): a page grown twice has two region entries, and fork counts its frame twice (`fork.c:58`, `brk.c:63`): the frame leaks.
* `ProtRespected` (AddressSpace; mmap): the fault on a read-only area falls through to the region table and maps the page writable
  (`paging.c:264`, `mmap.c:122`); after a fork a copy-on-write fault makes it writable too.
* `HeapMapped` (AddressSpace; brk, exec): the break survives exec, the pages do not (`brk.c:9-10`, `exec.c:153`).
* `ImplementsPrivateMemory` with `RegionCalls` above `MaxRegions`, or with a thread's stack where nothing is mapped ("stray"): a mapping that did not fit into the region table is not inherited by fork
  (`task.c:112`; `mmap.c:76` "user_regions'e ekle ki fork CoW bilsin").
* `NeverOverlap` (KHeap): exec_user walks the areas of the old program twice and frees each block twice (`exec.c:112-136`); the next
  two allocations may share it, which `kheap_check_integrity` reports as "OVERLAP".
* `FsckSound` (DiskFS; 3 sectors, 3 paths, power failing twice): `df_check` passes a disk on which two inodes name one sector although its
  comment says "çift tahsis sayımla yakalanır": counts of two errors cancel.
* `TableKept` (BlockDevices; an NVMe and a virtio disk): `diskfs.c:35` "dfs_nvme=1 -> NVMe, 0 -> virtio-blk", but `blk_read` prefers the NVMe
  disk whatever was asked (`blk.c:28`), so that `diskfs_boot` formats over the partition table.
* `CloneKeepsStack` (AddressSpace; clone): `clone.c:35-37` maps the old and the new frame of a copy-on-write stack through the one window of
  `paging_scratch_phys` (`paging.c:111-128`; `paging.c:296` warns of it), so the new frame is copied onto itself and the thread's page has whatever the frame held.
* `FinAfterData` (Tcp): when the receive buffer is full, FIN behind data is taken although the data is not, and the bytes are lost
  (`tcp.c:363-375`, `TCP_RBUF` is 1024 and nothing empties it; `tcp.c:360` "Veri: sıra içi + pencere içi ise kabul et").
* `FramesOut` (NetStack): between the choice of a descriptor and its filling (`e1000.c:234-242`) the timer polls the card, and the answer to an ARP request
  takes the same descriptor: both calls report success and one frame goes out. A call that comes during the wait is refused.
* `ScreenFresh` when `gui_mixed` (Gui): damage another task adds between the lines of `comp_composite` that read the damage and clear it (`comp.c:383-384`) is lost, and
  the screen stays stale.
* The 12-hour mode of the clock (Housekeeping): `rtc_get_time` reads noon as 0 and midnight as 12 (`rtc.c:66-70`), and `rtc_alarm_in` takes the PM bit from the hour before the sum and
  converts the hour with the bit to BCD (`rtc.c:114-124`), so the alarm rings at another hour. `AlarmOnTime` is about the 24-hour mode.
* `TlsRegMapped` (DynamicLinker): `tls_main_drop` (`dl.c:546-552`), called by a close and a load that fails, unmaps the main thread's TLS block and leaves its register
  pointing there (`dl.c:891`, 908, 1031).
* `KeysAsReported` for any report (Usb): `enum_device` enters the device before it clears the report area (`usbhid.c:305-320`), and a report that the timer's poll reads
  in between is wiped.
* `ReadersSafe` when `rcu_torn` (Kernel64): `rcu64_active_readers++` and `--` are plain loads and stores (`A/rcu64.c:33-38`); a lost update lets `rcu64_process` free an
  object that is read.
* `WorkOnce` when `wq_early` (Kernel64): an entry is marked used before function and argument are stored (`A/workqueue64.c:31-34`), and a run that comes
  between calls what was there before.
* `QueuedOnce`, `SlotsOwned` when `swap_shuffled` (Paging64): without a slot `A/reclaim64.c:79-84` turns the inactive queue a, b, c into b, b, a: one page is queued twice and
  given two slots, another is dropped.
* `VirtioNeverWrong` (BlockDevices; one request given up): the late answer of a request given up is taken for that of the next one.
* `ReleasedStaysPut` (Gui): a window moves after the button was released when the release is handled after another
  move; `inr.c` says "Bırakma sonrası hareket pencereyi oynatmamalı".
* `DesktopHasPanel` (Boot; 1920 wide): the panel surface does not fit and the desktop comes up without it (`kernel.c:1034`).
* `ReportsFlow`, `ControlAnswers` (Usb; long enough runs): the cycle bit of a link TRB is never rewritten, so a ring dies when it has turned
  once; and the status event of an earlier transfer completes the next one (`xhci.c` "EP0 kontrol transferi (senkron)").
* `TextTerminalTyped`, `ScrollbackScrolls` (Console): keys such as '-' typed in the focused terminal reach nobody.
* `LoadedWhileBound` (DynamicLinker): an object to which a symbol of another one is bound can be closed (`dl.c:5` "15E: refcount/dedupe").
* `LfOwnedOnce` with two allocating CPUs (Memory64): the ABA case of a stack with compare-and-swap on a plain pointer (`A/lfalloc64.c` "lock-free kalloc — Treiber stack, CAS").

### What the models do although a reader may not expect it

Behaviour of the code that the models keep and the properties are worded around.

* *Time.* A deadline behind the wrap of the tick counter ends at the next tick; one that falls on 0 means none and sleeps for ever (`timer.c:50`).
  `power_idle_pct` overflows after some days.
* *DiskFS.* The journal's sector can be allocated to a file and is zeroed by recovery; errors of bitmap writes are ignored. A failed mount leaves
  `mounted` set, and a superblock that cannot be read once leads to a format. *ChFS.* An unlinked open file writes into block 0.
* *Network.* TX descriptors are never cleared, so `e1000_send` reports failures once the ring has been used; two sockets may have one port, and a datagram overwrites an
  unread one. `TCP_MAXRETX` is never reached, and connection slots are never given back.
* *Desktop and console.* A focus change between interrupt and router doubles or loses a key; `comp_set_bg` does not damage; `wm_resize` without memory leaves the
  frame resized; a pseudo terminal's backspace edits a finished line; a line longer than the reader's buffer is never readable.
* *Linker, shell.* A failed dlopen keeps its dependencies loaded; paths of 24 characters and more never dedupe. A failed `pipe()` closes the previous end twice; the fifth segment
  of a pipeline is dropped; with a full job table a child is not tracked.
* *64-bit port.* Maximising in full screen saves the screen's geometry; a theme copied over its ancestor makes a cycle; a full change queue drops notifications; cut and paste
  into the same directory deletes the file; `reclaim64_evict` without a slot loses or repeats queue entries and never asks `cow64`;
  `journal64` never empties its table; device errors of commits are ignored; `part64` and `flock64` wrap start plus length; `ext2_64` reads inodes of all groups from the
  first; `pam64` goes on after a required module failed although its comment says "basarisizsa zincir biter"; `update64_commit` does not check
  compatibility; `regex64_search` ignores '$'; UTF-8 of four bytes is not checked for continuation.

## 5. What is proved

Each theorem below holds for every value of the constants that satisfies the assumptions its module
names; a further condition is part of the theorem and stated here. Every invariant a proof uses was
first checked by TLC on the constants of its run.

### The scheduler (`ProgressProofs`)

* **TypeCorrect**: `Spec => []TypeOK`. Slices are never empty and never above four units: ageing,
  nice, inheritance and refill all keep the range, and the refill at the end of `schedule()`
  (`ticks_left <= 0`) never has anything to do.
* **CpuHasOneOwner**: `Spec => []CpuOwned`.
* **SchedulerImplementsDispatch**: `Spec => Cpu!DispatchSpec`.
* **CursorNeverDangles**: `Spec => []CursorListed`. The code checks the cursor against the list
  (`task.c:455`) for fear of a reaped task; the theorem says that the check never finds one.
* **LevelsRespected**: `Spec => BestLevelFirst`.

`LeastIsThere` (a non-empty set of numbers has a least element, from well-foundedness) gives
`ChosenTask`: the scan ends with a READY task, or with idle when nobody is READY. `CpuOwned` alone is
not inductive: `Spawn` could hand out the pid that runs. The inductive invariant is
`IInv == TypeOK /\ CpuOwned /\ UnusedAhead`, where `UnusedAhead` says that pids not given out are
unused; and `ScheduleOwned` needs that the idle task never parks or exits, which is why those actions
exclude it. The refinement needs no invariant: every choice is made from the states passed in.
`CursorListed` is strengthened by `CursorFollows`: only the idle task may have a priority outside the
three levels, and while a program runs the cursor is that program or empty. With the levels empty the
fallback can then only choose the idle task (`FallbackIsIdle`), which reaps nobody; and a program
that reaps is itself the cursor. `LevelsRespected` rests on `NextAfterIsThere`: the scan of the best
occupied level stays in that level.

### Processes and what they wait for

* **LifeIsSound**, **ZombiesAreNoticed**, **TheDeadStayDead**, **SleepsAreWhole**
  (`TaskLifeProofs`): the invariants `LifeSound`, `ZombieNoticed` and `SleepsRunTheirTime` and the action property
  `DeadStaysDead`, for any number of tasks.
  `LifeIInv == LifeSound /\ CurrentRuns /\ UnusedAhead /\ ProgramsCall /\ BlockedInCall /\ ZombieNoticed`.
  That a dead child is noticed rests on `BlockedInCall`: whoever is BLOCKED is inside a call that its
  `op` names, so that a parent the death does not wake is not inside wait, or has a deadline.
* **WaitersAreQueued**, **NoUnitIsStranded** (`BlockingProofs`): `SemQueueSound`, and `NoStrandedUnit`
  while nothing but the semaphore wakes or kills a waiter. The modules that add calls to TaskLife keep
  less of it, `CallerOK` (`LifeSound`, `ProgramsCall`, `CurrentAwake`, `UnusedAhead`), because
  their calls may be resumed for anybody's reason. `SemIInv` adds the type of the call's argument and
  `QueuedBorn`: an entry names a task that exists or existed, so a new task is in no queue. Units need
  `QueueExact`: without interference the queue holds exactly the parked waiters.
* **SlotsAreSound**, **MutexExcludes**, **NoWakeupIsLost** (`BlockingProofs`): `FutexIInv` counts slots
  (`SlotExact`: without interference a slot in use has a waiter). `LockIInv` adds `MonitorInv`, what each
  program counter of `user/pthread.c` means: one holder, who holds finds the word locked (`HeldLocked`),
  a locked word has a holder or somebody on the way to take it (`LockedHeld`). `WakeIInv` adds
  `SleeperHasWaker` and `ItemsCovered`. Mutual exclusion needs nothing of who wakes or kills whom; that no
  wakeup is lost does. `PthreadAssumption`: the two words are different addresses, and the sequence
  number has room for what the bound lets it count.
* **EndsAreCounted**, **NobodyIsStranded** (`BlockingProofs`): `EndsIInv` has `EndsCounted`, and that tasks not yet
  born have no descriptors. `PipeIInv` adds the ring's contents and `ParkedOK`: whoever is parked is the
  one its wait slot remembers. The second theorem assumes `OneReaderOneWriter`: one task reads and one
  writes, as in a pipeline of the shell; a second reader overwrites the slot of the first (`ReaderGetsEof`, section 4).

### Memory

* **PagesAreSound** (`MemoryAndFilesProofs`): `SpaceIInv == TypeOK /\ Backed /\ FutureEmpty /\ AliveBorn`.
  `NoDanglingPage` and `WritableUnshared` are not inductive apart: a copy-on-write fault makes the page
  writable when the count is one, so `Backed` says of each frame that what maps it is counted, and that a writable
  page is the only one. Processes not yet born map nothing.
* **MemoryIsPrivate**: `Spec => ImplementsPrivateMemory`, for `OrderlyPrograms`: the kernel writes only
  to pages their program may write, thread stacks lie in regions, and the region table does not
  overflow. All three are needed (section 4). Nothing is claimed of what a new thread finds on its stack page: `PrivateMemory` lets it hold anything. The step simulation rests on `RegionCover`: every page a
  process can touch lies in a region, so fork copies it.
* **KernelMemoryIsSound** (`PartsProofs`): the same for the run of the kernel's parts, together with the
  kernel heap. `HeapIInv` says, until exec frees twice, that the headers in memory are exactly the
  blocks, that each ends where its `next` begins or at the end of the heap (`Tiled`), that
  `prev` is the other direction, and that free neighbours are merged except where the heap grew.
  The list is what following `next` reaches; that it is all of the blocks (`ListedAll`) is the lemma by
  which the inductive step need not follow it: a smallest unlisted block would have a listed
  predecessor. `SplitOK`, `Joined`, `ExpandOK` are the three ways to change the tiling, `FreeOK` and
  `AllocOK` the calls built from them; `GrownByPages` keeps count of where the heap may have a seam.

### Files, network, disks

* **FilesAreSound** (`MemoryAndFilesProofs`): `ChfsSound`. `ChfsIInv` adds `ZeroBlocks` (a cleared inode has block numbers
  0) and `LifePast` (no descriptor is from a life of its inode that has not begun), without which a recycled file number
  could meet a descriptor that fits it.
* **NetworkIsSound** (`PartsProofs`): `NetworkSound`, for receive buffers of any size that hold a segment: the bytes read are the first ones sent, in
  order, and none is missing before the FIN unless the buffer was full when it came (section 4). A frame that was accepted goes out unless two calls chose one descriptor. `NetIInv`: of TCP that only numbered bytes are on the way (`SentNumbered`) and
  which number is expected next (`NextExpected`); of the card that the transmit ring is used once, so that
  frame k is in place k - 1, whichever call is at which of its steps; of the receive ring that frame k is in place k - 1 modulo its size, and that the card stops
  two places behind the driver once that has moved, one before; one ARP entry per host; a socket's peer was once reached.
  Counting round a ring is `RingNext`, `RingApart`, `RingAdd`, proved once.
* **DevicesAreSound** (`PartsProofs`): `DevicesSound`. `NvInv` has `EntriesTurned`: the completion entries before the head
  carry the driver's phase and the others the other one, so that a stale entry is never taken; at most one command waits,
  or its completion is entered. While a write command is on the way its buffer is the native block with the one
  sector changed. `VioOne`: as long as no request was given up, one chain is under way and an answer is its own.
* **StepsAreSound** (`PartsProofs`): `KernelSteps`, the two action properties of the kernel's parts. `DlInv` is about the
  nested calls of `dl_open_mode`: no path is loaded twice (`HandlesOK`); every loaded object has run its initialisers or has
  a call under way, one each (`UnderWay`); and what a waiting call has asked for so far is in the table, its initialisers run or
  its own call below on the stack, or the next call is about to open it (`Served`). An object may so start before
  one that waits for it in turn, in a cycle, and before no other. That a datagram meets one socket is not a matter of ports being
  distinct, which the code does not ensure: the scan stops at the first match (`OneSocketStep`).

### Counters, clocks, logs and sums (`PartsProofs`)

* **HousekeepingIsSound**: `PartsSpec => []HousekeepingSound`. `HouseIInv` is one invariant for each part. Of the thermal governor
  (`ThermalInv`) it says how old the sample in each place of the ring is, that the last `hot` samples were hot, and how many states
  each hot sample beyond a whole average has moved; of the log (`RingHolds`) that the place j bytes before the head holds
  the j-th last byte logged, without regard to where the ring wrapped; of the clock what its deadline means on either side
  of the wrap; of the alarm that, when hours run to 24, seconds, minutes and hours carry to the second of the day that was asked for.
* The sum of samples, the bytes of a message, the words of a header and the folding of carries are recursive functions. Each has
  a solution, by induction over the set of numbers up to which it has one (`CountingUp`, `AllBefore`: a set with 0 and the
  successors of its members has every number, since there is no least one without), or because a closed form solves it: `Rest`,
  the remainder modulo `SumWidth - 1` that is 0 only of 0, is what `Folded` leaves (`FoldedIsRest`). What a header sums to without its
  last word and what that lacks is then all ones (`RestAndWhatItLacks`).
* The assumptions: sizes, widths and counts are positive, `SumWidth` at least 2, sleeps shorter than the counter's round, messages
  sequences of numbers.

### The desktop (`DesktopProofs`)

* **DesktopIsSound**: `PartsSpec => []DesktopSound`, for any number of rows, surfaces, windows and heights of windows, with redrawing preempted anywhere, until an operation was made
  in the middle of another. `GuiIInv`
  conjoins one part for each thing the five conjuncts take for granted:
  * `GuiTable`: no surface is twice in the table, and a free slot is cleared.
  * `GuiPairs`: the slots 1 and 2, 3 and 4, ... are free together or hold a frame with its client above it. `ClientAboveFrame` is not
    inductive: that the client is above its frame says nothing of what a failing `comp_create` leaves between them. Two calls of
    `comp_raise` keep the pairs because the surfaces that stay close up in their order (`GuiShape`, `GuiPairsRaised`).
  * `GuiManager`, `GuiOwner`: numbers of windows are fresh, the focused window is listed and not minimised, and every surface but the
    panel and the icons has a window, every window both its surfaces, through a `wm_create` that fails at any of its allocations.
  * `GuiPlaced`: surfaces lie where their window says; of the frame's height only that it covers the title, since a resize that is
    refused in its middle leaves it different. With `GuiPairs`, whichever surface of a window is on top in a row, the scan of
    `wm_hit_test` answers that window (`HitIsSeen`).
  * `GuiTitles`: a frame is lit just if its window has the focus. `wm_focus` is called when this is wrong of the window that gets it
    (`GuiAlmost`), and repairs it.
  * `GuiScreen`: outside the damage the screen shows the scene. `GuiSame` says that two tables have the same surfaces in the same order
    but for those an operation works on, and so the scenes differ only where these lay or lie: to damage just them is enough.
* `GuiAssumption`: at least two rows and two slots, and windows at least two rows high, the title and one of the client.

### The user shell (`ProgressProofs`)

* **ShellIsSound**: `PartsSpec => []ShellSound`, for lines of any length, any number of lines, and any number of failing
  calls: between commands the shell has its terminal back (`ShellFdsBack`), no child keeps an end of a pipe it does not use
  (`ChildFdsClean`), and every child that did not meet a full table is in it until it is reaped (`JobsTracked`).
* **ChainIsObeyed**: `PartsSpec => ChainObeyed`.

None of the three is inductive. `ShInvariant` says where the shell is in its line and what it has in hand there (`ShPlace`), which
descriptors are open at each place, the saved copies at 14 and 15 or the ends of at most two pipes included (`ShFds`), what a child that has not set itself up
inherited (`ShChildren`), that a child is listed, or about to be waited for (`ShJobs`), and that between the parts of a segment the chain's status
is that of the last command or of a part that expanded to nothing (`ShStatus`). A pipe takes the two lowest free numbers, which
are below 14 because at most four ends are open (`FreeIsThere`). `ShAssumption` says that lines are sequences of
tokens and are not empty. That `Split` gives sequences of tokens (`ChainIsPieces`) is all that is needed of parsing.

### The services of the 64-bit port

Each service has an invariant of its own, `SchedInv`, `RcuInv`, ..., inductive under the service's steps; the three
theorems conjoin them, and a step of one part leaves the variables of the others alone.

* **KernelServicesAreSound** (`Services64Proofs`): `PartsSpec => []KernelServicesSound`; `ServicesInv` conjoins eight
  invariants. *Nobody starves* because what a task has waited
  and its place in the queue never exceed the size of the table together: a turn of its class costs a task a tick and moves it up by one.
  *Readers are safe* because an object is in one place only, published, in one entry of the table, or free, and while the table is gone
  through a reader has nothing but what is published; the counter is the number of readers inside while no update was lost, whichever of its steps each
  reader is at (`RcuInv`). *Work runs once* because an entry in use has been filled, as long as none ran before it was (`WqInv`). *Pages that share a frame* need that a frame is counted at least once for each page that
  maps it, and that a merged frame is named by an entry with the hash of what it holds.
* **TablesAreSound** (`Port64Proofs`): `PartsSpec => []TablesSound`, 23 invariants. Most are about a table and a history
  variable that says what its callers are entitled to: entries are unique by their key, lie in the table, and agree with
  the history, and what was dropped from the history is not in the table. Where numbers are given out
  (inodes, snapshots, sectors, ports), the invariant adds that numbers not yet given out occur nowhere. A
  snapshot stays as it was because it keeps the old contents of exactly the blocks that were changed since.
* **AccessStepsHold** (`Port64Proofs`): `PartsSpec => AccessSteps`. A rule added later takes nothing back since the scan stops
  at the first match and rules are appended; `AccessInv` says that the rules are lists, that tables hold a name
  once, and that a rule set in force is closed.

The assumptions (`Kernel64Assumption`, `Paging64Assumption`, `Storage64Assumption`, `Net64Assumption`, `Access64Assumption`) say that
sizes of tables are numbers, that a queue or a buffer has at least one place where the code would otherwise divide by its size,
that readers and pages are finitely many, and that 0, which the tables use for "nobody", is no port, station or group.
`ContentsSound` is about whole contents and stays with TLC (below).

### What is only model-checked, and why

* Liveness and everything about ENABLED (`CallsEnd`, `StarvationFree`, `PartsEnd`): out of reach of the prover.
* What recursive definitions compute for every input, in the 64-bit port: solvers,
  parsers and conversions (`UserServicesSound`, `UserServicesSteps`: the run Port64User reaches RECURSIVE operators, so nothing
  can be proved where it is extended).
* `ContentsSound`: what a parser reads, what an address text means and how a buddy allocator splits are folds over
  their input, and the invariants say what the fold gives for all of it.
* `DiskSound`: the writes an operation has ahead are a list built by recursion over blocks and
  inodes, and the invariant would be about what executing the rest of it does.
* `ConsoleSound`: the rows of a screen are a fold over what was written; its other conjuncts need no recursion.
* `StartSound`: the boot's paragraphs are a table of records that TLC evaluates, and a USB report is compared through folds.
* `LinkerSound`: `NothingLeaks` and `TlsApart` depend on a layout computed by folds. `LoadedWhileHeld` needs no fold and is not proved
  so far.

## 6. Not modelled, and the plan

Left out of the modelled parts: the register switch, the signal frame, `pthread_create` and `join`, `pipe_read_nonblock`,
image parsing in exec, frames of page tables, the separate region tables and breaks of threads that share an address space,
line editing and history of the shell, queries of the linker, animations, the commands of the kernel's own shells, and the self-tests except where
they borrow from tables boot fills.

Not modelled at all, because it is text, pixels or registers without control worth checking: proc and device files, drawing, the kernel's
applications, sound, the UEFI loader, descriptor tables, APIC, ACPI and PCI set-up, the declarations of `longmode.h`, the test program `userprog.c`. Not modelled because their
operations are single assignments: credentials, capabilities, sandbox. Of the 64-bit port: threads, processes and name spaces, layered and remote file systems
(`zfs64`, `overlay64`, `mirror64`, `nfs*`, `fuse64`), `dnsresolv64`, `ha64`, `wpa364`, the DHCP client's states and duplicate address detection, the linker and C library, devices
and power, sound, graphics and games. `PROJECT.json` lists them as components.

Next, in this order:

1. Proofs of what in `LinkerSound` and `ContentsSound` needs no fold; the conjuncts of `ConsoleSound` that need no recursion.
2. The descriptor tables and credentials of `process64.c` next to the services that trust them.
3. The layered file systems of the 64-bit port and the DHCP client; signal frames; capabilities over fork and exec.
