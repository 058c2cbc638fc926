# A TLA+ model of the bloodmoon kernel

bloodmoon is a 64-bit kernel in C. One CPU runs tasks (the others halt after
boot). The timer (PIT) interrupts 1000 times a second; every 50th tick preempts
(`go(50)`), every 100th wakes sleepers. Tasks run in the kernel, share its data,
and protect it with `lock_scheduler` (a counter that makes `yield` return at
once), with spinlocks that switch interrupts off, or not at all. Interrupt
handlers run with interrupts off on one shared stack. Most of what can go wrong
is therefore an interrupt or a preemption between two statements, a long
sequence of legal calls, or an index at the edge of its array.

Line numbers below are those of the files under `src/src/`.

## The system and what is modelled

| Part | State | Modelled in | Extent |
|---|---|---|---|
| Scheduler, sleep lines, PIT dispatch | task list, task states, lock counter, sleep queue | `Scheduler` | every list, state, lock and timer operation; no stacks, contexts, address-keyed sleeps |
| Spinlocks, `lock_t` | lock words, saved flags, interrupt flag | `SpinLock`; `try_acquire_lock` in `NetStack` | all but the semaphores, which have no caller |
| Interrupt dispatch, context switch | EOI flag, interrupt stack, saved contexts | `Interrupts` | no exceptions |
| Page frame allocator | bitmap, two cursors | `PageFrames`, abstractly `Allocator` | all but statistics; single pages access by access |
| Heap | segment headers in a list | `Heap`, abstractly `Allocator` | all but stacks, mapping, statistics |
| Circular buffer | array, two offsets, size | `CircularBuffer`, abstractly `BoundedQueue` | all |
| Terminal input, line discipline | two rings | `Tty` | input only |
| Network stack, e1000 | receive and send queues, descriptors, ARP cache, receive lock | `NetStack` | one interface; header layouts reduced to the fields that are tested; no card set-up |
| Ext2 | bitmaps, inode table, a directory, counters on disk and in memory | `Ext2` | create, grow, delete, sync, switch-off, failed writes; one block group, direct blocks, no contents |
| Serial rings, linked lists, VFS, FAT32, devices, FIFO, paging, system calls, disk, PS/2, graphics, ACPI/PCI/SMBIOS, shell, libraries | | | not modelled, see the end |

`PROJECT.json` lists every part with its sources and the reason where it is left
out, the code lines each definition stands for, and the hazards, each at its line.

How the parts interact: the PIT interrupt (`Interrupts`) calls `wakeup_handler`
or `yield` (`Scheduler`). Sleep queues are protected by a spinlock and allocated
from a heap with its own (`SpinLock`, `Heap`); the heap grows by page frames
(`PageFrames`). The serial interrupt feeds the terminal (`Tty`) and may raise a
second interrupt (`Interrupts`). The network interrupt fills a queue that the
worker, in a task, empties (`NetStack`). The modules are separate: each replaces
its neighbours by a free choice (which task is picked, when a tick wakes) or by
what they guarantee. `NetStack` composes the stack, the card and its interrupt,
the worker and the shell commands that use them.

## The modules

**Scheduler.** `tasks` is the list from `task_head`. A locked operation is two
steps, `lock_scheduler` and the work, so ticks fall inside it. `create_task` and
`add_task` are separate because the caller may be preempted between them.
`_tsleep` and the `yield` that follows are separate too. A PIT interrupt is
`PitWakeup`, else `PitPreempt`, else `PitCount`. The tick counter is kept modulo
its two periods; a sleep entry keeps its age in place of its start time. The
identifiers, priorities and stacks inside `create_task` other than the pid are
left out. `remove_task` is given an assumption: its caller does not unlink the
running task or the head (nothing in the kernel calls it).

**SpinLock.** Each access to a lock word and each change of the interrupt flag
is a step. An operation is the path of locks it nests, taken from the call sites
in `sline.c` and `heap.c`.

**Interrupts.** Follows whose instructions the CPU executes, since every gate
uses the same interrupt stack. It stops once a task runs on another's frame.

**PageFrames.** `request_page` and `free_page` take no lock and tasks call them with
interrupts on, so a step is one access to the bitmap or to the static cursor: each
test, wrap, comparison and increment of the search, the check and the store of
`lock_page` and `unlock_page`, the checks afterwards, the return. The bits of a byte
are stored together, as they were when the byte was read, so a store can undo
another task's. What the compiler may choose is chosen freely: whether a byte is
read again before it is stored (`Reread`), and whether a call reads the cursor from
memory each time or once into a register (`cached`); gcc 12 with the Makefile's `-O3`
does the latter. Preemption starts with `go` (`boot`); until then one flow of control
makes the calls, which include all of `request_contiguous_pages`, so that is one
step. Two history variables say who was preempted: `disturbed` tasks since their
call began, and `torn` histories by a task in the `Window`, from `lock_page`'s
argument to the return of `request_page` or between the first check and the store of
`free_page`. A panic ends the behaviour with its message. The specification is
`FramesSpec`: the names differ from those of `Heap`, as `MemoryProofs` extends both.
A search from cursor 0, or from past the last page, never ends in full memory: in
`request_page` the model goes round with it, in `request_contiguous_pages` it has no
step.

**Heap.** Addresses are in units of 0x10. `_malloc` is its search, expansion and
second search; the heap's lock makes it otherwise atomic. Callers free only what
they own.

**Allocator** is what callers of both may count on: memory is handed out in
blocks, to one holder at a time, until that holder gives the block back. `Heap`
refines it with the payloads of the segments its callers hold (`HeapOut`),
`PageFrames` with the pages of each task and the pages locked for runs
(`FrameOut`). A split, a merge, an expansion, a search or a panic is then a
stutter. `_realloc` is two steps, the new block before the old one.

**CircularBuffer** refines **BoundedQueue**, a queue that drops its oldest bytes.

**Tty.** The serial interrupt is one step. `tty_read_inb` is split into its
accesses to the shared indexes as the optimised build makes them: it loads
`inb_read` twice and stores it twice when it wraps. `Rounds` is the ring after each
round of the loop of `flush_cb`. Characters that only print
are left out. When the line discipline leaves its buffer the model stops.

**NetStack.** The interrupt is `Interrupt`, one `e1000_received` per frame and
`InterruptReturns`; no task runs in between. A pass of `network_worker` is its
lock, per frame `Process`, the wait for the card if it answers, and `Unlink`, and
`Release`. Sending is split where it waits for the descriptor's done bit. The
history numbers the frames. `dropped_rx` starts with what `kmalloc` left there.

**Ext2.** One step per write to the disk. A write of a kind in `Failing` may
fail; the caller goes on or gives up as the code does, which for the bitmaps is
to go on: `EXT2_WRITE_FAILED` is positive where the callers test `<= 0`. `Restart`
keeps the disk and drops the memory; it may come between any two steps, also in
the middle of a creation, growth, flush or deletion. An inode that is clear in the
bitmap is handed out although a file has it, as `ext2_delete_inode` clears a whole
byte of bits: two entries may share an inode, and the model goes on from there. `cut`
records that a deletion has left its inode a name, because it was cut short or
because there was a second entry; `leaked` the blocks that were lost. Sizes are in half blocks, so that the rounding of
`DIVIDE_ROUNDED_UP` shows. Names are sequences, for the lookup by prefix. The
model stops where an inode beyond the table is handed out (`stray`) and where there
is no superblock to mount (`lost`).

Definitions that follow a `Fault:` comment are deliberate errors, named in
`PROJECT.json` under "mutants": each property fails when its one is put in place.

## The runs

| Run | Shows |
|---|---|
| `sched_core` | list, states, lock counter and timers stay consistent under every interleaving of two tasks, idle and ticks; a preempting tick that finds no lock and no wakeup due switches to a ready task |
| `sched_live` | a ready task gets the CPU although others never yield; sleeps end, signals are consumed |
| `spin_core` | exclusion, no descheduling inside, interrupt flag restored, no wait for an inner lock |
| `int_core` | one acknowledgement per interrupt, none pending at a switch |
| `pages_core` | refinement of the allocator, wherever tasks are preempted outside the `Window`; a search nobody disturbed reports exhaustion only when it is real |
| `heap_core` | segments disjoint, ordered, merged; at most two expansions; refinement of the allocator |
| `ring_core` | refinement of the bounded queue |
| `tty_core` | the reader gets what was typed, unless the ring was overrun or the line discipline left its buffer |
| `net_core` | frames are processed, queued or counted as dropped; a pass empties the queue; the cache follows the replies; each frame queued is sent once, and unchanged in the card's first round; the lock is given back |
| `ext2_core` | blocks have one owner until a deletion leaves its inode a name, counters and superblock agree, every marked block is a file's or is recorded as lost, files have the blocks their sizes ask for, with one failed write (not of a bitmap or a flush) or switch-off anywhere |

Runs that end in a violation, each of something the code says of itself:

| Run | The code |
|---|---|
| `spin_wakeup` | stops if the timer strikes between test-and-set and `cli` of `sleep_lock` |
| `int_preempt` | loses a preempted task's frame on the shared interrupt stack |

### Bounds

Two or three tasks suffice for the scheduler's races, which are between a task
and the timer or between two tasks. Periods 2 and 4 keep
the ratio of 50 and 100, so preemption and wakeup coincide as they do in the
code. Two pages, one of them reserved, two tasks and the bits past the end let the
cursor wrap and pass the end, memory run out, runs collide and two tasks meet on one
byte at every pair of accesses; `PageFrames` has a byte of eight bits, so all of them
share it. A heap of
four pages of six units allows splits, both kinds of merge and two expansions.
A ring of four bytes takes pushes of up to six. Terminal rings of three cells
and six characters wrap, overflow and are edited. Three frames overrun a queue
that holds two and both rings of two descriptors; two replies of one sender that
disagree are among them. Four blocks, one of them the file system's, are fewer
than two files of two blocks want, so the disk fills up in mid-growth; two free
inodes and a directory of two entries let inodes be reused and entries run out.
With two bits to a byte, clearing a byte for a bit reaches another inode, which is
then handed out while its file has it. (With `NINODES = 4` the run also passes, in ten
minutes and 46 million states.) One fault per history is enough for every one-fault
race of steps; the proofs below cover any number.

Deadlock is not checked where a panic, a full address space, a spin without
progress or the end of the input stops the model.

### Fairness

`Scheduler`: ticks keep coming (weak); locked sections, `add_task` and boot end
(weak). A preemption inside a locked section is dropped, so progress also needs
two strong conditions: an unlocked preempting tick is not avoided for ever, and a
section open just before such a tick does not outlast it every time. A section
is far shorter than a millisecond, but the code has no mechanism that enforces
this: it is an assumption. `SpinLock`: the CPU executes, a masked tick is taken
later, preemption returns to each task, and the holder of a `lock_t` releases it.
`NetStack`: the interrupt finishes and the card sends what it has (weak), and the
worker's task is not interrupted before every step for ever (strong); frames arrive
without any fairness. The other modules state no liveness.

## Proofs

For every value of the constants (any number of tasks, pages, sizes). Each module
proves an invariant `IInv` inductive and the theorems from it; the type invariants
are proved here and left out of the runs. Every safety property, every action
property and every refinement of a passing run is proved, some under a
hypothesis that is named below and that the constants of the run meet. Theorems
about the deviations of the next section give a condition under which each
of them cannot happen, which says where it comes from.

- `SchedulerProofs`: types, list integrity, one executing task, lock balance,
  timely wakeup, sleeps that end no earlier than asked, zombies that stay down. The invariant adds to these that a task holds an unlisted
  new task exactly between `create_task` and `add_task` (else `add_task` could list
  one twice) and that listed tasks are allocated (else `create_task` could reuse
  one). The three results about sleepers and zombies need
  another, `SleepInv`, of the tasks nobody pauses: until its timer runs out a task
  is asleep or dead, and on the CPU at most between `_tsleep` and the `yield` that
  follows. Without that last part a task could start a second timer. `IdleSafe`
  and `NeverPanics` assume nobody kills pid 0, which `NoPanic` below shows to be
  needed. `PreemptionSwitches`: the walk of `schedule()` passes every listed task
  before it comes back to the running one (`WalkMeetsAll`, `WalkReturnsLast`), so a
  tick that preempts and does not wake does switch. `RevivedBySleepOnly` goes through
  the actions that change a state. `SerialCreatorsGetUniquePids`: the pids of listed
  tasks and of the one under construction differ (`PidInv`).
- `SpinLockProofs`: mutual exclusion, masking, the interrupt flag. The word of a
  held lock names its holder, and the flags saved in it are on exactly if it is
  the outermost lock of a task: only there interrupts were on. The latter fails
  for a task that spins on its own lock, which the invariant has to except.
  `InnerLocksFree` assumes `InnerUnderOuter`, which is how `sline.c` nests: the lock
  of the sleep heap is taken under `sleep_lock` only, by every caller of `smalloc` and
  `sfree`. A word that is set belongs to an actor whose path has got to it
  (`WordsOwned`), so the owner of an inner lock also owns the outermost one, and two
  actors would exclude each other there.
- `InterruptsProofs`: acknowledgements. That a raised interrupt finds its vector
  takes the longest argument: a task whose vector another one consumed was
  preempted, and its frame was overwritten by the interrupt that did so; it never
  gets to its own `int`. The result thus rests on what `int_preempt` reports.
- `MemoryProofs`, for the page frames: types, exclusive pages, real exhaustion, the
  refinement. The strengthening (`FramesInv`) is, until the history is torn, that
  pages held and pages of runs are locked, each for one holder (`Kept`), and what a
  task in the `Window` relies on (`Here`): the page it is about to lock is still clear
  and its copy of the byte is the bitmap's, the page it has locked is nobody's yet
  and is the one its cursor names, the page it frees is its own. Any other task is
  outside the `Window` then, or the history is torn by this step. `FramesAreAllocator`
  maps each step: the return hands out the page, which is new (`GrantedIsNew`), the
  store of `free_page` gives one back, the rest stutters. `UntornIsAllocator` states
  it without the exception, for histories that are not torn. `ExhaustionIsReal` and
  `UndisturbedLocks` need the loop's invariant (`Round`, `Tried`): the pages between
  where the search began and the cursor are set, in the sense in which the cursor goes
  round; it is kept for a task that nobody disturbed. `SetEndKeepsRange`: the page
  after the last is handed out only because its bit starts clear.
- `MemoryProofs`, for the heap: types, disjoint segments, list in address order,
  ownership. These are inductive only together, with the fact that `_realloc` still
  owns its old buffer. The lemmas `SplitShape`, `ExpandShape` and `MergeShape` carry
  the proof. On top of that, `Coalesced` is kept by each operation: `_free` merges
  on both sides, and what is split off or added is merged or lies next to a used
  segment. `TwoExpansionsSuffice` follows from `SearchInv`: after the first
  expansion the lowest segment is free and has room for the request, though perhaps
  not for a header to split off; after the second it has that too. `HeapIsAllocator`
  maps a successful search to handing out its block, which by ownership and
  disjointness meets no other, `kfree` and the end of `_realloc` to giving one back,
  and the expansions to stutters.
- `CircularBufferProofs`: types, offsets, and the refinement. `TypeOK` and
  `OffsetsAgree` are inductive together; push and read are then compared byte by
  byte with the queue's.
- `NetStackProofs`: accounting of received frames, passes that drain, the cache.
  Only one pass holds the lock and the frame it processed is still queued; a pass
  has rounds left for every frame on the queue, because nothing is queued during
  it. The cache theorem is an action-by-action argument over the same invariant.
  Sending (`SentOnce`, `FirstRoundIntact`) is proved for one task, which is how the
  kernel starts: `util/kernel_boot.c:113` starts the debug shell, and the task of
  the network worker is commented out (`:112`); `TxOnce` below shows that two tasks
  would break it. A step makes a frame, hands the first pending one to the card or
  does neither (`Effects`), so the frames handed over and the pending ones are
  always the frames made, each once (`TxInv`). In the first round of the ring the
  task waits for the card after each frame, as no done bit is set yet, so at most
  one frame is between the driver and the wire, and it is in the descriptor the card
  reads next (`CardInv`). `OrderWhenKeepingUp`: while at most one frame waits, the
  frames processed, in hand, queued and still in the card are in the order of arrival
  (`OrderInv`).
- `TtyProofs`: types and all three properties of `tty_core`. What the reader has copied is a
  prefix of what was handed over, and the ring holds what follows, from `inb_read`
  on, together with the one character it has copied and not yet given back. That
  its register still equals the index when it stores it is part of this: the
  interrupt moves the index only when the ring is full. The loop of `flush_cb` is
  an induction over its rounds (`FlushKeeps`); the line discipline's ring is a
  lemma per operation (`InsertLine`, `DeleteLine`, `FlushedLine`).
- `Ext2Proofs`: all five properties of `ext2_core`, for any number of blocks,
  inodes, names, failures and restarts. The block lists on the disk are not
  enough for an induction: the invariant speaks of `View(i)`, the blocks inode
  `i` has once the running operation is taken into account (those in memory while
  it grows, those not yet freed while it is deleted). In terms of it every step
  marks and adds, or frees and removes, one block, or, where an inode in use is
  initialised again, moves a file's blocks to `leaked`. `NothingLost`, `SizesCovered`
  and the types hold whatever writes fail. `OneOwner` and `FreeCounted` assume that no
  write of a bitmap does, `Flushed` that none of a flush does; the deviations below
  show both to be needed.

Only model-checked: liveness (`NoStarvation`, `SleepEnds`, `SignalsDrain`,
`LockReleased`), which is outside the prover's reach.

## Deviations without a run

These properties are stated in the modules and no run of the project checks
them. TLC finds all but the last violated when a configuration names them, with
the constants given; the last one holds. For eight of them a theorem shows what it
takes:

| Property | Holds, or is as strong as the code allows, when | Theorem |
|---|---|---|
| `UniquePids` | no two tasks are between `create_task` and `add_task` (`OneCreator`) | `SerialCreatorsGetUniquePids` |
| `ZombieIsFinal` | the dead task does not call `_tsleep`: nothing else revives it (`OnlySleepRevives`) | `RevivedBySleepOnly` |
| `PreemptsEveryPeriod` | the tick is not due to wake sleepers (`PreemptsUnlessWaking`, which `sched_core` checks) | `PreemptionSwitches` |
| `NeverShared` | no task is preempted in the `Window` (`torn` stays false) | `NoSharedPage`, `UntornIsAllocator` |
| `AlwaysRealExhaustion` | no other task ran during the request (`disturbed` is false) | `ExhaustionIsReal` |
| `HandedOutInRange` | the bit after the last page is set at boot, which it may be if the pages fill the last byte of the bitmap | `SetEndKeepsRange` |
| `NotAlreadyLocked` | no other task ran during the request (`LocksWhatItFound`) | `UndisturbedLocks` |
| `ProcessedInOrder` | no two frames wait at a time (`OneWaiting`) | `OrderWhenKeepingUp` |

The deviations:

| Property | Constants | The code |
|---|---|---|
| `UniquePids` | `Sched_core.cfg` with `Task <- FourTasks`, no sleeps, kills, pauses | gives two tasks one pid when two creators overlap (`scheduler.c:241`) |
| `NoPanic` | `KillPids = {0, 1}` | lets `kill_task(0)` kill the idle task, then panics (`scheduler.c:334`) |
| `ZombieIsFinal` | `SleepTicks = {1}` | lets an exited task run on, sleep and come alive again (`scheduler.c:319`) |
| `PreemptsEveryPeriod` | as in `Sched_core.cfg` | drops a preemption that meets a wakeup tick (`interrupts.c:246`) |
| `AcquireLockReturns` | `FairSpec`, `WakeupPaths <- Nothing`, `KsleepPaths <- Sleep` | takes `sleep_lock` twice in `_ksleep` (no enabled caller, `sline.c:134`) |
| `HandedOutInRange` | `Client <- OneClient` | hands out the page after the last (`memory.c:39`) |
| `RunsCanBeFreed` | `RunSpec`, `Client <- OneClient` | returns the wrong address for a run of pages (`memory.c:158`) |
| `NeverShared` | as in `Pages_core.cfg` | gives one page to two tasks when one is preempted between `lock_page`'s check and its store (`memory.c:66`, `:69`), or when a store puts back the bits of a byte another task has changed since it was read (`memory.c:14`), in both builds |
| `StructuresKept` | as in `Pages_core.cfg` | if the cursor is read from memory each time, returns a page it did not lock, another task having moved the cursor (`memory.c:134`), which may be page 0 of its own bitmap; holds of the build that keeps the cursor in a register |
| `AlwaysRealExhaustion` | as in `Pages_core.cfg` | reports that memory is exhausted although a page behind the cursor was freed during the search (`memory.c:122`) |
| `NotAlreadyLocked` | as in `Pages_core.cfg` | panics in `lock_page` ("Page already locked!", `memory.c:67`) when two tasks find the same page |
| `OverflowDiscards` | as in `Int_core.cfg` | panics when the serial input ring is full (`serial.c:156`), where `serial.c:29` says that "Buffered input from serial device will be lost" |
| `ProcessedInOrder` | as in `Net_core.cfg` | puts a frame at the head of the queue; the comment says "Insert packet at the end of the queue" (`netstack.c:479`) |
| `FramesIntact` | as in `Net_core.cfg` | does not clear a descriptor's done bit, so from the second round on the buffer is cleared before the card has read it (`e1000c.c:180`) |
| `TxOnce` | `Task = {shell, other}` | loses frames queued while another task flushes (`netstack.c:559`) |
| `InodesFresh` | as in `Ext2_core.cfg` | clears the byte, not the bit, with the inode's index (`ext2_inode.c:665`) and hands out inodes in use, without any fault |
| `InodeCountAgrees` | as in `Ext2_core.cfg` | for the same reason frees bits it does not count |
| `StaysMountable` | as in `Ext2_core.cfg` | writes the group descriptors, with blocks of 1 KiB, over the superblock before it writes the superblock (`ext2_bg.c:29`; they are read elsewhere, `ext2_partition.c:198`); switched off in between, nothing can be mounted |
| `BlocksAlwaysExclusive` | as in `Ext2_core.cfg` | frees the blocks of a file before its inode and entry (`ext2.c:423`): switched off in between, or if another entry has the inode, the next file shares them |
| `BlocksExclusive`, `CountsAgree` | `Failing = {"bitmap"}` | does not notice that a bitmap was not written: `EXT2_WRITE_FAILED` is not `<= 0` (`ext2_block.c:329`, `:409`, `:458`, `ext2_inode.c:104`), and what follows "Undo the changes" (`ext2_block.c:332`) is never reached |
| `SuperblockFlushed` | `Failing = {"flush"}` | forgets that a flush is required when one has failed (`ext2_integrity.c:225`) |
| `LocksReleased` | `FairSpec`, `TaskPaths <- HeapOnly`, no other paths, `Lock = {"gheap", "stack"}` | releases a lock that no handler takes |

## Observations without a property

The repository states nothing these would contradict.

- Erasing at cell 0 of a wrapped line makes `tail` -1 (`line_discipline.c:176`);
  flushing a wrapped line reads past the buffer (`:309`).
- If the input ring overflows during a read, a character may be read twice or the
  whole ring be taken for empty (`tty.c:110`).
- `_tty_remove_subscriber` unlinks the entry after the match (`tty.c:178`), and
  `_tty_get_size` is negative when the ring has wrapped (`tty.c:303`).
- `create_rx_packet` returns no value when the queue is locked
  (`netstack.c:474`), and its caller may copy the frame to where no buffer is. The
  counters of a new interface are not initialised (`:397`), and frames of full size
  are dropped (`:351`: 1500 bytes with the header).
- The network interrupt allocates from the heap, whose lock the task it interrupts
  may have set without having masked interrupts yet: the case of `spin_wakeup`.
- Looking up a file compares as many characters as the entry's name has, so `ab`
  finds `a` (`ext2_inode.c:369`). An empty file cannot be deleted, `kmalloc(0)`
  returning 0 (`ext2_inode.c:513`). Nothing in ext2 takes a lock.
- `wait` of `concurrency.c:6` spins with interrupts off; it has no caller.
- `get_fd` leaves its cursor one past the table after handing out the last
  descriptor (`vfs_compat.c:34`); `device_read` does not get past a device whose
  driver is not registered (`devices.c:239`, `:249`).

## Not modelled

- The serial port's rings and the terminal's output: an echo from the interrupt
  and a writing task move the same indexes; no text says what must survive that.
- VFS, device registry, FIFO devices: tables that a call searches, fills or
  forwards by, one call at a time.
- Paging, interrupt and descriptor tables, stacks: layout read by the hardware.
- FAT32 (third-party), partition tables, ACPI, PCI, SMBIOS, ELF: parsing.
- Disk, PS/2 and card set-up: register I/O. Graphics, printing, strings: no state
  that a property would be about. Linked lists: used by tests only.
- Within the modelled parts: several block groups, indirect blocks, directories
  inside directories and file contents of ext2; the link status of an interface;
  exceptions; sleeps keyed by an address.
