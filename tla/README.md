# A TLA+ model of the Pegasos kernel

Pegasos is a preemptive multitasking kernel for the 8086 in real mode: one CPU,
no memory protection, tasks for drivers and processes alike, a FAT file system
on floppies, a console and serial lines.  This directory models its core in
TLA+, checks it with TLC on small instances and proves theorems about
nearly all of it with TLAPS, for instances of any size.  All paths below are relative to `src/kernel` unless they
say otherwise.

## 1. Inventory

| part | source | state | operations | correct when | model |
|---|---|---|---|---|---|
| task queues | `sched/taskq.c` | a head per queue; next, prev and owner in every task | push, pop, dequeue | every queue is one ring through exactly the tasks that name it as owner; FIFO | full |
| scheduler | `sched/TASK.C`, `sched/tasksw.asm` | run queue by priority, sleeping list, free list, curtask, tickcnt, task states | start, block, unblock, sleep, yield, exit, timer tick, idle | a task is in its bucket exactly while it can run; the running task heads its bucket; ready tasks run; sleepers wake on their tick; an ended task is freed | full |
| semaphores | `sched/semap.c` | count, last_owner, queue of waiters | down, up, CS_ENTER, CS_LEAVE | mutual exclusion; the count agrees with the queue; waiters get in | full |
| interrupt tasks | `INTR.C`, `INTRA.ASM` | a task per interrupt, the handlers' lists, the controllers' in-service bits | add handler, interrupt, end of handler with EOI | an interrupt finds its task finished; the most urgent runs | part |
| memory | `MEMORY.C` | three heaps as lists of headers in the memory itself | allocate, free in each | blocks tile the heap, callers never share a byte, free neighbours are merged | full |
| block cache | `blkcache.c` | a ring of buffers with tag, reference count, dirty mark | get, put | a block is cached once; no change is lost | part |
| processes | `PROCESS.C`, `EXEC.C`, `SYSCALL.C`, `SCDSP.ASM` | process slots, parent and zombie marks, kernel stacks for system calls | exec, exit, wait, system call entry and return | a parent learns of every child once; slots, images and stacks come back | part |
| open files | `FILEIO.C`, `UFILEIO.C`, `FS.C`, `DEVICE.C` | open file table with reference counts, descriptors per process | open, dup, close, read, write, seek | an entry is not given up or reused under a descriptor | part |
| FAT | `fat/` | directories and the allocation table, through the cache | look up, create, read | a read delivers the file's bytes; a directory stays well formed | part |
| serial line | `tty/TTY.C`, `ttycook/TTYCOOK.C` | receive ring with line count, transmit list and free list, echo ring, readers | open, close, read, write, both interrupts, echo | no sleeper is forgotten; what is typed is read once; writes go out in order | part |
| keyboard | `console/CONSOLE.C` | scancode ring, key ring, prefix, shift state, readers | keyboard interrupt, decode, read | keys arrive once, in order, with their shift state; readers wake | part |
| screen | `console/SCREEN.C` | video memory, a cursor per page, the page shown, the nesting of its section | write, position, clear, status line, change page | text stays in its page; interrupts come back on | full |
| floppy | `fdd/FDD.C`, `dma.c` | controller flags, unit states, the drive selected, motors and their timeouts | read, write, recalibrate, seek, interrupt, motor task | a caller always returns; data goes where it should; a drive in use is on | part |
| user heap | `src/clib/lib/malloc.c` | a ring of headers | malloc, free, realloc | blocks tile the heap | part |
| streams | `src/clib/lib/stdio.c` | a buffer, a count and flags per stream | fopen, fclose, putc, getc, fread, fflush, exit | bytes arrive once, in order, or an error is set | part |
| host FAT | `src/hosted/fat`, `src/hosted/mkfs` | the disk image | open, read, write, seek, truncate, mkdir, mknod | files hold what was written; chains are disjoint | full |
| debugger, printk, panic | `dbview.c`, `dis386.c`, `PRINTK.C`, `PANIC.C` | none that others read | output | | panic only |
| events | `sched/event.c` | none | stubs without a caller | | none |
| boot sector, loader, user programs, image tools | `src/bootsect`, `LOADER.ASM`, `src/native`, `src/hosted` | none | | | none |

How they interact.  Everything blocks and wakes through the scheduler: drivers
put tasks on their own queues (`readers`, `waiter`, `waitq`) and unblock the
head, or in one case unblock a task by name (`ttyc_putc`).  FAT, open files and
the cache protect themselves with critical sections, which are semaphores with
a count of one; memory has no lock at all.  An interrupt makes its task ready
and switches to it; the handler then runs as a task, at the interrupt's
priority, with interrupts on, and may take critical sections.  The timer is
different: it runs with interrupts off on the stack of whatever it interrupts,
wakes sleepers and rotates the bucket of the running task.  A program's `write`
goes through its stream's buffer, a descriptor, an entry of the open file table
and a device's table of calls to a serial port or the screen; a file is looked
up in FAT, through the cache, which calls the floppy driver.

What is hard to test here: a timer tick or an interrupt between any two
instructions that do not have interrupts off; nested handlers and the order of
their EOIs; linked structures whose damage shows much later; the order of
sleepers; counts and queues that must agree; buffers reused under somebody's
hands; a character that comes between the look into an empty ring and the wait
for it; rings at their limits; retries nested in retries; two tasks that write
the same hardware register; device failures in the middle.  `PROJECT.json`
lists these hazards line by line, with the property that covers each.

## 2. Modules

| module | models | state |
|---|---|---|
| `TaskQ` | `taskq.c` as functions on the link structure: `taskq_push`, `taskq_pop`, `task_dequeue`, and `Ring`, `Contents`, what a well linked queue is | |
| `TaskQSpec` | any sequence of those calls that obeys the callers' contract | `links` |
| `FifoQueues` | the abstract specification: one sequence per queue | `fifo` |
| `Sched` | `TASK.C`, `tasksw.asm`, `semap.c`, `INTR.C`, `INTRA.ASM`, and of `PROCESS.C` the exit of a task | the variables named after the code's, `isr` of the controllers, `pc` and `cs` for where a task is; `astray`, what has gone wrong with an EOI or an unblock by name |
| `ParaHeap` | a heap of paragraphs as functions: first fit, cut, merge | |
| `Memory` | `kmalloc`, `kfree`, `mem_dma_alloc`, `mem_dma_free` | both heaps, the pointers callers hold |
| `Allocator` | the abstract specification: whoever asks for a size gets a region that holds it, inside the heap and disjoint from all others | `live` |
| `NearHeap` | `near_malloc`, `near_free` | the headers in memory, old ones included; the blocks callers hold |
| `BlkCache` | `bc_init`, `bc_get`, `bc_put`, with a device that may fail | buffers, ring position, disk, references |
| `Process` | `PROCESS.C`, `exec` of `EXEC.C`, `sc_init` and the call path of `SCDSP.ASM` | the process table, who waits where, `process` of each task, the programs in memory, the number of free kernel stacks, `pc` for where a task is |
| `Files` | `FILEIO.C`, `UFILEIO.C`, and the descriptors in `EXEC.C` and `PROCESS.C` | the table `oft`, `fds` of each process, the devices that are open; `meant`, the file each descriptor was opened for |
| `Fdd` | `FDD.C` | the driver's variables, `at` and `job` for where its task is, the hardware: `dor`, `dma`, `fdc`, `head`, `disk` |
| `BlockDevice` | the abstract specification: calls are queued and served in order, each reads or writes its block or fails | `disk`, `buf`, `queue`, `result` |
| `TtyCook` | `TTYCOOK.C`, as functions on the record of a unit | |
| `Tty` | the receiving side of `TTY.C` | a unit's flags, `cooker`, `readers`; `line`, what was typed and not read |
| `TtyXmit` | the sending side of `TTY.C`, and the echo task and its ring | the two lists of blocks, the transmitter, `task`; `raced` |
| `Console` | `CONSOLE.C` | both rings, prefix and shift state, `rd` for where a reader is; the keyboard; `typed`, what is to be read |
| `Screen` | `SCREEN.C` | flat video memory, cursors, `cs` |
| `Terminal` | the abstract specification: pages of rows that scroll | `rows`, `x`, `y`, `shown` |
| `KFat` | the kernel's `fat/` | `next`, the allocation table; `ent`, the entries of each directory; `creating`, what creators are about to write; `found` and `was`, the last look-up and the last read; `pinned` and `stained`, what calls have done to the cache; `raced` |
| `HostFat` | `src/hosted/fat`, what `mkfs` writes | `fat`, `dir`, `data`, `openfiles` |
| `FileStore` | the abstract specification: files as sequences of bytes, handles with offsets | `store`, `handle`, `got` |
| `UserHeap` | `malloc.c`, `start.asm` | the headers, the blocks the program holds; `torn` |
| `Stdio` | `stdio.c` and the macros of `STDIO.H` | the streams; what was written, has reached the kernel, was read |
| `TaskQ_proofs`, `TaskQSpec_proofs`, `Sched_proofs`, `Memory_proofs`, `Process_proofs`, `Fat_proofs`, `Fdd_proofs`, `Console_proofs` | theorems, see section 5 | |
| `MCSched`, `MCSchedSides`, `MCFdd`, `MCSerial`, `MCConsole`, `MCParts`, `MCNearHeap`, `MCHostFat` | the instances for TLC | |

`Sched` extends `TaskQ`; `Memory` extends `ParaHeap` and is shown to implement
two instances of `Allocator`; `Tty` extends `TtyCook`; `TaskQSpec`, `Fdd`,
`Screen` and `HostFat` are shown to implement `FifoQueues`, `BlockDevice`,
`Terminal` and `FileStore` by refinement mappings stated at their ends.
`MCSerial`, `MCConsole` and `MCParts` put components that share no state side by
side: a behaviour picks one (`side`) and the others stand still, so that one run
checks them all and their states are added up, not multiplied.  `MCSchedSides`
does the same with two instances of `Sched`, one that has semaphores and one
that has sleepers.  Definitions carry the names of the C or assembler
routines.  A definition introduced by a comment `fault:` is a plausible
programming error next to the definition it would replace; it is used only to
see that a property notices it.

### Steps and atomicity

* What the code does between `cli` and `sti` is one action of `Sched`; between
  two actions the timer (`timer_handler`) or a device (`intr`) may come.  Where
  the code leaves interrupts on in the middle, the model has two actions:
  `_exit` (`exit_mark`, `exit_return`), `sema_down` that waits
  (`sema_down_waits`, `sema_down_resumes`), the timer handler, whose loop over
  the sleepers is one action per turn, and an interrupt handler (`intr`,
  `intr_handler_ends`), which may be preempted anywhere in between.
* What a task does between calls is free: any `Ordinary` task may start tasks,
  block on any wait queue, sleep, take and leave critical sections, unblock the
  head of a wait queue.  It keeps the callers' discipline: it leaves only
  sections it is in, and a process that exits is in none.
* `idle_task` reads the run queue and yields with interrupts on.  That is one
  action; the property `IdleOnlyWhenIdle` is what makes this harmless.
* Interrupt 0 (the timer) and line 2 (the cascade) never get a task:
  `SchedAssumption` keeps them out of `Irq`.
* The two 8259 controllers are external, modelled from how `INTR.C` programs
  them: fully nested, second behind line 2, nonspecific EOI to both.
* `bc_get` and `bc_put` hold `block_cs` from end to end, so each is one step.
* In `Process` any task that is not blocked may take the next step.  A turn of
  the loop of `_wait` and what `proc_alloc` does in `critsect` are one step
  each; `exec` is four (slot, task, `proc->task`, `proc->parent`) and `_exit`
  three, because the new task may run, and the old one be preempted, in between.
  Opening, reading and relocating the image either works or does not.
* `Files` makes `kopen` three steps, since it leaves `critsect` for the look-up
  and the driver may block, and `exec` one step for each descriptor it copies:
  the child runs meanwhile.
* In `Fdd` one task at a time is in the driver, which `fdd_cs` ensures; its
  steps end where it waits, and where the motor task or an interrupt can make a
  difference.  A command with its bytes is one step, and so is the interrupt's
  handler, which has a higher priority than the others.
* In `Tty`, `TtyXmit` and `Console` what is done inside a critical section or
  with interrupts off is one step.  Leaving the section and `task_block` are two
  steps, an interrupt between them.  `tty_freeiob` and the key ring of
  `con_descan` and `con_read` have no lock: every access is a step.
* A call of `SCREEN.C` runs with interrupts off, a tool on the host runs alone, a
  program has one thread: calls of `Screen`, `HostFat`, `UserHeap` and `Stdio`
  are one step each.  `fobj_create` of the kernel is two: it gives the sector
  back between finding a blank entry and writing it, and other tasks look up,
  read and create in between.
* A heap call is one step although the code has no lock.  This is an assumption
  on the callers, recorded among the hazards.
* `near_malloc` leaves one word of a new header unset.  The model chooses
  between zero and what an earlier header left at that place.

## 3. Runs

| run | instance | shows |
|---|---|---|
| `sched` | 5 tasks, interrupts 4 and 6 nested, an echo task unblocked by name; in half of the behaviours a wait queue and a semaphore shared by tasks and both handlers, in the others sleepers | run queue and links are exact, the running task heads its bucket, idle runs only when nothing else can, counts agree with queues and critical sections exclude (`SemaphoresSound`), no scheduler panic but a full table, `IrqTaskIsFree`, `InterruptRunsAtOnce`, `NoOverdueSleeper` for tasks that sleep equally long |
| `sched_live` | 4 tasks that sleep, take a critical section and end, one interrupt | `ReadyRuns`, `WaiterEnters` under fairness |
| `fdd` | one drive with two cylinders, two callers, three errors of drive or controller, three tries of everything | an interrupt is taken for what it is, a drive that moves is on and selected, the calls are those of a `BlockDevice`, every call returns, an idle drive is switched off |
| `serial` | receive: two tasks, a ring of 4, one open; send: a writer and the echo task over two blocks, two writes | the ring holds what was typed and not erased or read, wherever it lies; what is to be sent is on the list, in order, and allocated; readers and the echo task wake |
| `console` | keyboard: rings of 3, a reader, four keys; screen: 2 pages of 3 rows of 2 | keys in order with their shift state, readers wake, the video memory shows a `Terminal`, interrupts come back on |
| `parts` | nine parts that share no state, one in each behaviour (see `MCParts`) | queues are FIFO; kernel heaps tile and implement `Allocator`, each call for its own size; running programs keep slot and image, parents wake, stacks come back; descriptors keep their files; the cache counts and loses nothing; kernel reads are right, its directories sound; host chains are whole and implement `FileStore`; the user heap tiles; streams keep order |

The following runs end in a counterexample; each shows where the code does not
do what a comment or message in it says.

| run | what happens |
|---|---|
| `bug_exit_preempted` | a timer tick between `_exit` and `task_exit` overwrites `TS_FREEING` with `TS_READY`; the slot and the stack are never freed |
| `bug_near_split` | the blocks behind a split drop out of the near heap's list; freeing one of them panics |
| `bug_malloc_split` | `malloc` cuts a block that fits almost exactly: the new header lies over the next one, and its size wraps |
| `bug_realloc_grow` | `realloc` grows a block into part of the free one behind it; the header of the rest gets the swallowed header for its successor, and the ring runs through the program's data |
| `bug_motor_select` | the motor task stops a drive and thereby selects it; the driver believes that the other one is still selected and sends its next command to the wrong drive |
| `bug_fat_grow` | on the host, a file that grows within its last cluster loses that cluster, which the next allocation hands out again |

The passing runs stay clear of these: `parts` has `CopiesOver = FALSE`, `fdd` has
one drive, `UserHeap` stops when `malloc` or `realloc` has torn the ring.

### Deviations that are built into the models

Where the code departs from what one would expect, the model does what the code
does.  These have no run of their own.

Scheduler and processes:
* Task priorities order interrupts 8 to 15 behind 3 to 7, the
  controllers before them, so with such a pair `InterruptRunsAtOnce` does not
  hold; `sched` has two of the first controller.
* Two handlers that wait for a critical section, as that of `tty_intr` does
  (TTY.C:454), may finish out of order; the nonspecific EOI of one then ends the
  other's interrupt, which may recur while its task is still queued.  `Sched`
  records this (`"eoi"` in `astray`): `IrqTaskIsFree` is claimed until then, and
  no interrupt is followed afterwards, since it would overwrite the stack of a
  task that has not ended.
* The insertion loop of `task_sleep` never advances, so with three sleepers of
  different lengths a task may lie behind one that is due later; `task_wake`
  looks only at the head, and only for equality, and the tick passes.
  `NoOverdueSleeper` is therefore checked for equal lengths.
* `task_unblock(pc->echotask)` of `ttyc_putc` may take the echo task off a
  semaphore's queue, and it then enters the section while another task is
  inside.  `Sched` records this (`"named"` in `astray`): `SemaphoresSound` is
  claimed until then, and afterwards `sema_up` may also panic on an empty queue.
  `TtyXmit` ends where the echo task is let into `csxmit` (`"intruder"`).
* `_wait` and `proc_alloc` use the queue of slot 0 whatever slot they mean, so a
  shell that another shell has started never learns of its children's ends
  (`NoLostWakeup` with two `Shells`).
* If `dup_handles` fails, `exec` frees a process whose task is already ready
  (`DupFails`).
* `kclose` gives `cdev_close` a minor number where it takes a descriptor: it
  closes the device of another entry, or none (`Files!Closes`).

Cache and floppy:
* `bc_put` takes the byte count that `fdd_op` returns for an error, so a block
  stays dirty after it was written; after a failed read the buffer keeps the
  block's tag, and the next `bc_get` takes other data for that block; after a
  failed write a change may be lost (`NoChangeLost` with `MayFail` not empty).
* If the controller is too slow in `fdd_intr_seek`, nobody is woken and the
  caller sleeps with `fdd_cs` (`"sense"` in `Slow`).  If it is too slow with the
  result of a transfer, the result stays in it and no command is taken any more:
  later calls fail, but return.
* `fdd_wait_for_rqm` returns the status register when its time is up, and not
  the 0 that the comment above it promises (FDD.C:514): a sender goes on without
  RQM unless the whole register is 0, and a controller that is not ready may
  lock up (`"lost"` in `Slow`).  `CallsReturn` claims nothing once it has.
* The work buffer for a transfer across a page has one sector, but `size` is set
  from the number of sectors again (FDD.C:1043, 1048), so that a transfer of
  several sectors overruns it.  `Fdd` has calls of one sector, which is all that
  the cache asks for, and no work buffer.
* After a failed operation the unit's state stays `fdd_io` or `fdd_seekdone`, and
  its motor is not switched off until a later call succeeds.

Lines and console:
* Erasing a newline leaves the count of lines as it was; it may exceed the lines
  in the ring, and a reader then gets a line that is not complete.
* A reader between `ttyc_read` and `task_block` when the unit is closed is not
  counted: it sleeps on the closed unit, which can then not be opened again.
* A character that comes at that moment wakes nobody: a reader waits for the
  next.  `SleepersWake` says no more than that it wakes then.
* Two tasks in `tty_freeiob` may free one block twice; the model stops there
  (`raced`).  `OneAtATimeFreesWhatIsFree` says that it takes two tasks.  A block
  that the interrupt puts before the head meanwhile is lost.
* On a port without FIFO, 16 characters at a time would overrun the transmitter;
  the runs have one that holds as many as the driver believes, and
  `BlocksAreSentInOrder` assumes one.
* The echo ring wraps to empty, and a full key ring drops prefixes and releases
  too; the model does not follow what is read after that (`spoiled`).
* Two tasks that read the console interleave in `con_descan` and may lose or
  repeat a key; the run has one reader.
* `con_left` at the first column does not leave the section it has entered;
  `InterruptsRestored` is claimed until then.

File systems and library:
* Two tasks that create a file may take the same blank or erased entry; the
  second name then replaces the first (`raced`, from where on
  `DirectoriesSound` no longer claims that names are unique).  A new entry keeps
  the size and first cluster of the one that was there.
* A look-up that stops at an end mark, and `fat_stat`, never give their sector
  back to the cache (dir.c:119, fileops.c:108).  `KFat` counts these sectors
  (`pinned`); with all buffers taken `bc_get` panics, which `MaxPinned` stands
  for.
* `bc_put` returns the 512 bytes it has written where its callers expect 0.
  Creating a file therefore works only since the look-up that has failed before
  keeps the sector: when the sector was pinned nothing is written yet.
  Otherwise `fobj_create` returns 512, which `fat_ino_get` hands on as an inode
  (`Ino512`), and the buffer stays marked as changed (`stained`): any later
  look-up may end the same way.  What is read through such an inode or buffer
  is not followed.
* `fat_read` at the end of a file that fills its last cluster ends in EIO, which
  `ReadsRight` allows there and nowhere else.  Behind the end of a file the size
  wraps; that read is not followed.
* On the host, `clus_set_next` writes the entries of all sectors of the table but
  the first to the wrong place; `HostFat` has a table of one sector.  An
  allocation that fails half way leaves clusters that no entry reaches, and
  `".."` gets the new entry's old cluster.
* `fread` copies what is buffered the wrong way round: the program gets what was
  in its own memory (`Junk`).  A mode with `+` is always rejected, and `"a"` does
  not go to the end.
* `realloc` that grows into part of the next block sets `next` to the header of
  the rest and then `next->next = curr->next`, which is still the swallowed
  header (malloc.c:183).  The model takes the step and stops there, as it does
  where `malloc` tears a header (`torn`).
* `malloc(65535)` rounds to 0; `Request` leaves it out.

### Bounds

Five tasks in `sched` are main, idle and three from the free list, which become
tasks of handlers or of processes: enough for a holder and two waiters, of whom
handlers may be any, for a handler within a handler, and for a full table.  The
side with semaphores has no sleepers: `TickMod = 1` there and in `sched_live`
means that ticks come without end, and in `sched_live` that a sleeper wakes on
the next one.  The side with sleepers has
no semaphores and no wait queue; `MaxTick = 3` lets tasks fall asleep on two different ticks and
wake on two different ticks.  Both at once have too many states; the theorems of
section 5 have no such split.

In `parts`: four tasks and two queues give a middle element two neighbours that
are not each other.  Nine paragraphs hold up to four blocks side by side with
free and used neighbours in every pattern; sizes include exact fits and rests of
exactly one paragraph.  Three slots and four tasks let a child end before, while
and after its parent's exec and wait, and a new program reuse its slot; two
stacks run out, which stops the machine as in the code.  Two processes with two
descriptors and three table entries let entries be shared, run out and be used
again.  Two buffers against three blocks and three clients force reuse, sharing
and the panic of `bc_get`.  `KFat` draws a file of one, two or
three clusters of two sectors, in and out of order, and every number of bytes in
the last of them, so that a read starts and ends at, before and behind every boundary, with
full directories; and three disks with erased entries in front, in the middle and
behind, and with a directory of one or two clusters.  Two creators are enough to
race, and one pinned sector, of either directory, to see both outcomes of a
creation: the file's i-node, or the 512 that the release of a changed buffer
returns.  `HostFat` has three clusters for a file of up to two and a
directory: allocations fail half way.  The user heap holds four blocks.  Buffers
of two bytes and three bytes to pass through a stream, five through all of them
(`MaxPassed`), make `Stdio` fill, flush and refill two streams side by side.

In `fdd`, `FDD_RETRY` is the code's 3 and three faults spoil three tries: each
loop succeeds at once, succeeds on either retry, and gives up.  `Slow` leaves out `"sense"`.
In `serial`, a ring of 4 leaves room for one line and wraps at every position;
two blocks and two writes let a block be sent, given back and used again while
another task is between the steps of `tty_freeiob`, and a write find none free.
In `console`, rings of 3 hold two codes and fill up; three rows, with the status
line on page 0, scroll on both pages by different amounts.

Where a cfg says `CHECK_DEADLOCK FALSE` the system may really stop: every buffer
is in use and `bc_get` panics, every bound of calls is used up, a line is closed
for good, `raced` or `spoiled` is set.

### Fairness

`sched_live` assumes: the timer keeps ticking (weak fairness: nothing in the
modelled code keeps interrupts off for good); a task that is given the CPU again
and again leaves its critical section, comes back from `sema_down`, and a
handler ends (strong fairness, since the timer takes the CPU away in between;
every critical section of the kernel is finite code).  Nothing else is fair:
tasks may stay ready, blocked or busy as they like.  An interrupt task stays
under the same rule, so a storm of interrupts that never lets anything else run
is excluded only by their handlers' ends and the in-service bits.

`fdd` assumes weak fairness of four things: the task in the driver runs when it
can (round robin, `ReadyRuns`), an interrupt that is pending is taken, the motor
task wakes from its sleep, and a drive or the controller that works on a command
ends it, well or badly.  `serial` and `console`: a task that is ready takes its
steps, interrupts are taken, the line sends, and somebody keeps typing; the last
is an assumption on the user, without which a reader rightly waits for ever.
`parts` checks no liveness.

## 4. What the properties are about

`QueuesAreRings`, `RunQueueExact`, `CurtaskHeadsBucket`: `iswitch` overwrites
the head of a bucket with `curtask->next` and would drop tasks if the running
task did not head it; that it does depends on every routine that blocks, wakes
or ends a task.  `IdleOnlyWhenIdle`: `idle_task` breaks the rule that a task
leaves its bucket with interrupts off before it yields, which is sound only if
it yields to itself.  `SemaphoresSound`: hand-over by the sign of the count.
`IrqTaskIsFree`: `task_sch_async` overwrites the task's stack and pushes it
without looking, relying on the controllers to hold the interrupt back.

`NoChangeLost`: across sharing, changing, putting and reuse.  `RunningHasSlot`:
`task_from_proc` makes the new task ready before `exec` has stored it, so a
short program may end before its parent knows it; `_exit` then finds no task to
mark, and the slot must not be taken from a later program.  `StacksConserved`:
`_exit` returns its stack on a path of its own.  `DescriptorKeepsFile`: counts
against the descriptors of processes that dup, exec and end meanwhile, where an
exec may copy descriptors into a child that has ended already.

`InterruptUnderstood`: `fdd_intr` has three flags to tell by; `CallsReturn` is
what a wrong answer costs.  `DriveRuns`, `MotorStops`: the motor task counts down
while the driver is between selecting and using.  `ImplementsDevice`: through
the retries, the data of a call that returns success is that of its block.
`RingHoldsLine`, `KeysInOrder`, `SentInOrder`: between an interrupt and tasks
that share a ring or a list.  `SleepersWake`, `ConReaderWakes`: the gap between
looking and waiting.  `ShowsTerminal`: one flat memory, a status line on one page.
`ReadsRight`, `ChainsWhole`, `ImplementsStore`: walks along chains, at their
boundaries and when an allocation fails.  `DirectoriesSound`: an entry that is
found in one step and written in another, among erased ones and over the end of
a cluster.  `UserHeapTiled`: merges across a ring
that must not merge across its end.  `StreamsInOrder`: buffers that are filled,
drained around and flushed by each other.

## 5. Proofs

All but one of the modules `..._proofs` end in theorems about a specification
for every value of its constants that the module's assumption allows: any number
of tasks, buffers, drives, any size of heaps, rings, files.  `TaskQ_proofs` has
the lemmas about `taskq.c` that two others rest on.  Every theorem whose name
appears here is the statement that a specification implies `[]` of a property,
or implies another specification, and each property is also checked by a run,
but for `OneAtATimeFreesWhatIsFree`: its hypothesis is about the behaviour.

### What is proved

| module | theorems | of |
|---|---|---|
| `Sched_proofs` | `QueuesWellFormed`, `QueuesStayRings`, `RunQueueStaysExact`, `RunningTaskHeadsBucket`, `IdleIsLast`, `InterruptFindsTaskFree`, `InterruptStartsHandler`, `CriticalSectionsExclude`, `SchedulerNeverPanics`, `SleepersWakeInTime` | the scheduler, semaphores and sleepers |
| `TaskQSpec_proofs` | `QueuesAreFifo`: refinement of `FifoQueues` | the queues |
| `Memory_proofs` | `HeapsStayTiled`; `HeapsAllocate`: refinement of `Allocator`; `UserHeapStaysTiled`; `StreamsStayInOrder` | `MEMORY.C`, and of the library `malloc.c` and `stdio.c` |
| `Process_proofs` | `ProgramsKeepTheirSlots`, `ShellIsWoken`, `NoStackIsLost`; `DescriptorsKeepFiles` | processes and their open files |
| `Fat_proofs` | `ReferencesStayCounted`, `ChangesAreKept`; `DirectoriesStaySound`, `ReadsDeliverFile`; `ChainsStayWhole`; `HostFatImplementsStore`: refinement of `FileStore` | the cache, the kernel's FAT, the host's FAT |
| `Fdd_proofs` | `InterruptsUnderstood`, `DriveIsRunning`; `DriveServes`: refinement of `BlockDevice` | the floppy driver |
| `Console_proofs` | `InterruptsComeBack`; `ScreenIsTerminal`: refinement of `Terminal`; `RingKeepsLine`; `BlocksAreSentInOrder`, `OneAtATimeFreesWhatIsFree`; `KeysStayInOrder` | the screen, the serial line, the keyboard |

### Under which hypotheses

Beyond the assumptions in the modules, which TLC evaluates on every run, some
theorems need a hypothesis.  Each excludes a behaviour that section 3 lists as a
deviation, where the statement is false:

* `UrgentFirst`, of `InterruptStartsHandler`: the numbers of the interrupts come
  before the priorities of tasks, and not both an interrupt of 8 to 15 and one of
  3 to 7 have handlers.  `sched` satisfies it, with 4 and 6.
* `OneDelay`, of `SleepersWakeInTime`: all sleep equally long, and the clock does
  not wrap.  `task_sleep` inserts before the head or at the end only, so the
  sleeping queue is not ordered otherwise.
* `OneShell`, of the three theorems on processes: only the program in slot 0
  calls exec and wait, and `dup_handles` succeeds, as in `parts`.
  `DescriptorsKeepFiles` needs nothing.
* `MayFail = {}`, of `ChangesAreKept`: the device does not fail.
  `ReferencesStayCounted` needs nothing: references are right even if it does.
* `OneDrive`, of `DriveIsRunning` and `DriveServes`: with two, the motor task
  breaks both (run `bug_motor_select`).  `InterruptsUnderstood` needs nothing.
* `~ CopiesOver`, of `ChainsStayWhole` and `HostFatImplementsStore`: no file
  grows within its last cluster, where the host loses it (run `bug_fat_grow`).
* `FIFO_SIZE <= Depth`, of `BlocksAreSentInOrder` and
  `OneAtATimeFreesWhatIsFree`: the port is a 16550A.
* `[]OneUnlinks`, of `OneAtATimeFreesWhatIsFree`: no two tasks are between the
  steps of `tty_freeiob` at once.  The code does not ensure that; the theorem
  says that a lock among tasks would be enough against a block freed twice; one
  that an interrupt puts before the head would still be lost.
* `OneReader`, of `KeysStayInOrder`: one task reads the console.

The other theorems of `Sched_proofs`, those on queues, heaps, streams and directories,
`ReadsDeliverFile`, `RingKeepsLine` and those on the screen need nothing beyond
the assumptions of their modules.

Some properties claim less once the model has recorded that the code went
wrong, which is part of the property and so of what the theorem says:
`UserHeapTiled` says nothing once `torn` is set, nor `KeysInOrder` once
`spoiled` is; the order in `SentInOrder` and the uniqueness of names in
`DirectoriesSound` are claimed until `raced`, `IrqTaskIsFree` until an EOI goes
astray, `SemaphoresSound` until a task that waits for a semaphore is unblocked
by name.  Each of these events is a step of the code that the runs reach, and is
listed among the deviations.

### Along which argument

Each invariant is strengthened to an inductive one, named `...Inv`, whose parts
are operators of their own.  One lemma per operation shows that it keeps the
invariant; a step of `Next` is the disjunction of these.

Queues.  A queue is well formed if some sequence is its ring: it starts at the
head, has every task once that names the queue as owner, and the links of its
tasks lead along it and back (`Ring`).  `TaskQ_proofs` gives, for push, pop,
dequeue and rotation, the sequence afterwards.  `ContentsIsRing` shows that
`Contents`, the walk along the links, is that sequence, which turns `WellFormed`
into `QueuesAreRings` and the four lemmas into the steps of `FifoQueues`.

Scheduler.  `Inv` adds `RunStates` (only the running task is `TS_RUN` or
`TS_FREEING`; a marked task is on its way out and in no section), `IdleStays`
(idle never leaves its bucket, so that there is always a task to run), `FreeList`
(free, unlinked tasks, each once, none an interrupt's), and `IrqTasks` (an
interrupt's task is finished and unlinked, or `Serving`: its interrupt is in
service, unless an EOI has gone astray, and the task waits for a semaphore or
can run, and then nothing less urgent runs).  The last is the heart of
`InterruptFindsTaskFree`: as long as nobody more urgent waits, the handler that
ends is the one whose bit is the highest in service, and the nonspecific EOI ends
the right interrupt; otherwise it ends that of the one that waits, which is what
`astray` records.  With `Ranks` (no two tasks have the
same interrupt as their priority) it also gives `InterruptStartsHandler`: whoever
the switch prefers to the task of the interrupt would be the task of a more
urgent one in service, which the controllers would not have interrupted.

Sleepers.  `SleepInv` says that the sleeping queue is in the order of `due`, and
that every `due` lies between the next tick that will be looked at and the clock
plus the delay.  A tick takes those off that are due, which are a beginning of
the queue; a sleeper goes to its end, and is due last; everything else that
happens to the queue takes one task out of it (`Thins`), which leaves the rest
in order.

Semaphores.  `SemaInv` says of each semaphore that the tasks which have been let
in (`Inside`: those in the section, and one that `sema_up` took off the queue and
that has not come back from its wait) are one at most, that the count is one
exactly when there is none, and that below zero it counts the members of the
queue, who all wait for it.  A count that says that somebody waits therefore
finds a task in the queue, and the panic of `sema_up` is out of reach.  All that
is claimed until a waiter is unblocked by name (`SemaInv`).

Heaps.  The invariant of a heap (`Heap`) is `Tiles` and `Merged` with two facts
that these leave open: no header lies inside a block (`Apart`), and every header
but the first is the next of another (`Linked`).  `Held` ties the pointers of the
callers to blocks in use.  Allocation is the choice of a block and one cut
(`Take`); giving back is freeing and up to two merges (`Give`), between which the
heap is tiled but not merged (`Raw`, `MergedBut`).  The same lemmas give the step
of `Allocator`: a region handed out lies in what was a free block, and has the
paragraphs that this call's size needs.  A user heap is a ring: its tiling
(`RingTiles`) closes over the end (`RingCloses`), until a call tears it.

Processes.  The new task runs before `exec` has entered it in its slot.
`ProcInv` says that a program that lives has a slot of its own (`AliveHasSlot`),
that a task is named in one place at most, by the `exec` that has started it, a
slot, or an `_exit` about to mark it (`NamedOnce`), and that this place is the
right one (`NamedRight`); so an `_exit` marks no task of a later program.  `Waits`
says that a shell asleep has no child that has ended, and `Stacks` counts.

Files.  `FilesInv` counts for each entry of the table the descriptors and the
calls in progress that refer to it (`EntriesCounted`), and gives an entry that is
being opened one opener (`OneOpener`).  The cache counts holders
(`HoldersCounted`) and gives a block one buffer (`OneBuffer`); that no change is
lost follows since the copy in a buffer is current (`Current`) and what the disk
lacks is in a marked one (`DiskHas`).  Directories (`KFatInv`): behind an end mark there
are only end marks (`Packed`), a name is in a directory once until creators have
raced (`Unique`); all that is in front of the entry which a creator is about to
write is in use (`CreatedIn`), so that no end mark comes to lie before it; and the entries of the files that were there are never such an entry
(`Spared`).

Reading (`fat_read`).  A walk along the table is a function of the number of
steps (`Walks`, `Endless`), the same for all that take the same steps.  A
position in a file is three digits, cluster, sector of the cluster and byte of
the sector (`Digits`).  One lemma says of a turn of the reading loop that it
delivers the bytes at the next positions and leaves the digits of the position
behind them; what has been read is therefore the bytes from the offset on, up to
the size asked for or the end of the file.

Host files.  `HostFatInv` says that there is a head for each place of a
directory, the start of a chain (`HeadsOK`), that these chains end, do not meet,
take clusters that are not free and have room for the size in the entry, and that
each directory is where its entry says (`DirHeads`).  The head is not always
the entry's first cluster: after a write that failed half way the entry still
says 0, and the open file knows the chain (`OpenOK`).  Every call that changes
the table rechains one place with clusters of its own and free ones
(`Rechains`), and leaves the other chains alone.  For the store, the bytes of a
file are those at the positions along its chain, which are distinct; a write
changes none but those of its own file, so that the call is that of `FileStore`
on one file, and a stutter for the others.

Streams.  What has reached the kernel and what is in the buffer are together all
that the program wrote (`Output`, until an error is set), and what is buffered of
a file goes on where the program has read to (`Input`).  Full buffers, flushes,
the prompt, closing and exiting go through the same lemma.

Floppy driver.  `Flags` and `Commands` relate what `fdd_intr` looks at, the place
of the task and what the controller works on; `Jobs` ties the job to the call
that owns `fdd_cs`.  `Transfers` says that the DMA is set for the job, and that a
transfer with a good result has moved it.  `Motors` adds that the drive of the
job is selected and on once it is spun up, since the motor task cannot come often
enough in between.  In `BlockDevice` a step is a call that arrives, the transfer,
or the end of the call; all else stutters.

Screen.  A cell's address is a sum of products; `Line` and `Cell` are shown to be
injective and in order, so that a copy by addresses is a shift of rows and a
fill is a blank row.  After that each routine is the one of `Terminal`.

Serial ring.  `TtyInv` is `RingHoldsLine` with the types.  The lemmas on rings
(`Onward`, `Span`) turn remainders into steps; erasing takes from the tail,
reading from the head up to a newline, and the count of newlines in the line
changes by those.

Transmit list.  `Sound` says that there are two lists, one along the links from
`txhead` to `txtail`, one from `freeiob`, without repetition and without a
common block, all allocated; that all that is to be sent is on the first, and
that there two such blocks are in the order of their calls.  `tty_xmit_intr`
moves blocks from the head of the one list to that of the other, and there are
turns enough to move all that are finished, since a list is no longer than there
are blocks.  A block that `tty_write` gets is on neither list, for it was not
allocated.  A block that is freed where it still was in the second list leaves a
list, what came after it; that the first list is untouched is what `raced`
guards.  With one task at a time in `tty_freeiob`, `raced` stays false: what the
task has read stays on the second list, next to the block behind it (`Frees`),
since the interrupt only puts blocks before it (`TransmitsKeepFree`) and a block
that is queued changes no link of a free one (`SameLinksFree`).

Keyboard.  The ring holds a beginning of `typed` (`Keeps`).  The codes still on
their way, in the keyboard, the ring of codes or the reader's hand, are one
sequence; `Decoded` says that there are states of the decoder, one after each
code, that lead from its state now to the state of the keyboard's own flags, and
that every character made on the way is the next one of `typed`.  Typing appends
to the sequence, the decoder takes from it, and what `F1` empties had no shift
key in it, so that the two ends agree.

Induction over data is not available, so recursive definitions are avoided and
what would be an induction (how far a walk gets, the least buffer, the number of
newlines) is stated of the least counterexample, from the well-foundedness of
the natural numbers.

### What is only model-checked

* Liveness: `ReadyRuns`, `WaiterEnters`, `CallsReturn`, `MotorStops`,
  `SleepersWake`, `ConReaderWakes`.
* That the six runs of section 3 end in a counterexample, among them all of
  `NearHeap`, which is there for its counterexample.

Every invariant and every refinement that a passing run checks is also the
statement of a theorem.

## 6. Not modelled

In the modelled files: `tasklock` (used only by code without a caller), the
interrupt masks, the debugger's own EOI, `intr_add_handler` with a full task
table (it writes through the NULL that `task_reserve` returns), the choice among
several handlers of one interrupt, `bc_read` and `bc_cache_get` (no caller
outside the file), stacks and their sizes, dump routines; how an image is read
and relocated; the positions of open files (`kread` reads one before it blocks
and adds to it afterwards; `kseek` rejects legal seeks backwards); `tty_probe`,
`tty_setrate`, and what `tty_close` does with unsent blocks; `con_getch`; the
floppy's version check and geometry, and its transfers of several sectors;
reading a directory, and what `fat_stat` fills in;
`calloc`, `fgets`, `fputs`, which are loops over what is modelled.

Whole parts: the debugger and its disassembler (tables and formatting, no state
that the kernel reads), `printk` and `printf` (formatting), the event stubs, the
boot sector and loader (straight line code), the shell and samples, the image
tools but for `mkfs`, the host's cache (unlike the kernel's it has a boolean
`inuse` and writes back lazily; `HostFat` reads and writes the image itself), and
the code under `#if 0` in `fat/`, which is not compiled.

## 7. Plan

The kernel's parts and those of the library and the host tools that keep state
are modelled, and all safety properties that the passing runs check are proved.

Modelling that would add something: heaps with interleaved calls, the wrap of
`tickcnt`, positions of shared open files, `tty_close` with unsent blocks.  What
could be proved of it then: that a kernel file's position is that of one reader,
and that nothing is lost of what is written before a close.
