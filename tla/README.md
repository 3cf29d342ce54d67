# A verification of B.L.OS in TLA+

B.L.OS (the repository *Small-operating-system-*) is a small operating system for
the 32-bit x86: a boot loader, a kernel with preemptive tasks, mutexes, a heap, a
keyboard driver, a disk driver and a file system, and applications (a shell and
two demonstrations) that use it through system calls. This directory models it in
TLA+ from the scheduler up to the demonstrations, checks the models with TLC on
small instances, and proves the main properties of the scheduler, the mutexes, the
decoder of scan codes, the heap, the disk driver and the demonstrations with TLAPS for
every instance.

Line numbers refer to `src/src/`.

## 1. Inventory of the system

| Component | State | Operations | Interacts with |
|---|---|---|---|
| Scheduler (`task.c`, `queue.c`, `list.c`, `event.c`) | 16+1 task control blocks (TCBs) `gTaskBuff`, each with id, name, slices used and allotted, wait queue, event, saved registers; queues `gFreeTaskNode`, `gReadyTask`, `gRunningTask`, `gAppToRun`; `gCTaskAddr`, `gPid` | timer reschedule, register an application, end a task, wait for a task, block on and notify an event | heap (events, application nodes), mutexes and keyboard (events) |
| Handlers (`ihandler.c`, `kentry.asm`) | the counter of `TimerHandler` | timer, keyboard, system call, page fault, segment fault; all with interrupts disabled | every kernel part |
| Mutexes (`mutex.c`, `syscall.c`) | list `gMList`; per mutex its type, lock and wait queue; the variable `wait` in the loop of `EnterCritical` | create, enter, exit, destroy | scheduler, heap |
| Keyboard (`keyboard.c`) | decoder state, key buffer `gKCBuff` (two codes), wait queue `gKeyWait` | scan code interrupt, `ReadKey` | scheduler |
| Kernel heap (`memory.c`) | fixed-size blocks with a free list, variable-size blocks in an ordered list | `Malloc`, `Free` | used by all of the kernel |
| File system (`fs.c`) | on-disk header, root directory, sector map; open files with a cached sector | format, create, delete, rename, open, read, write, seek, erase | heap, disk driver; not called by `KMain` |
| Disk driver (`hdraw.c`, port routines of `kentry.asm`) | the number of sectors, a static of `HDRawSectors` | read or write a sector, ask for the number of sectors; all by polling | the drive, which works beside the processor |
| Screen (`screen.c`) | the position of the cursor: one for the shell and all tasks of the demonstrations, which are linked with one copy of `screen.o`; the kernel has its own | print, set the position | everything that prints |
| Shell (`shell.c`, `app.c`) | the command line `gKBuf` with its length `gKIndex` | one handler per kind of key; starts a demonstration and waits for its end | system calls, screen |
| Demonstrations (`demo1.c`, `demo2.c`) | a store with the numbers of products made and to be taken; what is written and the number of readers | two producers and two consumers; a writer and three readers; one task that cleans up | system calls, screen |
| Utilities, boot code | none | conversions; loading | |

**Behaviours that are hard to get right.**
*Concurrency*: a task is preempted between any two instructions, so system calls of
different tasks interleave arbitrarily; within the kernel nothing interleaves,
because every gate disables interrupts. The disk drive runs beside the processor.
*Recycling*: TCBs, ids, heap addresses and mutex addresses are used again while other
parts still hold them. *Memory exhaustion*: events and application nodes are allocated
in the middle of system calls. *Time*: slices are counted and compared for equality;
the driver gives up after 500 polls, but the drive may answer later. *Ordering*:
creation of tasks is delayed until a reschedule; woken waiters compete again.
*Crashes*: the file system updates several sectors per operation.

**What makes each component correct.** Scheduler: each TCB in exactly one queue,
the current task is the one every handler takes for current, slices bounded, ids
and events that identify, every computing task served. Mutexes: entering as one step
that needs a free mutex, no lost wake-up, no leak. Keyboard: no code is withheld from
a waiting reader, the decoder returns to its initial state. Heap: blocks disjoint,
lists describe the memory, everything can be allocated again after it is freed. File
system: sectors partitioned between files and free list, files as callers see them,
after a crash at least no shared sectors and no damage to files that were not being
changed. Driver: a call reads or writes the sector it was asked for, or none. Applications:
products counted, readers undisturbed, a shell that has slept for a demonstration finds
everything gone when it prompts again.

The hazards, each with its line and the properties that cover it, are listed in
`PROJECT.json`.

## 2. Plan

Done, in this order:

1. `Task` - the scheduler. `TaskInvariant`, `TaskProofs` - inductive invariant and
   proofs. `Lifecycle`, `TaskLifecycle` - the abstract life of tasks and the mapping
   to it.
2. `Mutex` - mutexes on the scheduler.
3. `Decoder`, `Typing`, `KeyBuffer`, `Keyboard` - scan codes, the key buffer, and
   readers on the scheduler. `KeyboardProofs` - proofs.
4. `Memory` - both allocators. `MemoryProofs` - proofs.
5. `Disk`, `Directory`, `FileSystem` - sectors, root directory, files, power failures
   and restarts. `Files`, `FileContents` - abstract files and the mapping to them.
   `FileProofs`, `ContentProofs` - proofs about the layers and about the mapping.
6. `Lock`, `MutexLock` - what mutexes promise to applications, and the mapping to it.
   `MutexProofs` - proofs.
7. `Screen`, `Apps`, `Demo1`, `Demo2`, `Shell` - the applications on `Lock`.
   `DemoProofs` - proofs about them and about `Lock`.
8. `Drive`, `RawDisk` - the disk driver with the drive, and the disk that it makes of
   it. `DriveProofs` - proofs.

The layers meet in two abstract modules. `Lock` is implemented by `Mutex` (with the
scheduler below it) and used by the applications. `RawDisk` is implemented by `Drive`,
and `Disk` relies on more: there a sector is read and written in one step, the number of
sectors is the true one, and a write that was reported is on the disk. The driver as it is
coded gives neither of the last two (sections 7 and 8), so what is shown of the file
system is shown for a driver that is better than this one.

Left: failures of `Malloc` and of the drive in the file system; proofs of what deleting
and shortening leave when the power fails.

## 3. Modules and how they correspond to the code

### Task

`kern` is the state of `task.c` as one record, so that each C function is an
operator from a record to a record of the same name as the function, and a handler
is their composition in the order of the calls: `Schedule(s) ==
ScheduleNext(RunningToReady(s))` reads like lines 313-317. A handler runs with
interrupts disabled (interrupt gates; `kentry.asm` 34-83 and 217-258), so a handler
is one step.

| Model | Code |
|---|---|
| `kern.queue[x]` | the lists: three global queues, and per TCB the queue `Task.wait`; `ObjectQ` stands for queues owned by other modules (mutexes, keyboard) |
| `kern.task[t]` | the TCB: `id`, `name`, `current`, `total`, `event` (the queue named by the event), and the saved `EBX` |
| `kern.app`, `kern.pid`, `kern.cur` | `gAppToRun`, `gPid`, `gCTaskAddr` |
| `kern.heap` | how many more objects `Malloc` can return |
| `tick` | the static counter of `TimerHandler` |
| `lost` | tasks whose main function returned and which were not destroyed |

Actions: `TimerHandler`; the system calls `Exit`, `Wait`, `RegApp`; `TaskEntryEnd`
(the main function returns); `Fault` (page or segment fault). The initial state is
what `TaskModInit` and `LaunchTask` leave.

Abstracted: stacks, descriptors, TSS, all saved registers but EBX; the contents of
events other than the queue; names are values (the code cuts names to 15
characters). A loop that moves n nodes is one `MoveFront` of n nodes. The heap is a
number of equal objects: which allocation fails first depends on sizes, so the
instances try heaps that run out at every point.

### Lifecycle and TaskLifecycle

`Lifecycle` knows of each TCB only whether it is free, ready, running or waiting,
for whose end it waits, and who owns the processor. `TaskLifecycle` instantiates it
with the queue a TCB is in for its stage, the event for the target, `gCTaskAddr` for
the owner. Registered applications, ids, slices and memory are not seen.

### Mutex

Extends `Task`. `mutex[m]` is a mutex at address `m` (`valid`: it is in `gMList`);
`entering[t]` is the mutex for which task `t` is in the loop of `EnterCritical` with
`wait` = 1. `inside[t]` is a history variable: the mutexes that `EnterCritical` let the
task into and that have not been left; a normal mutex, which knows no owner, is left
for all by whoever unlocks it. The actions are `SysCreateMutex`, `SysDestroyMutex`,
`SysEnterCritical` (with `Acquire` for the successful branches of `SysNormalEnter` and
`SysStrictEnter`, and `DoWait`), `SysExitCritical`, and the steps of the scheduler.
Applications do as they please: they may leave mutexes they are not in, destroy
mutexes others wait for, fault and return anywhere.

### Lock and MutexLock

`Lock` is what applications may rely on: a mutex is absent, free, or locked by an
owner; entering is one step that needs a free mutex (or one's own, if it is strict);
a task that ends keeps what it has locked (`Gone` owns it then). `EnterUnlocked` says
what happens when there is no memory to wait with (section 7), and is possible only
then. `MutexLock` maps a strict mutex's lock to the task with that id and hides
queues, events, retries and sleeping tasks: a call that has to wait is seen when it
succeeds, at its last retry.

### Decoder, Typing, KeyBuffer, Keyboard

`Decoder` is `PutScanCode` as a function from a byte and the static variables of
`keyboard.c` to key codes and new values. A key code keeps press, scan code and the
table column instead of the character. `Typing` adds the device (external): keys are
pressed, repeated and released, and their bytes arrive one per interrupt; no key of its
own sends code 5E, which the driver uses for Pause. `KeyBuffer`
is the ring `gKCBuff`. `Keyboard` puts them together with `Task`: `KeyboardHandler` is
one interrupt, `ReadKey` the system call, `got[t]` the code a handler wrote into the
variable of the reader `t`. Without memory `ReadKey` does what the code does with
an event at address 0, namely nothing.

### Memory

`node`, `first` are `gFMemList` (the union in a node holds either the next free unit
or the address that was given out), `vlist` is `gVMemList` in the order of addresses,
`live` is what callers hold. `Malloc` tries a unit, then the first block with room;
`Free` recognises units, then blocks, and ignores everything else. Sizes and addresses
are numbers, so that headers and pieces that overlap are seen; `Alloc` adds the header to
a size in a `uint`. Two assumptions are about callers: nobody asks for a size that wraps
around there (`SizeAssumption`), and nobody frees the address `FirstBytes`, which `Malloc`
never returns and `Free` does not refuse (section 7). All other addresses are freed at any
time, in use, freed before or neither.

### Disk, Directory, FileSystem

`disk` is what is on the disk: the fields of the header, the sector map as a function,
the contents of the sectors. Every function of `fs.c` that writes takes a history, the
sequence of states of the disk so far, and appends one state for each sector it
writes, in the order of the code. So `FreeSector(w, si)` writes the header, then the
map; `DeleteInRoot` is the composition of the functions it calls. An operation sets
`disk` to the last state of the history; a power failure leaves any earlier one. Then
the system is down until `Restart`, which finds the disk as it was left: nothing in
the code repairs it.

`Disk` has the list of free sectors and the chains, `Directory` the entries that
describe files, `FileSystem` the descriptors of open files with their buffer (`fe`,
`objIdx`, `offset`, `changed`, `cache`) and one action per function of `fs.h`. The
loops of `ToWrite` and `ToRead` have one round per byte: copying several
bytes into the same buffer is the same as copying them one by one.

`Disciplined` callers avoid what the file system does not bear (section 7): they
create a file only when the directory has a place or the disk a sector, delete only
while no file is open, and erase the end of a file only if they have not used the file
since it was opened, if the end remains behind their position, or if it remains within
a sector. The checks that pass are for them.

### Files and FileContents

`Files` says what callers see: a name has a file, which is a sequence of bytes with a
position or closed. `FileContents` computes this from chains, entries and buffers.

### Drive and RawDisk

`Drive` has the drive (external: an ATA disk, reduced to its status bits, the last
command, its buffer and the sectors) and the driver as the program it is: `cpu.at` is the
place in the call, one step per access to a port, `cpu.i` the counter of `IsBusy`. The
drive answers or fails at any time. `WriteData` leaves it busy with what it has got in its
buffer, and the call returns success; `Store` puts the sector on the disk later, or
`Refuse` ends the command with nothing stored. The bits `ERR` and `DF`, which would tell,
are left out because the driver does not look at them. While the drive is busy, the ready
bit may show anything. `IsDevReady` has the inverted test of the code, so IDENTIFY may be
sent to a busy drive, and `ReadIdentity` may take the data of another command for the
number of sectors.

Assumed of the drive: a command that is written while it is busy is ignored; one that is
written while it waits for a transfer ends that; a sector is stored as a whole or not at
all; and one that has not started up refuses all commands but IDENTIFY.

`RawDisk` is the promise: a call reads its sector in one step, or hands it over for
writing, or fails and changes nothing. What was handed over (`late`) is stored or lost
before the next sector is read or handed over, and the caller is not told which. The
number of sectors, once there is one, stays, but need not be right.

### Screen, Apps, Demo1, Demo2, Shell

`Screen` is the cursor: a position, or `Anywhere` after several tasks have moved it at
the same time. `Apps` has what applications see of the kernel: `toRun` are the
registered ones, `CreateTask` creates them at a reschedule, `pc[c]` is where task `c` is
in its function, and mutexes are those of `Lock`. A step of a task is what it does
between two accesses to shared data, so `if (g_num < NUM)`, the store and the
counting are steps of their own. `Demo1` and `Demo2` are the demonstrations; `Shell`
adds the command line, of which only the length and the cursor are kept, and the
start and end of a demonstration. What the shell does is in the variable `shell`:

| `shell` | Meaning |
|---|---|
| `"prompt"` | it waits for a key, and no task of a demonstration is left |
| `"delay"` | a demonstration is registered, and the shell is in `Delay(5)` |
| `"asleep"` | `Wait` has found the task `Deinit` |
| `"shared"` | `Wait` has not found it: the prompt came early, and tasks print beside it |
| `"lost"` | a character or the 0 of a line was stored outside of `gKBuf` |

`Delay(5)` counts to five million, which takes some ten milliseconds, and applications
are created at a reschedule, every fifth tick of 55 ms: both orders are in the model.
Nothing in the code compares `gKIndex` with the length of `gKBuf` (`shell.c:188`), and
while tasks move the cursor `BSHandler`, which goes by it, may count below 0. `StrayStore`
is the store that misses the array. The model says nothing of what follows it, and ends in
`"lost"`, since that depends on what a build has put there. The lengths of `gKBuf` and of a
command are constants.

### Proof modules and MC modules

`TaskInvariant` has the inductive invariant of the scheduler; the modules that end in
`Proofs` are described in section 6. Those that begin with `MC` are what TLC runs; the
constants are in the `.cfg` files. File names are symmetric there, since the code only
compares them. Operators whose names end in `Bug` are wrong versions of the operator
that follows them; `PROJECT.json` ("mutants") says which property finds each of them
out.

## 4. Runs

| Run | Question | Bounds |
|---|---|---|
| `tasks` | do the structures of the scheduler survive every interleaving, does the inductive invariant hold, are the handlers steps of `Lifecycle`, does time sharing reach every computing task? | 3 TCBs, 2 running, slices 2 and 3, heap of 3 objects, 2 timer interrupts per reschedule, ids up to 4 |
| `task_return` | is a task destroyed when it returns? (no, section 7) | 2 TCBs |
| `mutex` | whatever applications call, do they see the lock of `Lock`, is a waiter forgotten, is memory lost? | 3 tasks, one mutex address used again and again, heap of 4, EBX 0 to 3 |
| `typing` | what does the decoder remember between keys? | 9 keys: a letter, both shifts, both locks, the key pad, two keys with a prefix, Pause |
| `keyboard` | do keys and readers meet, is a code ever overwritten? | 3 TCBs, 2 running, a letter and Pause, buffer of 2 as in the code, heap of 2 |
| `memory` | are pieces disjoint, is anything lost? | 22 bytes, 3 units, sizes 1 to 4, every address freed but that of the first block's bytes |
| `fs` | are sectors lost or shared, do entries stay in place, do callers see files? | 3 files, 2 open at a time, 3 sectors of 2 entries or 2 bytes, 2 values of bytes, writes of 3 bytes |
| `fs_power` | what do power failures, one after the other, leave? | 2 files, 4 sectors; create, rename, write, seek |
| `fs_erased` | is the position in the file after erasing? (no, section 7) | writes of 1 and 3 bytes, all callers |
| `applications` | are products and readers counted right, does a demonstration end, what does the shell find then? | 2 products, 2 rounds of the writer, 3 readers, a line of 2 characters and commands of 1 |
| `drive` | with a slow drive, or one that fails, also while it stores: does a call read and write its own sector, does every call return? | 2 sectors, 2 contents, 2 polls |
| `drive_sectors` | is a ready drive asked for its number of sectors? (no, section 7) | the same |

Why the bounds are enough. *Scheduler*: with three TCBs one can run, one be ready and
one wait; with more tasks than TCBs over time (`MaxPid`) TCBs are recycled; a heap of
three objects fails at the first, the second and the third allocation;
`MAX_TIME_SLICE - pri` is at least 5 in the code and 2 or 3 here, the two smallest
values for which the scheduler must work (one is the bug the comment at `task.c:12`
speaks of). `USHORT` is just above `MAX_TIME_SLICE` so that a counter that were not
reset would wrap within the run. `MaxPid` is not in the code: it stops applications
from being registered for ever, and with it the counter `gPid`. *Mutexes*: one task
holds the mutex, one waits, one destroys and creates or ends; mutexes do not
influence each other except through the heap, and the proofs are for any number.
*Keyboard*: two tasks must be able to run, since with one the idle task would keep the
place that a woken reader needs. *Heap*: half of the memory holds three units, the
other half up to three blocks next to the first, so that a freed block has neighbours
on both sides, free and used. *File system*: `SECT_SIZE` 2 and `FE_BYTES` 1 give two
entries per sector of the directory, so that the third file needs a second sector and
moving an entry crosses sectors; writes of three bytes cross a sector; the map has two
entries per sector, so that linking sectors writes one or two of them; three or four
sectors are used up within a few operations. `MaxOpen` bounds the files open at a time.
*Applications*: two products for two producers and two consumers are made by either
and exceeded by a second producer that is late; two rounds let readers come before,
between and after writes; a line of two characters is shorter than, as long as or longer
than a command, full, and too long, and gets there beside a demonstration or without one. *Drive*: two polls let the driver give up before or after
the drive has answered, and calls follow each other without end.

`fs_power` turns deadlock checking off: the sectors that power failures leave unused
may be all there are, and on a full disk without files only calls that fail remain (the
run leaves formatting out); elsewhere something is always possible.

## 5. Fairness

- `TaskFairSpec` assumes weak fairness of the timer's tick only: interrupts are enabled
  while any task runs, the idle task included, and the timer is never masked. Nothing
  is assumed about the applications. `TimeShared` then says that when all tasks
  compute from some point on, every runnable one is served again and again. It is not
  claimed for tasks that block: `ScheduleNext` rotates the queue after the blocking
  task has left its front, so the next task loses its turn, and two or more tasks that
  block in step with the timer can keep a third one from the processor for ever.
- `FairShellSpec` assumes weak fairness of each task's steps and of the system's
  (`CreateTask`, and the shell in `DoWait`), which is what time sharing gives to
  tasks that do not block. Producers and consumers are also treated strongly fair when
  they enter the mutex: they are woken at every exit, and whoever leaves it is in
  `Delay` outside of the critical section for longer than its time slice, so that a
  woken task finds the mutex free some day. For readers and the writer this is not
  assumed: readers that overlap can lock the writer out for ever, and `Demo2Ends`
  speaks only of what follows the writer's last round.
- `DriveSpec` assumes that the processor goes on; the drive need not answer.

## 6. Proofs

All proofs are for every value of the constants under the named assumptions, which
TLC evaluates on the instances.

**TaskProofs** assumes that sizes are positive and `MAX_RUNNING_TASK < MAX_TASK_NUM`,
that every priority leaves at least two slices and fewer than the counter holds, and
that names and queue identifiers are distinct.

- `Invariance`: `TaskInv` is an invariant of `TaskSpec`;
- `TypeCorrect`, `QueuesPartition`, `FrontIsCurrent`, `SlicesBounded`: the properties
  `TaskTypeOK`, `QueueDiscipline`, `CurrentIsFront`, `SliceBound` follow from it.

`QueueDiscipline` alone is not inductive. `CreateTask` empties the wait queue of the
TCB it initialises, so a waiter in it would be lost: the invariant adds that nobody
waits for a free TCB (`FreeIsUnused`), which needs that ids are zero exactly in free
TCBs, because `Wait` looks for a TCB with an id. `SliceBound` needs that every TCB in
use has at least one slice (`HasSlices`) and that those behind the front have one
left. Inside a handler less holds than between handlers: `Between` is preserved by
every function of `task.c`, `Settled` is established by `ScheduleNext`. The argument
follows the code bottom-up. One lemma says which element is where after `MoveFront`;
from it that moves keep the queues disjoint (`MoveNoDuplicate`) and lose nothing
(`MoveNothingLost`); then one lemma per C function, up to `ScheduleSettled`,
`WaitEventSettled`, `KillTaskSettled`; then one step per action.

The second part of `TaskProofs`, about `Lifecycle`, goes through the same functions once
more, first for ids and for the queues that belong to no task. `IdsOK` strengthens
`IdsIdentify` with what makes it inductive: all ids are below `gPid`. `Grows` says that
tasks keep their ids and a TCB without one gets a new one, `Kept` which queues a function
leaves alone, `Alike` both for a function that gives no ids. Only `CreateTask` gives ids,
and only `KillTask` takes one away, from the current task. `IdsUnique` is the theorem
about `IdsIdentify`. Then for events: `EventsOK` says that the event of a TCB is null
exactly when it is in no wait queue, and that nobody waits for the idle task. Most
functions change neither events nor wait queues (`SameWaits`); `CreateTask` overwrites the
events of the TCBs it takes, and these are free and have none. `EventsNameQueues` is the
theorem about `WaitersHaveEvent`. Last the stages: `MoveShifts` turns moves of positions
into moves of sets, `Stages` is the abstract stage of every TCB, and `Reschedules` what
`ScheduleNext` does to it (`ScheduleNextLife`); `ScheduleLife`, `WaitEventLife` and
`KillTaskLife` add what the handlers did before. That `KillTask` wakes exactly those who
wait for the task needs `EventsOK`, that it makes no other task ready needs that all other
running tasks have slices left. `LifecycleImplemented` is the refinement of `Lifecycle`.
It assumes `MAX_RUNNING_TASK >= 2`: with one place in `gRunningTask` the idle task, once
there, would keep it for ever while tasks are ready.

**MutexProofs** assumes besides that mutexes have queues of their own and that the
abstract owners are no tasks. Its invariant `MutexInv` joins the scheduler's with
`NoLostWakeup` and with: the id in the lock of a strict mutex is below `gPid`. The last
part is why the owner of a strict mutex is identified with its id for ever: when the
owner has ended, no later task gets its id (`OwnerKept`), so its mutexes belong to
`Gone`. From `MutexInv` follow `MutexTypesHold`, `NoWakeupLost`, and `MutexImplements`:
every step of `MutexSpec`, the timer's and those of the scheduler's calls included, is
one of `Lock` or changes nothing there. The scheduler enters these proofs only through
the lemmas of `TaskProofs` about its functions.

The heap is a second invariant on top of `MutexInv`, `HeapInv`: what every function
takes from the heap or gives back to it, the tasks with an event, the registered
applications and the valid mutexes hold less or more (`Conserves`, one lemma per
function). That `CreateTask` may overwrite the events of TCBs, and that a task which
waits had no event before, needs `EventsOK`. `NoObjectLost` is the theorem about
`MutexHeapBalanced`; it needs no bound on the addresses mutexes can have.

**DemoProofs** proves `Exclusive` for `Lock` while memory suffices (`MutualExclusion`).
The argument is about each mutex by itself: `Guarded` says how its lock and the clients
in it belong together, and every operation keeps that. Together with `MutexImplements`
this says that tasks exclude each other in critical sections as long as memory suffices.

The applications keep `Exclusive` too (`AppsExclude`), and the rest of `DemoProofs` is
about them, for any number of tasks, products and rounds. `DemoInv` has these parts:

- `ReadersInv` says for each place in a reader's function which mutexes it is in and
  whether it is counted, so that `g_count` is the size of a set of readers, and that the
  writer's mutex is locked from the moment the first reader counts itself until the last
  one has left, whoever these are. `ReadersCount` and `ReadersRead` follow.
- `ShopLock` and `ShopRight`: who is between the two halves of an update owns `g_mutex`;
  the balance of products is off by one exactly while a producer has stored and not yet
  counted, or a consumer has counted and not yet taken. `ShopBalances` follows because
  nobody is there when the mutex is free.
- `HeldInside`: a mutex that is locked has somebody inside who will unlock it. It is
  the converse of exclusion, and what `DestroyMutex` needs to succeed.
- `Stage`: while a demonstration runs, its `Deinit` is the last one registered, so that
  it finds all other tasks when it waits for them; when they are gone nobody is inside
  a mutex and all mutexes are destroyed, and only then `Deinit` ends and a shell that
  sleeps for it goes on. A prompt that came early is not at the end of this; but whenever
  the demonstration is over, no mutex is left (`OverIdle`). `PromptLast` says both.
- `WriterRight` and `LocalsRight`: the counters of tasks, `g_data` as a function of the
  writer's rounds, and the fresh locals of every created task. With the others they
  give `AppsTypes`.
- `LineRight`: the position of the cursor as a number of characters; the wrap-around of
  `PrintString` is division by the width. It holds while no demonstration prints beside
  the shell, up to the store that leaves `gKBuf`. `CursorBehindLine` follows, for every
  `gKBuf` that fits into the line behind the prompt (`LineAssumption`).

**DriveProofs** proves `DriveInvariance` and `DriveImplements`, for any number of sectors,
contents and polls: whenever the driver transfers data, the last command the drive has
accepted is the one the driver wrote for this call, and nothing is left to be stored. That
needs the call of `IsBusy` before the command and the one after it; the status may be
anything while the drive is busy. That a write is stored after all is not part of it:
`RawDisk` has writes that are lost.

**KeyboardProofs** is, first, about any set of keys that send the codes of the table `gKeyMap`,
alone or behind the prefix E0, and Pause. Its invariant `TypingInv` (`TypingInvariance`)
relates the bytes on the line to the decoder: at rest, a key of which one or two bytes
are still to come, or Pause after its first i bytes. While the byte of a key is on its
way that key alone may be down and not held, or held and not down. `DecoderRests` and
`NoKeyStuck` follow for the moments at which the line is empty; the latter in one direction
only: a shift that the decoder remembers is held. When one of two shift keys is released,
the decoder forgets the other.
Second, about the ring of key codes, for any capacity: `Contents` are the codes from
the head on, modulo the capacity, and `Ring` says that head and tail fit together.
`BufferIsQueue`: storing appends to them, fetching takes the first, and only a full
buffer forgets one. Third, about handler and readers on the scheduler, for any number
of tasks. `NoReaderBesideCode` and `NothingOverwritten` need each other and one thing
more, `FewCodes`: between interrupts the buffer has one code at most, and none while
the bytes of Pause come in, because every byte takes a code out and only the last one
of Pause stores two. `KeyboardInv` joins this with the scheduler's invariants, among
them `EventsOK`: that only `WaittingToReady` empties the readers' queue comes from the
lemmas of `TaskProofs`. `KeyboardTypes`, `NoReaderSleeps`, `TwoCodesSuffice` (for a
capacity of at least two; one is too small for Pause) and `WokenGetCode` follow.

**MemoryProofs** is about a heap of any size at any address, with nodes, units and
headers of any size. Its invariant `MemInv` (`MemInvariance`) has three parts:
`UnitsLinked`, the unused units form a chain without repetition that starts at `first`;
`Tiled`, the blocks are in the order of their addresses and each ends where the next
one begins; `Held`, what callers hold are exactly the used units and the blocks behind
the first. `NothingLeaks` by itself says nothing of the addresses of blocks, and
`LiveDisjoint` nothing of the list, so neither is inductive: that a block which is split
or merged keeps clear of the others needs `Tiled`, that a unit is given out once needs
the chain, and that Free finds a unit by its number needs that unit addresses are
multiples. `PiecesOfTheirOwn`, `HeapTiled`, `HeapIsNotLost` and `StaleFreeHarmless`
are the four properties of the run. `StaleFreeHarmless` is about every address but
`FirstBytes`; `LiveDisjoint` says that no caller ever gets that one.

**FileProofs** is about disks with sectors, entries and maps of any size, any number of
names and any data, and assumes `Disciplined` callers: on the instance of
`MCFilesErased`, whose callers erase the end they stand at, TLC finds `FSTypeOK`,
`SectorsPartition`, `EntriesInPlace` and `CacheFresh` violated. It has two invariants, one
for each of the questions of `fs` and `fs_power`.

While the power does not fail, `Quiet` says that no call was cut off and that disk and
descriptors are `Sound`, which has these parts:

- `Shares`: the list of free sectors and the chains of the directory and of all files are
  finite, as long as their records say, disjoint, and together all sectors. The record
  of a file is the one in its descriptor if it is open, and the entry otherwise: an open
  file may be ahead of the disk until it is flushed.
- `Proper`: the number of sectors in a record and the bytes in its last one fit together.
- `Directory`: every place up to the last one has an entry, the entry has the address of
  this place, and no name has two. For an open file the entry on the disk (`Named`)
  has the name and the place that the descriptor has.
- `CacheOK`: a buffer belongs to a sector of its file, and has its contents unless it was
  written to.

None of these is inductive. An entry is found through the chain of the directory, so
`Directory` needs `Shares`; the chain of a file is found through its entry, so `Shares`
needs `Directory`; and flushing a buffer must not reach the sector of another file or
of the directory, so each `CacheOK` needs both. Between the writes of an operation the
invariant does not hold; the lemmas about `AllocSector`, `AddToLast`, `CheckStorage`,
`EraseLast` and `DeleteInRoot` say which sectors a step moves from which chain to which
(`Swaps`), and only the end of the operation is `Sound` again. Facts about chains are
statements about all numbers of steps along the map; instead of an induction theorem,
`Least` gives the first step where such a statement would fail. `FilesTyped`,
`SectorsNeverLost`, `DirectoryInOrder` and `BuffersFresh` follow.

When the power may fail, between any two writes and any number of times, most of `Sound`
is lost: sectors belong to nobody, chains are longer than their records say, and behind
the end of the directory there are entries that it does not count. What stays is `Torn`:
there is a function `B` that gives the directory, and every place of every sector an entry
may be at, the beginning of a chain (`Held`), so that

- `Claims`: these chains and the list of free sectors are finite and pairwise disjoint;
  they need not be all sectors;
- `Fits`: a record has the whole of its chain, a first part of it, or nothing;
- `EntryHeld`: every entry, counted by the directory or not, is in a sector that nothing
  but the directory uses, and knows its place. Entries behind the end must be included,
  because a later call makes the directory longer and finds them again;
- `FileHeld`: an open file is found where its descriptor says, and they share a chain.

`B` is quantified because no part of the disk determines it: the chain of a file that was
cut off before its entry was written begins nowhere on the disk. The proof goes from
write to write: `Safe` are the disks on which some `B` holds and which have the entries and
sectors of all names but that of the call as they were (`Spares`), every write of
`AllocSector`, `AddToLast`, `CheckStorage`, `CreateInRoot`, `FFlush` and `FClose` stays
among them, and `Live` carries this through a session. `SectorsNeverShared` and
`FailuresAreLocal` follow, and `FilesTyped` holds here too. The theorems leave out
deleting and erasing as `fs_power` does: both free sectors before they write the record
that has them (`fs.c` 740-764, 829-836), so that what they leave is not `Torn`.

**ContentProofs** goes on from `Quiet` to what callers see. `FilesAreImplemented` is the
refinement of `Files`, from `Quiet`, `PositionInFile` (kept by disciplined callers:
`PositionsStay`) and the definition of `file` by disk and descriptors; `FileAssumption`
says that the values for no position and for no file are neither a number nor a file. The
bytes of a file are those of the sectors of its chain, in this order, but those of the
buffer for the sector it belongs to (`Content` in `FileSystem`, by sectors `View`). A step
of a session is then one of a few kinds: it shows the same bytes (flushing, getting
another sector into the buffer, going to a position, taking a sector that no byte is in
yet), or writes the one byte the position is at, or cuts off the end; and for every other
file it leaves the record, the chain and the sectors of the chain (`Leaves`), which is
where `Shares` is needed. A call to `FWrite` is as many such steps as there are bytes;
what holds of the session after each of them, seen from before the first (`Writes`), is
carried through all of them by `Least`: there is no least number of bytes after which it
fails. The position is computed from the buffer's sector and the offset in it, and the end
of a full sector has two such pairs; that it stays the same number when the next sector is
fetched is `PreparedShows`. Renaming and deleting follow from what the entries say
(`FindInRoot` before and after), although deleting moves the last entry to another place.

Only model-checked: liveness (`TimeShared`, `Demo1Ends`, `Demo2Ends`, `CallsReturn`),
because it is out of the prover's reach together with ENABLED.

## 7. Where the code and its comments disagree

- `task_return`: the end of `TaskEntry` (`task.c` 39-43) asks for the destruction of
  the task but sets only EAX. The command is in EBX, which `InitTask` does not reset
  in a recycled TCB. A task can thus survive its own end, against the comments at
  `task.c:31` and `task.c:39`.
- `drive_sectors`: `IsDevReady` (`hdraw.c` 56-59) is true when the ready bit is clear.
  A ready drive is therefore never asked for its number of sectors, against the
  comment at `hdraw.c:104`, and a sector number is not compared with it; the drive
  refuses sectors it does not have.
- `fs_erased`: when `FErase` leaves an empty file, or one that ends at the end of a
  sector, `ToLocate` (`fs.c` 1403-1435) finds no sector for the new end and the position
  stays where it was, against the comment at `fs.c:1458`. What is then written goes to
  a buffer of a sector that is no longer in the file; `FClose` cannot write the buffer
  and does not write the entry either (`fs.c` 959-970), so that the entry on the disk
  keeps sectors that are in the list of free ones.

Not runs of their own, because the models have the behaviour among others:

- `DoWait` (`mutex.c` 72-79) leaves `*wait` alone when no event can be allocated. In the
  first round of the loop it is 0, and `EnterCritical` returns without the lock, against
  the comment at `syscall.c:57`. `Lock` describes it with the action `EnterUnlocked`.
- `HDRawWrite` (`hdraw.c` 149-157) returns 1 when the drive has taken the data, and
  nobody looks at the status afterwards: a sector that the drive then fails to store is
  lost, although the comment at `hdraw.c:136` promises 1 for success. It is the action
  `Lose` of `RawDisk`.
- `HDRawSectors` tests the ready bit while the drive may be busy with an earlier call. An
  IDENTIFY sent then is ignored, and when the drive offers the data of that earlier
  command, two words of it become the number of sectors for good (`Learn` of `RawDisk`).
- `VMemFree` (`memory.c` 151-179) takes the address behind the first block's header for
  one that was given out, and removes this block from the list. `FMemFree` and `VMemFree`
  refuse all other addresses that nobody holds (comments at `memory.c:16` and `:94`).
- `shell.c:188` stores any number of characters: the 65th is behind `gKBuf`. (The cursor
  would reach the end of the screen's line at the 68th.) It is the action `StrayStore`.
- `DoWait` of the shell (`shell.c` 206-211) may call `Wait` before the reschedule that
  creates `Deinit`; then the prompt is there beside the demonstration.

Situations that `Disciplined` callers avoid, in which the model does what the code does
but the properties of `fs` fail:

- a file is created when the last sector of the directory and the disk are full:
  `CreateInRoot` (`fs.c` 511) does not notice that `CheckStorage` could not extend the
  directory and puts the entry behind the sector it has read;
- a file is deleted while the one whose entry is the directory's last is open:
  `DeleteInRoot` (`fs.c` 829-836) moves that entry, but the descriptor keeps its old
  place, to which `FFlush` and `FClose` write it.

## 8. Not modelled

- Boot code, the loader, descriptor tables, paging, the interrupt controller, string
  and number conversions: no behaviour that interleaves or fails in ways a model
  would show. Of `utility.c` only `Delay` matters, see below.
- What is on the screen, its colour, and where the demonstrations print (`g_rnext`,
  `g_rcol`, the columns): nobody reads it. Of the command line only the length: which
  command it is, is left open, and so is what `mem` and `clear` print.
- The kernel's own copy of `screen.c`, which prints when it starts and on faults.
- What happens after the shell has stored outside of `gKBuf`. The user is assumed to
  start no demonstration while another is running.
- File system: the check of the format, failures of the drive and of `Malloc`, the
  cutting of names to 31 characters, a power failure while formatting, and power
  failures while deleting or erasing, for which the code promises nothing; the memory
  that `FOpen` returns for a name without a file, which is in no list and is never freed;
  and disks with a sector 2^25 + 1, where the address that `AllocSector` leaves behind the
  last free sector (`fs.c:176`) would have an entry to read. Driver: sector numbers above
  2^28.
- The file system on the driver as it is. `Disk` formats with the true number of sectors
  and stores what it reports. The driver never asks a ready drive for the number
  (`drive_sectors`), so that `FSFormat` would compute with 0xFFFFFFFF, and it reports
  writes before they are stored. The two are checked and proved apart; their composition
  is not claimed. `KMain` does not call the file system yet.
- `Task`, `Mutex` and `Keyboard` count objects instead of using `Memory`; the
  applications have memory enough, so that `EnterUnlocked` does not happen to them.
