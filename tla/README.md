# A TLA+ verification project for FOS (FCIS operating system, 2024)

FOS is a teaching kernel for one x86 CPU, derived from JOS and xv6: a command
prompt starts *environments* (processes), a preemptive round-robin scheduler
runs them, and system calls give them memory, shared objects and the console.
This directory models the kernel's concurrency core, its memory management and
the programs that run on it in TLA+, checks them with TLC on small instances and
proves with TLAPS, for every instance, the results about the concurrency core (dispatcher,
sleep lock, console, process table), about shared memory, paging and the kernel heap.

## 1. The system and its parts

| Part | Source | State | Operations | What makes it correct |
|---|---|---|---|---|
| CPU, spinlocks | `kern/cpu/cpu.c`, `kern/conc/spinlock.c` | interrupt flag, `ncli`, `intena`, `locked` words | `pushcli`, `popcli`, `acquire_spinlock`, `release_spinlock` | interrupts stay off as long as any lock is held; nobody asks for a lock its CPU holds |
| Dispatcher | `kern/cpu/sched.c`, `kern/proc/user_environment.c` | `mycpu()->proc`, ready queue, `env_status` | `fos_scheduler`, `fos_scheduler_RR`, `sched`, `yield`, `env_start`, clock interrupt | queues and statuses agree; no READY environment starves; the prompt returns only when nothing is left |
| Channels, sleep locks | `kern/conc/channel.c`, `kern/conc/sleeplock.c` | queue of sleepers, `locked`, `pid` | `sleep`, `wakeup_one`, `wakeup_all`, `acquire_sleeplock`, `release_sleeplock` | mutual exclusion, no lost wake-up, every waiter gets the lock |
| Console input | `kern/cons/console.c`, `sys_cgetc` | ring buffer, `KBDchannel`, `conslock` | keyboard interrupt, `sys_cgetc`, `cons_lock` | one reader at a time, characters in order, a typed character is read |
| Environment life cycle | `kern/cpu/sched_helpers.c`, `kern/proc/user_environment.c` | `env_free_list`, NEW/READY/EXIT queues | create, run, exit, kill, run all, kill all | a slot is in one place, which its status names; the dead stay dead; a slot has one creator |
| System calls, prompt, panic | `kern/trap/syscall.c`, `kern/cmd/`, `kern/init.c` | global `cur_env`, scheduler status | dispatch, commands, `_panic`, `get_into_prompt` | a call acts for its caller; the prompt starts from a clean state |
| Kernel heap | `kern/mem/kheap.c` | free-page list, kernel page table, frames | `kmalloc`, `kfree`, `krealloc`, `sbrk`, address translation | every page and every block has one owner; nothing leaks; regions never overlap |
| Block allocator | `lib/dynamic_allocator.c` | headers, footers and list inside the heap | `alloc_block_FF/BF`, `free_block`, `realloc_block_FF` | blocks tile the area, free ones are merged and listed in order |
| Frames, page tables | `kern/mem/memory_manager.c` | free frame list, references, entries | `allocate_frame`, `free_frame`, `map_frame`, `unmap_frame` | a frame is free or referenced, as often as it is mapped |
| Shared memory | `kern/mem/shared_memory_manager.c`, `lib/uheap.c` | `AllShares`, references, `framesStorage` | `smalloc`, `sget`, `sfree` | one object per name, exact references, all users see the same frames |
| Page faults, page file, user heap | `kern/trap/fault_handler.c`, `kern/disk/pagefile_manager.c`, `kern/mem/chunk_operations.c`, `lib/uheap.c` | working sets, page file, marked pages | placement, nth chance replacement, reserving, freeing | what was written is read again; working set and page table agree; every access ends |
| User programs | `user/` | their arrays and heap | sorts, matrices, Fibonacci, allocation and channel tests | the results are right; the tests pass under every interleaving |

**How they interact.** Environments interleave only where the interrupt flag is
set: user code and, because `trap_dispatch()` executes `sti`, system calls
outside critical sections. The clock interrupt calls `yield()`, the keyboard
interrupt calls `wakeup_one()`; both take `ProcessQueues.qlock`, the lock of all
process queues and of all channel queues. `sched()` hands that lock, held, to the scheduler,
which hands it to the environment it switches to. Sleep locks are built from a
guard spinlock, a channel and a flag; the console is protected by one. The
prompt and the running environments share the queues and the free list.
Memory is layered: the block allocator manages words that `kheap.c` (in the
kernel) or `uheap.c` (in a program) gets by `sbrk()`; `kheap.c` keeps its list
of free pages in blocks of that allocator, so that each calls the other; frames
come from `memory_manager.c`, whose references the page tables of all
environments count; a page of a program exists by its mark in the page table
before it has a frame, and the fault handler moves it between frames and the
page file.

**What is hard.** Preemption inside system calls; the hand-over of `qlock`
across a context switch with the saved `intena` of each kernel stack; a
wake-up between a test and a sleep; several waiters woken at once; interrupt
handlers that use the structures of the code they interrupt; globals
(`cur_env`) used across a preemption; panics that leave locks behind; a data
structure kept inside the memory it manages; two allocators that call each
other; state that is spread over page table bits, working set and page file;
shared objects that are used after their lock was released. The full
list, line by line, is under "hazards" in PROJECT.json.

## 2. Modules

| Module | Models |
|---|---|
| `Sched` | the CPU, spinlocks and dispatcher: every step of `fos_scheduler()`, `sched()`, `yield()`, `env_start()`, `env_exit()` |
| `SleepLock` | `sleep()`, `wakeup_all()` and one sleep lock over `Sched`, instruction by instruction |
| `Queues` | the lists of `inc/queue.h` as sequences: links, their number, `LIST_REMOVE()` |
| `Mutex` | abstract specification: what a sleep lock promises its callers |
| `Console` | `SleepLock` (as `conslock`) plus ring buffer, keyboard interrupt and `sys_cgetc()` |
| `Lifecycle` | slots of `envs[]` through free list, queues, channel and CPU |
| `BlockAllocator` | the block allocator, as operators on a memory of words |
| `MemoryManager` | frames and page table entries, as operators |
| `KHeap` | the kernel heap over `BlockAllocator` and `MemoryManager` |
| `Heap` | abstract specification: what a heap promises its callers |
| `Paging` | faults, working sets, page file, user pages over `MemoryManager` |
| `SharedMemory` | shared objects over `MemoryManager`, cut at the uses of `shareslock` |
| `UserTests` | the tests of the page part of the user heap, of sharing, of invalid pointers and of channels |
| `BlockTests` | the tests of the block part, on `BlockAllocator` |
| `UserPrograms` | sorts, matrices, Fibonacci, allocation, on `BlockAllocator` |
| `MCSleepLock`, `MCConsole`, `MCPaging`, `MCSharedMemory`, `MCPrograms` | instances for TLC |
| `SleepLockProofs` | theorems: types, exclusion, wake-ups; `SleepLock` implements `Mutex`; interrupts, spinlocks, panics and queues of `Sched` under it |
| `ConsoleProofs`, `LifecycleProofs` | theorems about `Console` and `Lifecycle` |
| `CommonTheorems` | lemmas of several proofs: what each queue operation does to the number of links; induction over the rounds of a loop; what the operators of `MemoryManager` do to entries, references and the free list |
| `SharedMemoryProofs` | theorems about `SharedMemory`, with lemmas about its page loops |
| `PagingProofs` | theorems about `Paging` |
| `KHeapProofs` | theorems about the blocks of `KHeap`, with lemmas about every operator of `BlockAllocator` |
| `KHeapPages` | theorems about the pages of `KHeap`; `KHeap` implements `Heap` |

### Sched and SleepLock

`ctl` says whose kernel stack executes (an environment's or the scheduler's),
`proc` is `mycpu()->proc`, and `cpu` holds the interrupt flag, `ncli` and
`intena` with exactly the arithmetic of `pushcli()` and `popcli()`. `pc[e]`
is where the kernel stack of `e` will continue; `irq` records which stacks are
inside the clock interrupt; `saved[e]` is the local `intena` of its call of
`sched()`. A step of `e` needs `ctl = e`; a preemption (`yield`) needs
`cpu.ien`. That critical sections are not interrupted is therefore a result
about `ncli` and not an assumption of the model.

Every check of the code that ends in a panic (lock already held, lock not held,
`popcli` with interrupts on, the four checks of `sched()`, the assertions of
the scheduler) is evaluated; one that fails sets `panicked` and stops the model.
`NoPanic` says it never happens. `chk1()`/`chk2()`, printing, quanta and
page-directory switching are left out.

One step per access to shared state: `acquire_sleeplock()` has six, `sleep()`
six, `release_sleeplock()` with `wakeup_all()` nine. The client of the lock is as
general as the interface allows: it may take the lock when it holds it (the code
returns at once) and release it when it does not (ditto); it gives the lock back
before it exits.

### Console

The reader follows `atomic_readline()`: lock the console, read, unlock. The
increment in `cons.buf[cons.rpos++]` is a load, then a store together with the
read, then the wrap-around, with the keyboard interrupt possible in between.
The keyboard handler runs with interrupts off from gate to return and is one
step, taken in an environment or in the idle scheduler. Keys are pressed and
released, and both raise the interrupt; characters are numbered as they are
typed. `overrun` is a history variable: once typing is a whole buffer ahead of
reading, the full ring looks empty. `CONSBUFSIZE` is 512 in the code, 3 in the
run: the wrap-around and the overflow both occur within four keys.

### Lifecycle

Here a section under `qlock` is one step, which `Sched`/`SleepLock` justify, and
the interruptible rest of each system call is split: entry (which writes the
global `cur_env`), then `allocate_environment()`,
`complete_environment_initialization()` and `sched_new_env()` for creation, one
step for each other call. `clock_yield` may fall between any two. `kill_found`
keeps two peculiarities of the code: a READY target is unlinked without a change
of status, and `env_free()` returns immediately, so a killed slot is never
reused. `out_of_memory` follows the double panic of `allocate_frame()`: the
first exits the environment, whose `sched()` panics because two locks are held,
into the prompt with `qlock` and `mfllock` locked.

`MaxCreators` bounds the environments inside `env_create()` at once. With two,
`CreatedSlotIsPrivate` fails (finding 2 below), and only because both may be between
`allocate_environment()` and `complete_environment_initialization()`: `CreationsApart` says that
it holds in every history in which no two are there together (`OneInside`), however many are
inside `env_create()`. What a second creator of one slot would do to lists it does not
know about is not modelled.

`DestroyedWhateverItsState` speaks of the step of `sys_destroy_env()` that looks for its
target: where the target is afterwards.

### BlockAllocator, MemoryManager and KHeap

`BlockAllocator` is a set of operators from an allocator state (words, list,
break) to the next one. Memory is a function from addresses to words that is
defined where the code wrote a header, a footer, a list link or a caller's
data; reading anything else gives `Garbage`. Sizes are in bytes with the low
bit as the allocation flag, as in the code. The operators are used with two
different `sbrk()`, that of the kernel and that of a program.

`MemoryManager` is shared by the next three modules: `free` (list of frames),
`ref`, `base` (the page from which the kernel finds the frame again) and `pt`
(frame and permission bits of each page, the three available bits included).

In `KHeap` a call of `kmalloc()`, `kfree()` or `krealloc()` is one step. The
elements of `freePagesList_KH` are blocks of the allocator, so allocating
pages frees a block and freeing pages allocates one; an exact fit frees the
list element *before* it is unlinked, and what `free_block()` writes into it
then is kept. Sizes of the run straddle every threshold of the code: smallest
block, odd size, the gap between the largest block and a page, more than a
page. Not covered: a call preempted in the middle (no lock protects the list),
and five requests of `krealloc()`, which `ReallocWorks` keeps out because the
code corrupts the heap there (section 3, finding 5 and "Further defects"). One of them is a
growth into part of the next block. The code writes the tags of the rest, then reads the links of the old
free block; `LinksSurvive` compares the addresses, and where a tag lies on a link `absorb`
leaves a list that starts with `Garbage`. `Krealloc` is `Resize` for the requests of
`ReallocWorks`; `Grow` is `Resize` for any growth into a free neighbour, in the run `kheap_grow` only.

### Paging

A program touches pages one by one; a touch is repeated until it finds its page
present, each fault being a step with the whole of `fault_handler()`, the table
fault, validation, placement or replacement and the page file included. `expect` is a
history variable with what every page must show. `Access` also covers touches
that the handler ends the environment for. The handler's counter of repeated
faults and its panic are kept, and so is the full page file. The nth chance
clock (`clock`) is a recursive function over a bounded number of looks; if no
victim is found within it, the model stops as "clock runs for ever", which
`TwoFaultsSuffice` rules out.

### SharedMemory

`smalloc()` is three steps (create and publish; count the frames; fill and map),
`sget()` three, `sfree()` three, since the kernel lets `shareslock` go between
them and is interruptible there. The code is not safe under every interleaving:
an object is found before it is filled, or used after it was freed. `calm` is a
history variable that stays true as long as no call failed half way and no
`smalloc()` or `sfree()` overlapped another call *about the same object*; the
properties hold in calm histories, with any overlap of calls about
different objects and of `sget()` calls of the same one. `ended = "wild"` is
where the code would use freed memory; nothing is claimed after it. Which free frame is
handed out next makes no difference here, so `Settle` keeps the free list in
one order of its elements.

### UserTests, BlockTests and UserPrograms

The tests are sequences of steps with the numbers of the C files: sizes,
expected addresses, expected differences of the frame count, pages expected in
the working set. Masters and slaves interleave step by step, the busy waits on
`gettst()` and on channel counts included. `BlockTests` executes its 1400
allocations on the words of `BlockAllocator` at the real block sizes. In
`UserPrograms` the sorts run with every input up to the bound, every pivot, and
the stack of pending recursive calls as state; every `malloc()` and `free()`
is done on the allocator. `MCPrograms` runs the three modules one at a time.

## 3. Runs

| Run | Bounds | Shows |
|---|---|---|
| `sleeplock` | 3 environments, 2 nested or unmatched calls each | types, `NoPanic`, `MutualExclusion`, `InterruptsOffWhileLocked`, `QueuesAgreeWithStatus`, `NoLostWakeup`, `PromptAfterLastExit`, refinement of `Mutex`, `AcquireReturns` (250,134 states) |
| `console` | 2 environments, 2 calls, 3 slots, 4 keys, 2 reads each, symmetry | `ConsNoPanic`, `ReaderOwnsConsole`, `SleepersAreApart`, `InputInOrder` (279,338 states) |
| `console_wakeup` | 1 environment, 1 key | *violation* of `TypedCharacterIsRead` |
| `lifecycle` | 3 slots, 2 creators | `PlaceAgreesWithStatus`, `PromptMeansIdle`, `GoneStaysGone`, `CreationsApart`, `ReadyGetsTheCpu` (285,746 states) |
| `lifecycle_create` | 3 slots, 2 creators | *violation* of `CreatedSlotIsPrivate` |
| `lifecycle_destroy_zero` | 3 slots | *violation* of `DestroyZeroDestroysCaller` |
| `lifecycle_destroy` | 3 slots | *violation* of `DestroyedWhateverItsState` |
| `kheap` | pages of 48 bytes, blocks up to 24, 2 + 3 pages, 4 frames, 4 sizes, 3 live regions, all strategies | `HeapTiled`, `BlocksOwned`, `PagesPartition`, `FramesConserved`, refinement of `Heap` (26,822 states) |
| `kheap_grow` | the same, 2 sizes, any growth of a block | *violation* of `RestIsListed` |
| `paging` | 2 environments, 6 pages each, working set of 2, 8 frames, 3 disk frames, both clock variants | `LastWriteSeen`, `WorkingSetExact`, `PagingFramesConserved`, `PageFileConserved`, `TwoFaultsSuffice`, `AccessEnds` (266,574 states) |
| `sharing` | 2 environments, 5 object descriptions over 2 names, 2 pages each, 4 frames, 2 shares | `SharingSafe`, `ReferencesExact`, `SameFrames`, `SharingFramesConserved` (246,503 states) |
| `programs` | the real sizes of the tests; arrays up to 7, matrices up to 3, 2 rounds | `UserTestsMet`, `NobodyStuck`, `BlockTestsMet`, `ProgramsRight`, `HeapGivenBack` (138,731 states) |

**Why the bounds suffice.** Three environments give a holder and two waiters:
the smallest herd in which a woken waiter loses the race and sleeps again. Two
calls allow a nested acquire and a second request after a release. Three slots
give a caller, a victim and a bystander. Deadlock is not checked: the system
stops at the prompt (`Sched`) or waits for keys (`Console`); and in `Lifecycle`
every slot may be used up. Of the later runs, the kernel heap, paging and
sharing stop where the kernel panics, and programs end.

In `kheap` three pages hold a run with a free page on either side, two runs
with a gap, and an exact fit; four frames for five pages make `sbrk()` and
`kmalloc()` fail; 48 bytes hold a block of the largest size, its neighbour and a list
element. In `paging` a working set of two is smaller than the set of pages
that either program touches, so that every touch may replace a modified page;
three disk frames fill up; and one program uses the block area, the other the
page area, which keeps the instance small. In `sharing` two names with two
sizes make reuse of an address and a failed creation happen, and four frames
are fewer than both programs can ask for.

**Fairness.** `WF(Scheduler)`: the CPU does not stop. `WF(Resume)`: an
environment on the CPU returns from the interrupt. `SF(Run(e))`: the clock
preempts after a quantum of real time, in which running code executes, so an
environment that is on the CPU again and again makes progress; weak fairness
would not say so, because the preemption disables the step. In `Lifecycle`
only the scheduler and the clock are fair: environments may loop for ever. In
`Console` a pressed key is released some day; nothing says that a further key
is typed. In `Paging` `WF(Retry(e))` is the scheduler again: an environment that
has faulted is run and executes its instruction a second time. `AcquireReturns` is checked with a bounded number of calls: the code
does not queue the woken waiters, so with unboundedly many calls of the others
a waiter may lose every race. It is stated for one environment, `e1`; they are interchangeable.

### Findings

1. *Lost keyboard wake-up* (`console_wakeup`, `kern/trap/syscall.c:69`). Between
   `cons_getc2()` returning 0 and the reader's enqueue in `KBDchannel`, a keyboard
   interrupt finds nobody to wake; the reader sleeps with a character in the
   buffer until the keyboard is touched again. Usually the release of the key is
   such a touch and hides the flaw; in the counterexample the press and the
   release both fall into the window.
2. *One slot, two creators* (`lifecycle_create`, `kern/proc/user_environment.c:689`).
   `allocate_environment()` reads the head of the free list and leaves it there.
3. *`sys_destroy_env(0)` kills a bystander* (`lifecycle_destroy_zero`,
   `kern/trap/syscall.c:436`). The global `cur_env` is stale after a preemption.
4. *`sys_destroy_env()` leaves a BLOCKED target asleep* (`lifecycle_destroy`,
   `kern/cpu/sched_helpers.c:445`) and returns 0; its comment says "whatever its state".
5. *A small growth in place loses free blocks* (`kheap_grow`,
   `lib/dynamic_allocator.c:691`). A block that grows by 2 to 14 bytes into a free block
   with at least 16 bytes left overwrites the links of that block before
   `LIST_INSERT_AFTER` and `LIST_REMOVE` read them; the rest is no longer in the list. The
   kernel's test of this case grows by more.

### Further defects

Met while modelling. The models contain them or name the guard that keeps them
out; the lines are under "hazards" in PROJECT.json.

- *Kernel heap.* Besides the growth of finding 5, `krealloc()` corrupts the heap for four requests: a block
  shrunk by 2 to 14 bytes or to fewer than 8; pages shrunk to a size between
  the largest block and a page; one page grown in place, where the address of the
  second page is returned. `krealloc(NULL, 0)` panics. `kfree()` of pages
  without memory for a list element writes through NULL. `kmalloc()` and the
  block allocator run preemptible without a lock.
- *Processes.* `sys_destroy_env()` of the caller itself calls `sched()` without `qlock`, which panics
  (`kern/cpu/sched_helpers.c:471`); the panic is an exit, so the caller does end in the EXIT
  queue, against its comment.
- *User heap and faults.* A run of pages that ends exactly at `USER_HEAP_MAX`
  is found free and then kills its caller. The fourth fault in a row at one
  address panics, even when a program legally allocates, touches and frees the page each
  time. Replacement clears the bit by which `free_user_mem()` knows a used page,
  so a freed page that was swapped out stays in the page file. The flag
  `bypassInstrLength` is one for all environments.
- *Shared memory.* An object is published before it has frames; `smalloc()` does
  not know the error of a creation that ran out of frames; `sget()` and `sfree()` use the object
  after the lock was released and test the references outside it; the exit of an
  environment drops no reference. Memory and sharing calls read the global `cur_env`
  after interrupts were enabled.
- *Tests.* `rsttst()` initialises `tstcntlock` while it may be held.
  The master of `tst_free_1` waits for the counter to be 1 a second time after
  starting the second slave, and hangs if that one was faster. The masters of the
  channel tests give up after a number of polls.
- *Programs.* Zero elements end in `free(NULL)`, which panics; the merge sorts
  divide by zero for one or two "semi random" elements; `KthElement()` is wrong
  where elements repeat.
- *Console.* `cons_getc2()` takes no lock (`kern/cons/console.c:460`) and nested
  `cons_lock()` calls are not counted (`kern/cons/console.c:564`).
- *Frames.* The number of free frames is compared before `mfllock` is taken
  (`kern/mem/kheap.c:164`).

## 4. Proofs

All proofs hold for every interleaving of preemptions and for every value of
the constants that the assumptions allow: any finite set of environments
(`EnvsAssumption`, `LifecycleAssumption`), any bounds on calls, keys and reads,
any size of the ring buffer (`ConsoleAssumption`), any objects, and any positive number of pages,
pages per table, frames and shares (`SharingAssumption`). For paging they are any finite set of
environments, any number of pages of each part of the address space, of frames, page-file frames and
places in the working set, and any pages that the programs touch (`PagingAssumption`,
`TouchesAssumption`); `sweeps` ranges over all integers.

### The sleep lock (`SleepLockProofs`)

- `TypeCorrect`: `Spec => []TypeOK`. `TypeOK` alone is not inductive: the
  scheduler looks up `status[proc]`, and `sleep()` queues `proc`, so `proc` must be
  an environment while one runs. The strengthening is `OnCpu`: the environment
  whose stack executes is the current one.
- `LockInvariant`: the inductive invariant `LockInv`. `OwnerIsNamed`: code between the
  grant and the release finds `locked` set and `pid` its own.
  `GuardExcludes`: at most one environment is between taking and freeing the guard, and the
  guard's word is set. `TestsStayTrue`: an environment that has seen the lock
  free under the guard and not yet taken it still finds it free, and one that
  has seen it taken still finds it taken; this carries the test of `acquire_while` to
  the assignment and to the enqueue in `sleep()`. `NoLostWakeup`: a
  non-empty channel means a locked lock. The guard parts are claimed only
  while nothing has panicked.
- `SleepLockExcludes` and `SleepLockWakes`: mutual exclusion and no lost wake-up, from `LockInvariant`.
- `SleepLockImplementsMutex`: `Spec => MutexSpec`. `StepKinds` reduces every step to one
  of five kinds (invisible, an edge of the code that leaves the lock alone, request,
  grant, release); the mapping `lockMode` sends each to a step of `Mutex`
  or to a stutter. `OwnerExists` is added to the invariant: a locked lock has an
  owner inside the code that owns it, so a grant finds nobody holding.

### The dispatcher (second part of `SleepLockProofs`)

The first part is about any code that runs on the dispatcher. Such code is
described by the spinlocks held at each of its places (`L`) and by the places at
which it wakes up inside `sched()` (`W`); the lemmas about `acquire()`,
`release()`, `sched()`, the clock interrupt and the scheduler are proved for every
`L` and `W` that is a `LockMap`, and used for `SleepLock` and again for `Console`.

- `CpuInv`: nothing has panicked; `ncli` is the number of spinlocks that are held
  and interrupts are off meanwhile (`Counted`); the environment that executes holds
  the locks of its place, and except where it was switched to, the first of them
  remembers that interrupts were on (`OnStack`); the scheduler holds `qlock` between
  its acquire or the switch back and its release (`OnScheduler`); everybody else stopped
  in a preemption without locks, at the start, asleep with `intena` saved as on, or
  after its exit (`Parked`). `intena` is one word for all environments, and this is
  what the value saved by `sched()` has to be for it to be right again afterwards.
- `Placed`: the status of an environment and the number of its links in the ready
  queue, the channels, the exit queue and on the CPU agree. `sleep()` puts the caller
  into the channel some steps before it changes its status; the places between are the
  exception. `Idle`: the scheduler looks for sleepers only when the ready queue is empty,
  and at the prompt everybody has exited.
- `NeverPanics`, `SpinlocksShutInterruptsOut`, `QueuesAgree` and `PromptWaitsForAll`
  follow. The last one needs `Placed`: with the ready queue empty, nobody on the CPU and
  nobody BLOCKED, every status but EXIT would have a link that does not exist.

### The console (`ConsoleProofs`)

`ConsInv` is `CpuInv` with the spinlock and the channel of the keyboard added, `Placed`
over both channels together, `LockInv` of the sleep lock, and three parts of its own.
`ReaderOwnsConsole`: who is inside `cons_getc2()` holds the console's lock. `ReaderInv`:
the position it loaded is still `rpos` when it stores, and only it leaves `rpos` one past
the end. `RingInv`: until typing is a whole buffer ahead, the slots from `rpos` on hold
the characters from the first unread to the last typed, and `wpos` is the slot after
them. With them the interrupt may write between any two steps of the read, for every
size of the buffer (`ConsoleInputInOrder`).

### The process table (`LifecycleProofs`)

`LifeInv` says of each slot how many links it has in each list (`Place`, in the terms
of `Fits`). That a slot is *in* the list its status names is not inductive: a dequeue
takes one link, and a slot with two would stay where it was. `Newcomers` adds that
the slot that `env_create()` took off the free list has one creator; that the free list
holds it once gives this. `PlacesAgree`, `PromptIsIdle` and the action property
`GoneForGood` hold for any number of environments in `env_create()` at once.
So does `CreationIsPrivate`, which is `CreationsApart`: the premise `[]OneInside` is about the history, not about
`MaxCreators`, and `CreateInv` is kept by every step between two states with `OneInside` (who is
inside a call runs, is ready, or is gone for good; the slot of a creator
is still on the free list and marked UNKNOWN until it is initialised). Without the premise it is false, as the run `lifecycle_create` shows.

### Shared memory (`CommonTheorems`, `SharedMemoryProofs`)

The operations are loops over pages, which the model writes as recursive functions.
`CommonTheorems` does the induction they need without an operator parameter: if a set of
rounds has the first one and with each round the next, it has all of them, because a
set of numbers outside it would have a least element (`LeastNat`, `UpTo`, from the well-foundedness
of `<`). `Loop` says it for a function that is defined round by round: it exists, and each
of its rounds has what every round hands on to the next. `UpTo` is used once per loop of this module (`FillPagesDoes`, `MapPagesDoes`, `UnmapPagesDoes`), for one
claim: so many pages are done, all others are as before, and the frames are still counted. One
round is what `map_frame()`, `allocate_and_map()` and `unmap_frame()` do; each keeps `Counted`,
the form of `FramesCounted` that says for every frame how many entries map it and how often
the free list has it.

`SInv` is `SharingSafe` and, as long as the history is calm and nothing has ended,
`GoodInv`. None of the four properties is inductive; that references are exact, say, is kept
by `sfree()` only if the object it drops is the one the page was given, is live, and is in
nobody else's call. Three views of the state carry the proof, each a function of the variables
that says which object a page or an environment stands for:

- `Homes`: the object whose frames are mapped from a page on. It is given before the
  program hears of it (`sget()` between mapping and counting) and taken away before the
  program's note is (`sfree()` after unmapping). `HomesOK`: every home shows the object's frames
  with the right permissions, no two homes overlap, and no entry is outside a home.
- `Refs` and `Fillers`: the references that are counted, those of the pages until `sfree()` dropped
  them and those of the environments that are creating an object. `ObjectsOK`: `refs` is the number of both, and
  an object without a creator has its frames and is noted somewhere.
- `CallsOK`, `CallsApart`, `AllFresh`: what each place of a call knows: `smalloc()` before the
  insertion, that its key has no object; an `sget()`, that the object is live with the size it read;
  an `sfree()`, that the page still notes it; both allocations, that the pages they found are
  still empty. A call goes from a test to a use across a release of the lock, and it is `CallsApart`
  (only `sget()` calls meet) that keeps what was tested true.

There is one lemma for each of the actions, and a few for what they have in common: a call moves
along (`CallMoves`), pages change but no object does (`MemoryMoves`), one reference changes
with its count (`RefsMoves`). `NeverWild` shows that the actions that end as
"wild" are disabled in a good state. From `SharedMemoryInvariant` follow `SharingIsSafe`, `ReferencesAreExact`,
`FramesAreTheSame` and `FramesAreConserved`; the last needs that an entry is always at home,
so that an environment without homes has no entry, and so no table (`TablesUsed`).

### Paging (`PagingProofs`)

A page of an environment is in four places: its page table entry with the bits the kernel keeps
there, the working set, a frame, and the page file. `PagingInv` says how they fit together.

- `Base` holds always, also after the kernel stopped: types; `FramesApart` (a frame is free,
  once, or the one page that maps it counts it) and `DiskApart` (the same of the
  page file); `Sound` (a table has a frame exactly if the environment's directory has it, and the marks of the
  heap are inside the heap).
- `EnvInv` holds of each environment until the kernel stops. One that was not created has nothing (`Fresh`). A live
  one is `EnvGood`: `Listed` (its working set lists the present pages, each once, and the hand is
  where the algorithms look for it), `PagesGood` (bit 11 of a heap page is set
  exactly if it is present, bit 10 whenever it is, and the pages of the program are in
  the page file), and `Holds`.
- `Holds`: a page shows what it should, in its frame if it has one; and *the page file shows the same unless the
  page is present and modified*. This is what makes `LastWriteSeen` inductive. The property
  itself looks only at the frame of a present page, and a replacement throws the
  frame of an unmodified page away.

The proof goes along the code. `AllocateAndMap`, `UnmapApart` and `PermissionsApart` give the effect
of an operator on a memory whose pages own their frames; `MapPage`, `UnmapPage`, `WritePage`,
`AddEnvPage` and `UpdateEnvPage` on a world, and each says that nothing happens to any other page (`OnlyPage`,
`Untouched`). A turn of the clock's hand changes used bits and counters only (`Turned`), so
that whichever victim it stops at is a page of the full working set, and the proof need not know how
many looks it took: saved if modified (`SaveVictim`), dropped (`VictimGone`), and in its place the
new page (`PageIn`). `Replacement` and `Placement` are then joined in `FaultKeeps`. The loops of `malloc()`,
`free()` and `env_create()` use `Loop`. While a program is loaded its environment is not yet good;
`Loading` says which pages are in memory and which in the page file after each page, and `LoadedGood`
that the last one makes it good. There is one lemma for each action: `CreateKeeps`, `FaultKeeps`, `AccessKeeps`,
`MallocKeeps`, `FreeKeeps`, `SbrkKeeps`, `ExitKeeps`, `SetSweepsKeeps`.

From `PagingInvariant` follow `LastWriteIsSeen`, `WorkingSetIsExact`, `PageFileIsConserved` and
`PagingFramesAreConserved`. The last one leaves out the page called `Hole`, which stands for all that a program may
touch and does not own: the fault handler gives it a frame,
frees that frame without unmapping it, and ends the environment, which keeps the stale entry and never runs again.

### The kernel heap (`KHeapProofs`, `KHeapPages`)

The block allocator keeps its state in the memory it manages, and finds its way by
arithmetic on the words there. `KHeapInv` says what these words mean, in terms of a set of blocks that
appears in no variable: there is a set `B` of addresses and for each a size in `z`, such that

- `Laid`: the blocks are at least 16 bytes each, even, and laid end to end from the first address
  to the break, without gap or overlap;
- `Tagged`: header and footer of each are its size, plus 1 if it is in use, and the words before
  the first and after the last block are 1;
- `Apart`: no two neighbours are free; `FreeList`: `freeBlocksList` has the free ones, each
  once, in the order of their addresses;
- the blocks in use are those of the callers and the elements of `freePagesList_KH`, none of them in
  both roles (`Sound`), and each has room for what was asked for (`Fits`); the list
  has no element twice and only addresses of pages (`Listed`).

Before the first block the allocator is blank and nobody has a block (`InUse`), and whoever holds pages knows that
the list of pages was set up, so that the first `kmalloc()` of pages does not set it up again (`Consistent`).

`HeapTiled` and `BlocksOwned` are not inductive. They speak of what a walk
along the headers meets; the allocator goes the other way too, from a block to the footer before it,
and joins what it finds. The footers, the two END words and the absence of two free neighbours are what
makes the four ways of `free_block()` complete, and the order of the list is what makes the
position at which it links a block right.

The lemmas go up the code: what one word written does to others (`PutWord`, `ScribbleWord`; the owner of a
block writes anything into it); blocks joined, cut and added (`JoinLaid`, `CutLaid`, `AddLaid`); one
lemma for each way of freeing (`FreeAlone`, `FreePrev`, `FreeNext`, `FreeBoth`), for taking a block
whole or split, for shrinking it and for growing into the next block, whole or part (`AbsorbBlock`, whose
premise `LinksSurvive` is that of `ReallocWorks`); the
growth by `sbrk()`, which moves the END word and frees the new page as a block
(`ExtendTiled`, `StartTiled`); then `kmalloc()`, `kfree()` and `krealloc()`
(`Kmallocs`, `FreesAll`, `Kreallocs`), where a list element is one more block that may be
allocated or freed, or missing. `krealloc()` is proved for the requests of `ReallocWorks`; those it leaves
out are the ones that corrupt the heap (section 3).

Last, `Tiles()` is tied to `B`. The walk is defined by `CHOOSE`, as every recursive function
is, and nothing says that one exists when the headers may lead anywhere; `WalkExists` constructs it, as the union over
what is reached from each word. `TilesAre` then shows that the walk from each block is
the blocks from there on, by a set of offending addresses that would have a largest element.
`HeapIsTiled` and `BlocksAreOwned` follow, for any page size, largest block, size of a list element, number of pages and
frames, and any requests, given `PageAssumption` (a page is a multiple of 4 bytes and holds the largest block and its tags with
16 bytes to spare), `KHeapAssumption` and `NodeAssumption` (a list element fits into a block: 16
bytes and 2 KB in the code).

The pages are proved on top of the blocks, in `KHeapPages`, by a second invariant, `PagesInv`, in terms of page numbers
(`PageAt(i)` is the address of page `i`). It has two halves.

- `Tables` holds always, also after a panic. A frame is free, once, or has one page, which it names in
  `base` (`FramesExact`; this is what makes the two address translations inverse to each other, `Translated`), and
  the pages below the break, and no others of the block part, have frames (`BreakAt`).
- `Area` holds until the kernel panics. There is a function `N`, in no variable, from the first page of each run a caller
  holds to the length of the run. The runs do not overlap (`RunsApart`) and are those of `live`, each
  large enough (`RunsHeld`); their pages have frames, with bit 9 at both ends of a longer run and nowhere else, and the
  other pages have no entry at all (`RunsShown`); `freePagesList_KH` has exactly these others, in order, with no two
  elements that touch (`RestListed`).

`PagesPartition` alone is not inductive, because `kfree()` and `krealloc()` know the length of a run only from the marks in the
page table, and nothing in the property says that what they count is what was handed out. `LastOfRun`
shows that the count ends at the last page of the run, whatever runs and free pages lie behind it. A run is filled
and emptied page by page (`FillRounds`, `EmptyRun`; a page taken away gives its frame back, `EmptyPage`). `TakeCovers`
and `ReturnCovers` say what the list has after pages were taken and given back: the second for all four ways of joining with
the neighbours, of which the one without any needs a block for its new element and panics when there is none. `Returned`
names both outcomes. On top are one lemma for each call (`GetsAny`, `DropsAny`, `KeepsAny`), where a `krealloc()` stays,
grows in place, gives pages back or moves, also between blocks and pages. `RunFound`, `ListHas` and
`PageShown` lead from `N` to what the properties compute from the page tables, and so to `PagesArePartitioned` and
`FramesAreConserved`.

`HeapKeepsItsPromise` is the refinement, `Spec => HeapContract`. `Heap` takes the size of a region from the tag of a block
or the length of a run, so it needs that a call leaves the *exact* size of every other block and run alone, which
`Fits` ("at least") does not say. The step lemmas on blocks are proved for any table of needs, and a negative need is read as
an exact one (`ExactAll`): the lemmas are used once more with the present sizes of all blocks as needs. For pages the
lemmas on runs name the new `N` (`LeftRuns`). `MallocRegions`, `FreeRegions` and `ReallocRegions` then say which regions are there
after each call, `RegionsAre` ties them to what `Extent` reads from tags and page tables, and `HeapStep`
sends each call to `Alloc`, `Free`, `Resize` or a stutter.

### Only model-checked

- Liveness (`AcquireReturns`, `ReadyGetsTheCpu`, `AccessEnds` and the rest of the temporal
  properties under fairness): out of the prover's reach.
- `TwoFaultsSuffice`: it needs that the replacement clock finds a victim, which is the termination of
  a loop whose bound depends on the counters in the working set.
- `UserTests`, `BlockTests`, `UserPrograms`: the programs are fixed, so that TLC covers
  them; there is no constant to generalise over but the inputs of the sorts.

## 5. Not modelled

- Multiple CPUs (`NCPUS` is 1); `_panic_all()`; console output and the prompt's own
  polling of the keyboard; command parsing and the commands that only print.
- What the code itself does not implement and answers with a panic: priority,
  BSD and MLFQ scheduling; kernel and user semaphores; worst and next fit in the block allocator;
  the other replacement algorithms and page buffering; user `realloc()`; the chunk
  operations of the kernel.
- Boot, trap entry, drivers, formatting and strings: assembly, devices and pure
  sequential code without state the properties are about.
- `pf_free_env()` and `env_free()` after its early return: never reached.
- Programs that need semaphores (`arrayOperations`, `quicksort_semaphore`,
  `tst_air*`, `MidTermEx*`, `tst_semaphore*`) die in their first call; of
  `arrayOperations` the functions of the slaves are modelled. `tst_placement` and
  `tst_page_replacement` depend on where the compiler puts code and data.
- The kernel's own test functions under `kern/tests/`.
- Preemption inside `kmalloc()`, `kfree()` and inside a page fault.

## 6. Plan

- `TwoFaultsSuffice` for every instance: a measure on the counters of the working set that each look of the clock lowers.
- A model of `kmalloc()` and `kfree()` cut at their accesses to `freePagesList_KH`, should the code get a lock for it.
