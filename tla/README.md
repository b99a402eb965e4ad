# Verification of the xv6 course projects

The repository holds one operating system, xv6 for x86, in several versions: the original, and one
copy per course project, each of which changes one part of the kernel. This directory holds TLA+
specifications of the parts that were changed and of the parts of the original that are hard to test, the TLC models
that check them, and proofs about the copy-on-write memory, the filter
lock, the log, the buffer cache, the process table, the pipe and the references to inodes.

| version | directory under `src/` | what it adds | CPUs in its Makefile |
|---|---|---|---|
| base | `xv6-public`, `xv6-public_original`, `xv6-public_test` | xv6 (they differ only in the Makefile) | 2 |
| project 1 | `Project01/xv6-public` | system call `getgpid`, interrupt 128 | |
| project 2 | `xv6-public_project02` | the MLFQ and MoQ scheduler | 1 |
| project 3 | `xv6-public_project03`, `project03` | threads in a process (LWP); a filter lock for Linux | 1 |
| project 4 | `xv6-public_project04` | copy-on-write memory | 1 |
| exercises | `lab`, `pthread`, `test` | single pages of C, apart from the system | |
| copies | `os`, `ex_project3` | earlier states of project 2; another year's solution | |

## Inventory

**Process table** (`proc.c`, every version). State: `ptable.proc[NPROC]` with a state, a parent, a
channel and `killed` for each slot; `initproc`, `nextpid`; one `cpu` record each. Operations: `allocproc`,
`fork`, `exit`, `wait`, `kill`, `sleep`, `wakeup`, `yield`, `scheduler`. All under `ptable.lock`, which is held over
`swtch` from one process to the scheduler and on to the next. Hard: lost wakeups, an `exit` that hands zombies to an
`init` that sleeps, a `fork` that fails half-way. Correct if no process that can run is forgotten, a child that has
exited is noticed, and a slot is given back once.

**MLFQ and MoQ** (project 2: `proc.c`, `trap.c`). State: a level, a position, ticks and a priority for
each process; the next position of each level (`L0_cnt` … `MoQ_cnt`); `MoQ_active`, `MoQ_sz`,
`global_tick`. Operations: the scheduler's choice, the timer's charge, demotion and boost,
`setpriority`, `setmonopoly`, `monopolize`, `unmonopolize`. It interacts with `fork` (a new
process enters L0), `exit` (leaves the MoQ) and the timer. Hard: counts that must follow processes through every
death; starvation; a lock left held on an error path. Correct if nobody that can run waits for more than the others'
quanta of L0 after a boost, nobody outstays his quantum, `MoQ_sz` is the size of the MoQ and a monopoly ends.

**LWP** (project 3: `proc.c`, `exec.c`, `trap.c`). State: `NPTH` threads in each process, with a kernel stack, a
user stack, a state and a channel each, next to the state of the process, which sums them up; `onTidx`;
`kstacks` and `ustacks`, which outlive the threads. Operations: `thread_create`, `thread_exit`,
`thread_join`, and all of the process table, which has to deal with all threads at once in `exit`, `exec`, `kill` and
`wait`. Hard: two copies of the state; threads that end others in the middle of a system call; stacks used again.
Correct if no thread is lost, every live thread has stacks of its own, joins and waits return, and a killed
process exits.

**Copy-on-write memory** (project 4: `kalloc.c`, `vm.c`, `proc.c`, `trap.c`). State: the free list and a
count of references for each page, page tables with `PTE_W`, the TLB. Operations: `kalloc`, `kfree`, `incr_refc`,
`decr_refc`, `copyuvm`, `CoW_handler`, `allocuvm`, `deallocuvm`, `freevm`, called by `fork`, `sbrk`, a store
that faults, `wait` and `exec`. Hard: the count and the page tables are changed one after the other and by several
CPUs; partial failure of a fork; stale translations. Correct if counts are exact, nothing is leaked or freed too
early, and sharing is invisible.

**Pipes** (`pipe.c`, every version). State: a ring buffer with two counters that wrap at 2^32, an open flag for each end,
a spin-lock. Operations: `pipealloc`, `piperead`, `pipewrite`, `pipeclose`; `fork`, `close` and `exit` make and drop references to
the ends. Hard: sleeps and wakeups around full, empty and closed, with readers, writers and kills on several CPUs.
Correct if bytes come out once and in order, nobody sleeps over what he waits for, and the page is freed with its last user.

**Buffer cache, sleep-locks, disk driver** (`bio.c`, `sleeplock.c`, `ide.c`). State: `NBUF` buffers with block number, count
of users, flags and a lock; the disk's queue. Operations: `bread`, `bwrite`, `brelse`, the disk's interrupt. Hard: a
buffer is counted, locked and filled in separate steps; buffers pinned by the log; the limit of buffers. Correct if there is
one buffer for a block, it changes hands only between users, and every request is answered.

**Log** (`log.c`). State: the header in memory and on disk, the operations under way. Operations: `begin_op`,
`log_write`, `end_op`, commit, recovery. Hard: crashes at any write; group commit; admission by reservation. Correct if a
crash leaves all of a transaction or nothing, `log_write` never panics and whoever sleeps for the log is woken.

**Inodes, directories, files** (`fs.c`, `file.c`, `sysfile.c`). State: the inode cache with a count of references, a valid flag
and a sleep-lock for each entry; on disk the inodes with their links and the entries of directories; the open-file table; the files
and the current directory of each process. Operations: `iget`, `idup`, `ilock`, `iput`, `ialloc`, `dirlookup`, `dirlink`, `namex` and
the system calls on names. Hard: locks of a parent and its child; a name that is looked up, let go and used; an inode that is
freed by whoever forgets it last. Correct if counts are exact, an inode is freed when no name and nobody knows it, names lead to
inodes in use and nobody waits in a circle.

**The rest of the kernel** is `exec`, console, traps and boot, as published.

**Filter lock** (`project03/pthread_lock_linux.c`): N threads, `flag` and `turn`, busy waiting in ordinary
variables. Hard: mutual exclusion, also on a processor that delays stores.

**User programs, boot, drivers, getgpid** hold no state worth a model, or only hardware's.

How they interact: programs enter by traps; system calls change the process table, memory and files; `sleep` and
`wakeup` on channels connect every blocking part with the scheduler; the timer is the only source of preemption; all
memory (page tables, pages, kernel stacks) comes from `kalloc`.

## Plan

Modules in the order in which they were written; each is there with its run.

1. `CowMemory` with `PrivateMemory` as its abstract specification, and `CowMemoryProofs`.
2. `Mlfq`: the scheduler of project 2, and `MlfqProofs`.
3. `Lwp`: threads over the process table, and `LwpProofs`.
4. `FilterLock` and `FilterLockProofs`.
5. `Log`, with `AtomicDisk` as its abstract specification, and `LogProofs`.
6. `Bcache` with sleep-locks and disk, with `BlockStore` as its abstract specification, and `BcacheProofs`.
7. `Procs`: the process table of the base on several CPUs, and `Pipe`, which extends it, with `Stream`; `PipeProofs`, about
   both.
8. `Inodes`: references, links and locks of inodes, with the system calls on them, and `InodesProofs`.

Every safety property of a passing run has a theorem, under the hypotheses that its section names. Liveness stays with TLC.

## CowMemory

**State.** `frame[p][s]` is what slot `s` of process `p` refers to: a user page, the kernel stack, the page-table page, the
page directory, or (`Owed`) the reference that the fault handler has replaced and still has to give up. `PgDir` stands for
the kernel's page-table pages too: they are allocated and freed together with it. `perm` are the flags
of the entries, `tlb` the cached writable translations, `refc` is `pgRef.pgRef`, `freelist` `kmem.freelist`.
`pc` says where a process is in the kernel, and `child`, `i`, `lim`, `seen`, `victim`, `lock` are the locals of its call.

**Steps.** One step is one access to what CPUs share. `kfree` is two steps (`KfreeDecr`, `KfreePush`), since the code
tests the count after it has been decremented while `CoW_handler` decrements it under another lock; the fault
handler is two or three (`Fault` reads the count; `CowReuse`, or `CowCopy` then `CowDecr`). A process's own page table is only
written by kernel code that runs for it, so those writes are part of the step next to them. The fault handler runs with
interrupts off, and so does the holder of a spin lock: `CanStep` lets at most `NCpu` processes be in such sections.
`Evict` loses TLB entries at any time; `fork` and `growproc` flush on return, and the entry of another process is
lost with the address space.

**kalloc with nothing free.** The code then looks up the count of the page at `V2P(0)`, far outside of `pgRef`. What is there is
unknown, so the model has both outcomes: a word that is not 0 (panic), or one that is (the word is incremented:
`scribbled`, after which nothing is said about contents, and 0 is returned).

**Collapsed.** `SetupKvm` and `GrowPage` have one way to run out of memory, where the code has one more for a page-table page of the
kernel's half or of `mappages`; both give back what there is in the same way, and page-table pages are one. `KfreeDecr` tests the count and
decrements it in one step: the test is there against a page that nobody has counted, and whoever calls `kfree` has a reference of its
own, so a handler that decrements in between does not change its outcome.

**Left out.** `exec`: it builds and frees an address space from parts that are modelled, and `Init` is the state after the
first one. `init` never exits. The system calls `countfp`, `countvp`, `countpp`, `countptp` only read. Stores
are tagged with the process that made them, so that two programs' stores can be told apart.

**Abstract specification.** `PrivateMemory` gives every process a memory of its own; `fork` copies it at once.
`MemoryIsPrivate` says that every step of `CowMemory` is, through `View`, a step of it or changes nothing: the steps of copying,
faulting and counting cannot be seen. When a process may give up pages is left open there (`Drop`, `DropPage`): what the refinement shows is what
they contain, not that they are kept until the process gives them up, which is the business of the counts.

**Instances** (`MCCowMemory`). Each slot has a page that is its own while that page is free; `OnePageOfMany` explores
one of the pages that `kalloc` may return, which is sound since free pages do not differ. `Seen` (a VIEW) leaves out
fields that no action or property reads; a run whose properties do not look at contents leaves those out too. The two
values of `CowSmp` may be exchanged (`Values`): with one value a store that repeats an older one would not be seen.

| run | instance | shows |
|---|---|---|
| `CowSmp` | 2 processes of up to 2 pages, 2 CPUs, two values | counts, sharing, TLB and privacy hold with faults and frees at the same time |
| `CowLive` | 2 processes, 2 CPUs, 8 pages, sbrk to 0 and to all there is | every faulting store is carried out and every call returns; only `CoW_handler` loses pages, also when fork and sbrk fail at every possible place |

An instance of three processes on one CPU, for a page shared by a child and a grandchild whose counts fall in any order, was checked
once (`MemoryIsPrivate` and `NoLeak`: on one CPU no page is lost at all; 89,092 states). In `CowLive` a process
may take five pages of its own, which with its kernel pages are all eight: forks then fail at the stack, the page directory, the page
table, and an sbrk in its first, middle or last page. Its programs are of one or two pages or as large as they can be
(`SmallOrWhole`) and store to their first page (`StoresToFirst`); contents are left out by the VIEW, as no action reads them.
`MinSz` is the smallest size a program asks for: with 0 a program may lose all its pages (see Observed), after which entries of the
TLB are stale, so `CowSmp` has 1.

Fairness (`CowLive`): strong for a process's kernel steps and for the retry of a store that faulted. The timer makes
the scheduler go round the table, and kernel code neither sleeps nor loops on another process here, so a
process that can step again and again does.

**Proved** (`CowMemoryProofs`, for all processes, pages, sizes and numbers of CPUs; assumption `ConstantsOK`). `CowSound` is `TypeOK`
and `RefExact`, which alone is not inductive: a step that clears or fills a slot keeps the count exact only if the slot
was full or empty before, and that depends on where each process is. `CowInv` therefore adds

- `TypeOK` with `Control`, the registers of a call: the child of a fork or a wait is an embryo or a zombie that no other
  process builds or releases, and a fault is about a page that is mapped;
- `SlotInv`: the slots that a step will fill are empty: all of an unused process, those a fork has not reached, those at
  or above the size, and `Owed` outside of `CoW_handler`;
- `RefInv`: the count of every page is the cardinality of its holders, and a free page has count 0.

`TypeStep`, `ControlStep`, `SlotStep` and `RefStep` show that `Next` keeps each of them, one step per
action; `Fill` and `Clear` are the two facts about cardinality on which the counts rest. Theorems: `CowInvariant`,
`TypeCorrect`, `CountsAreExact`, `FreeIsUnheld`, `SizeBounds`.

What programs see rests on three more invariants over `CowInv`, each with a lemma that `Next` keeps it:

- `PrivInv` (`PrivStep`): a page that may be written has one holder of any kind, and so has the page whose handler has read a
  count of 1. The second part is what makes `CowReuse` right: between the reading of the count and the write of `PTE_W` no other
  process can come to refer to the page, since only the process itself can share it (`CountsOne`). This gives
  `SharedIsReadOnly` (`WritableIsPrivate`).
- `TlbInv` (`TlbStep`): a cached translation leads to where the page table does, and to a page that nothing but that page (and,
  until `fork` ends, the child's) refers to; while `deallocuvm` takes pages this holds below the new size only, and
  then `growproc` flushes. The invariant needs that a shrinking call ends with the flush, which one to size 0 does not (see Observed), so
  `FlushesSuffice` (`TlbIsFresh`) and what follows from it have the hypothesis `MinSz # 0`; it is false without.
- `CopyInv` (`CopyStep`): what `copyuvm` has copied is what the parent has.

`SharingIsInvisible` is the refinement: `MemStep` maps each step to one of `PrivateMemory` (`Store` to `Write`, `ForkReturns` to
`Duplicate`, `GrowPage` to `AddPage`, `KfreeDecr` to `DropPage` or nothing, `Exit` to `Drop`), to nothing, or to a `kalloc` that
has incremented a foreign word. `OnlyHandlersLosePages` is the action property `OnlyHandlersLose`, with `LockInv` (a victim is there
only under `kmem.lock`). Model-checked only: liveness, which TLAPS cannot do.

## Mlfq

**State and steps.** `proc` has the fields that schedule; `cnt` the next position of each level (`L0_cnt` …), `size` is `MoQ_sz`.
There is one CPU, as the Makefile has it, so a step is everything between two places where an interrupt can
come. `Tick` is the timer's part of `trap`: charge, boost, demotion and `yield`, in the code's order. `Wait`, `Fork` and
`SetPriority` are two steps where the code releases the lock in between; `setpriority` writes through a
pointer it found before it released the lock.

**Abstractions.** `BoostTicks` and `Step` scale the 100 ticks and the steps of 2. Ticks saturate where nothing compares them
(`Upto`). `Monopoly` says whether programs use the MoQ; `Misuse` what else they do with it (`"again"`: put a process in
twice or themselves; `"dead"`: name a pid of nobody); `MoqWaits` whether a process in the MoQ waits for a child that is not.
`kill` of a sleeping process is a `Wake`. `MaxPid`, `MaxBoost`, `MaxSeq`, `MaxMoq` bound counters in the guards.

| run | instance | shows |
|---|---|---|
| `MlfqBoost` | 2 slots, 3 pids, 2 boosts every 9 ticks, all four levels, priorities | `NoStarvation`: who can run after a boost waits at most while the others have their quanta of L0; `WithinQuantum`; types |
| `MlfqMonopoly` | 3 slots, 4 pids, 3 places in the MoQ, misuse `"again"` | `MoQ_sz` is exact, the MoQ is in order, every monopoly ends, and when a process can run one does run in the end |

`NoStarvation` is a bound on time, so `MCMlfq` adds a clock: the ticks since the last boost, and who has waited ever since
(`waiters`). The clock is for those outside the MoQ while no process of the MoQ has the CPU: the timer takes it from
none of these, not even after the monopoly. The bound holds from one boost to the next; it does not say that one comes before
the next boost (see Observed).

Fairness (`MlfqMonopoly`): the scheduler and what a process sleeps for go on (weak); a call that is ready again and again
returns, and a program that runs again and again exits (strong). Without the last a process in the MoQ may hold the CPU for
ever: in a monopoly the timer charges ticks and takes the CPU from nobody (`trap.c:125`).

**Proved** (`MlfqProofs`; for every number of processes, every quantum, boost and set of priorities; assumption `MlfqConstants`,
in which `MaxPid # 0` because `init` has pid 1).

- `LayoutHolds` is the base of the rest: `Layout` says that every row of the table has fields in their ranges and, if its process
  lives, a level, a position, ticks and a priority that are not negative; that the CPU runs the one process that is RUNNING;
  and that every fork under way has an embryo which is no other fork's. It needs no hypothesis on programs.
- `QueueInOrder`: `MoqInOrder` speaks of processes that live. `OrderInv` says the same of every slot whose level is the MoQ, because a
  process that does not live may be put there, and then needs no hypothesis. A call of `setmonopoly` that adds several slots
  gives each a position by how many it added before (`Positions`, by cardinalities).
- `SizeIsExact` and `TypesHold` suppose `Tame`: programs that use the MoQ put only processes that live in it. Without it `MoqSizeExact` is false
  (the hazard at `proc.c:703`). `MoqInv` adds that an embryo is never in the MoQ, without which a fork that fails would
  take a process out of it uncounted. `size` lies in `0 .. NProc` because it counts slots.
- `QuantaAreKept` supposes `~Monopoly`: during a monopoly the timer moves nobody, and a process that runs on from before it and then yields
  waits with its quantum used up. `QuantaInv` says of all that live, the running one too, that outside the timer's handler
  their ticks are below the quantum.
- `NobodyStarves` (`NoStarvation`) has no hypothesis, and no bound on the number of boosts or forks is used. After a boost L0 has
  `NProc` times its quantum, and `Rest` is the set of what it has left, one element for each tick of each slot. `WaitInv`
  says that the ticks since the boost and the cardinality of `Rest` are at most what L0 had and what forks have added: a tick takes
  one element (`RestUsed`), since a process that runs while somebody in L0 waits is of L0 itself (`FromL0`), a fork adds a quantum
  (`RestGrows`), and no other step brings a process to L0 or gives it ticks back (`PlacesStep`). The bound follows as those
  that wait have all of their own share left.

Model-checked only: `MonopolyEnds` and `SomebodyRuns` (liveness).

## Lwp

**State and steps.** `proc[p]` and `pth[p][i]` are the two levels of the table; `kstacks` and `ustacks` are the arrays that
outlive the threads; `at` is how far the scheduler's pass has come, since it runs all RUNNABLE threads of a
process in one go and makes the process RUNNING for the first of them only. One CPU, a step between two interrupt
points. `Fork`, `Exit`, `Grow`, `FileOp`, `Wait` and `ThreadJoin` are several steps where the thread can lose the CPU.

**Abstractions.** The end of a `fork` (`ForkReturns`) is one step from `copyuvm` to the child's state, though the timer may come in between and
a sibling create a thread: then the child gets the old pages with the new entries of `ustacks` and the new size. No invariant here rests on how these
agree. `Exec` is one step from the new page table to what `init_allpth` does under the lock, for the same reason. Sizes are in pages and
`MaxSz` is the end of user memory. A file operation is one sleep-lock held while the
thread waits for the disk. `exec` is its commit. A shrinking `sbrk` is left out. Programs join threads of their own process.
`Calls` selects the system calls programs make; without `"any_join"` one thread joins each; without `"last_exit"` the
last thread of a process calls `exit`. `panic` is why nothing more is said: `"remap"`, `"trap"` (the kernel writes to
a stack that is not mapped), or `"wild"` (`thread_create`'s label `bad` with variables that have no value).
`init` forks, waits, sleeps and kills. `MaxTid` bounds threads and processes created. `fork` copies `sz` pages, which may be
fewer than the stack of the thread that forks: in the child that thread takes a page fault at once, and can only
exit (`InUser`).

| run | instance | shows |
|---|---|---|
| `LwpThreads` | 3 processes of 2 threads that fork, create, exit, join (several joiners, too), sbrk and wait for a sleep-lock | `NoThreadLost`: states of processes and threads agree; `UStacksOwn`: no two live threads on one user stack, also after fork |
| `LwpLive` | 2 processes of 3 threads, with exec and kill | kernel stacks are own and found by exec; joins, waits and kills come to their end; the one who waits for a child is `init` here, of one thread |
| `LwpRemap` | violation | a reused user stack sets the size back and the next new one is put on a mapped page |

Fairness (`LwpLive`): the scheduler never stops, the timer comes (`Yield`, where the code lets it act), events come; a call
goes on when its thread runs, and programs end. The last is needed because the timer does not preempt a sibling (below).

**Proved** (`LwpProofs`; for every number of processes, threads, stacks and pages; assumption `LwpConstants`: the sizes are positive
and `None` is something else). With any set of calls, but for the last theorem.

- `TableIsKept`: the inductive invariant `KStackInv`. `LevelInv` relates the two levels: a RUNNABLE or RUNNING process has a thread
  that is, one thread is RUNNING, that of `cur`; and a fork under way has an embryo which is no other
  fork's, without which the end of a fork could make a live process unused. `Kept` and `KeptApart` are about `kstacks`, not the
  threads: its entries outlive the threads, so that the page of a thread that was joined has to stay apart too, or the next
  `thread_create`, `exec` or `wait` would hand it out twice.
- `NobodyIsLost` (`LwpInv`) and `KernelStacksAreOwn` (`KStacksSound`) follow from it.
- `UserStacksAreOwn` (`UStacksOwn`) supposes that programs do not call `exec`. `UStacks` says of the whole array `ustacks`, while the
  kernel has not panicked, that its entries are all different and come first, and that those of threads are mapped; a fork's
  child, with one thread only, is excepted. It needs `onTidx` to be the running thread, since `fork` exchanges the
  stack of that one with thread 0's.
- With `"exec"` as well as `"fork"` and `"create"`, `UStacksOwn` is false: the child of a fork by thread 1 keeps the entries it
  copied when it calls `exec`, which gives thread 0 the stack at the bottom; a `thread_create` then takes an old entry for
  a free stack (seen with 3 processes of 2 threads and `MaxTid = 5`).

Model-checked only: `JoinReturns`, `ChildIsNoticed` and `KilledExits` (liveness).

## FilterLock

**State and steps.** A step is one access to one shared variable by one thread: `flag`, `turn`, `shared_resource`. `pc`, `level` (the
code's `i`), `other` and `tmp` are a thread's place and locals. Busy waiting reads again and again. The variables are `volatile` (the
counter is not: it is modelled as compiled without optimisation).

**Memory.** `ncpu` is the number of processors of the machine, chosen in `Init`. On one, a store is seen at once. On several, up to `Delay`
stores of a thread may wait in its store buffer, which is what x86 does and nothing in the code prevents; the
properties are stated for `ncpu = 1`, and the state graph contains both machines, so that what they exclude is there.

**Run** `Filter` (3 threads, one increment each): `MutualExclusion`; `LevelsFilter`, at most `N - 1 - l` threads are beyond level
`l`; `EveryIncrementCounts`, the program's own test, that the counter is what the threads have added;
`EveryThreadEnds` under weak fairness for each thread, which is what a preemptive system gives. Four threads on one processor
were checked once (86,590 states).

**Proved** (`FilterLockProofs`, for every number of threads and of increments, on one processor). `MutualExclusion` is not
inductive, and neither is `LevelsFilter`. `Inv` adds what `flag` and `other` say at each place (`Place`); what a thread that scans its
level has learnt of those it has passed: they are below the level, or it was not the last to come to the level (`Scanned`); that whoever
came to a level last waits there or found everybody else below it (`LastIn`); and that a level with two threads beyond it has one that waits at
it (`Guarded`). `FilterInvariant` proves it. While two threads are beyond level `l` each level up to `l` has a waiter, and these are
`l + 1` different threads (`FewBeyond`): `FilterLevels` and `FilterExcludes` follow. `Counted` says that `shared` is the number of
increments done, as pairs of a thread and a number, and that a thread between load and store has read it as it is; mutual exclusion keeps it, and
`FilterCounts` (`EveryIncrementCounts`) follows. Liveness is model-checked only.

## Log

**State and steps.** On disk: `data`, `logged`, `head`. In memory: `cache` and `dirty` for the buffers, `lh`, `outstanding`, `committing`. `at` and
`tail` say which write of `commit` or of recovery is next. A step is a critical section of `log.lock` or one write of a sector.
`Evict` is the buffer cache recycling a buffer that is not pinned. `Crash` may happen at every state, in recovery too, and leaves the disk only.

**Abstract specification.** `AtomicDisk`: a memory that operations change, and a stable copy which becomes equal to it in one step when no
operation is under way; a crash sets the memory back. The stable copy is what recovery would make of the disk.

An operation writes `OpBlocks` *different* blocks at most, and each of them any number of times (`Modify`): `begin_op` reserves blocks, and
`log_write` does not add a block that is there already. It looks for room before that, though, so a block that is written again
needs room, too (`TooBig`).

**Bounds.** Two processes, three blocks, two values, one block for each operation, which may be written again and again; `MaxOp` 2,
`LogSize` and `NLog` 4, so that one operation fits beside another and a third block does not. `OpBlocks < MaxOp` because the log on
disk has room for one block less than `begin_op` counts on (see Observed). Operations of two blocks were checked once for `LogInv`
(four blocks, one value, `MaxOp` 3, `LogSize` and `NLog` 6); with `NLog` 5 `log_write` panics there.

**Run** `Log`: `ImplementsAtomicDisk`; `LogInv` (types, and no `log_write` panics); `SleepersWake` and `CommitEnds` under weak
fairness of the disk (commit and recovery) and of each process inside the kernel, until the next crash, and strong fairness of
`EndOp`: an operation may write a block again, but it is a bounded piece of a system call and comes to its `end_op`. That a commit ends
is little to ask of it, as its writes follow each other; the property is there for the flag, which one forgotten assignment leaves set.

**Proved** (`LogProofs`, for all processes, blocks, values and sizes; assumptions `LogAssumption` and `Fits`). The operations that `begin_op` admits together write `Most` different blocks at most, when
all use up what they may, and `Fits` says that the log has an entry more than that, on disk and in the header: the entry that
`log_write` wants to see free even for a block it has. With the code's numbers (`LOGSIZE` 30, a log of 30 blocks on disk with the header,
`MAXOPBLOCKS` 10) it holds if no operation writes more than 9 different blocks: when `begin_op` admits one operation beside another, what is in
the log and 10 for each are 30 at most, and each leaves one unused, so 28 is the most, and the log takes 29. It is the number of different blocks that counts: a `mkdir` calls `log_write`
11 times, for 6 blocks (two of inodes, the bitmap, the new directory's block, the parent's and its indirect one), and `filewrite` cuts what it
writes into pieces of 7 at most (4 of data, inode, indirect block, bitmap). With 10 `Fits` is false, and a block logged again in a full log panics (see Observed). `LogInv` needs that what is reserved
still fits: `Reserved` is what the operations under way may still add, each as many blocks as it has not written yet, and `RoomInv` that
there is room for all of it and one more (`RoomLeft`: so `log_write` finds room); `begin_op`'s product is the size of a set of pairs. `Inv` adds where processes are (`Control`: one commits, nobody is in an operation then), that the pinned buffers are
those of the log that are not yet installed and that the others are as on disk (`Buffers`), and how far each of the writes of a commit
or a recovery has come, with what is the same in buffer, log and place by then (`Progress`). From it, every step is one of
`AtomicDisk` or none: the commit is `WriteHead`; copying to the log, installing, clearing the header, recycling and recovering cannot
be seen (`WriteLogStep` and so on), and a crash takes `View` to `Recovered`. Theorems: `LogInvariant`, `LogNeverPanics` and
`LogIsAtomic`, which is `ImplementsAtomicDisk`. Model-checked only: `SleepersWake`, `CommitEnds` (liveness).

## Bcache

**State and steps.** For each buffer `blockno`, `refcnt`, `valid`, `dirty`, `data`, `locked`; for each process the buffers it has (`hold`) and where
it is (`pc`); `idequeue` and `busy` for the disk. A step is a critical section of `bcache.lock`, of the lock in a sleep-lock, or of `idelock`: between
`bget`'s count, the sleep-lock, `iderw` and the interrupt anything may happen on another CPU. `LogWrite` marks a buffer dirty (pinned) as `log_write` does;
`Bwrite` writes it.

**Abstract specification.** `BlockStore`: a block belongs to at most one process at a time, who finds it as the last one left it.

**Abstractions.** Which unused buffer is recycled is left open (the code takes the least recently used). A block contains one of two values
of its own, so that one block taken for another would show. `Nested` says for which block a process may ask while it has which
other (`MayAsk`). The callers ask in no order of numbers: `bmap` and `itrunc` hold an indirect block while `balloc` and `bfree` read the
bitmap block, which is before it on the disk, or clears the new block; `write_log` and `install_trans` hold a block of the log and read
the block it is for. What keeps them from waiting for each other is that nobody asks for a further block while he has a bitmap block, nor for one of
the log while he has another; so `Nested` has no circles in an instance (`MCBcache`), while the proofs need only that nobody asks for what he has. A process may write any buffer it holds (`Bwrite`), as `write_log` does
with the first of its two. Errors of the disk are left out: the interrupt sets `B_VALID` either way.

**Bounds** (`MCBcache`). Two processes, four blocks, three buffers, of which one may be pinned. A process that has block 3 (an indirect block) may ask for
block 1 (a bitmap block), which changes and may be pinned. Three buffers are enough here, as only the process that has block 3 can have a second
one, and this is the block that may be pinned. There are more blocks than buffers, so buffers are recycled. With fewer buffers `bget` panics, as it should.

**Run** `Bcache`: `ImplementsBlockStore`; `BcacheInv` (types; `KeptWhileInUse`, a buffer keeps its block and counts its users while it
has any; `QueueIsSound`); `NeverPanics`; no deadlock; `DiskAnswers` and `SleepersWake` under weak fairness of the disk and of processes in
the kernel, and strong fairness of giving a buffer back (`Release`, and `GiveBack` of each buffer that is not asked for under another one,
`Outer`): a process may turn to other buffers, but does not use one for ever.

**Proved** (`BcacheProofs`, for all processes, blocks and buffers; assumption `BcacheAssumption`: processes and buffers are finite sets).
`BcacheInv` is not inductive: that a buffer in use keeps its block needs that its count is not 0, hence that each process is counted
for what it has and for nothing else. `Inv` adds that a process has one buffer for each block it asked for (`HoldInv`), that a block is
in one buffer and a lock taken by the process that `hold` and `pc` say (`LockInv`), that counts are the numbers of those who have a
buffer (`CountInv`), that whoever waits is queued (`QueueInv`), that a valid buffer which need not be written is as on disk, that what is used is
valid and what is asked of the disk is something it has to do (`DataInv`), and how many buffers are pinned (`PinInv`). From `Inv`:
`BcacheIsSound` (`BcacheInv`), and that every step is one of `BlockStore` or none (`BcacheIsStore`, which is
`ImplementsBlockStore`): `AcquireSleep` with the lock free is `Take`, `Brelse` is `Give`, `LogWrite` and `Bwrite` are `Put`; recycling, reading and
writing a buffer cannot be seen.

`BcacheNeverPanics` has one more assumption, `Enough`: a buffer for each of the `MaxHold` that a process may have and for each that may be
pinned. (The run does with fewer: see Bounds.) A process that asks for one more has fewer than `MaxHold`, so one buffer is left over (`SomeUnused`, which counts the pairs of a
process and one of its buffers). The code's 30 buffers are not enough for 64 processes, and nothing in the code says that they are: therefore
the other theorems do without `Enough`. They show that the checks in `iderw` and `brelse` hold with any number of buffers, and that a
full cache (`OnlyFull`) is all that can stop the kernel here. Model-checked only: `DiskAnswers`, `SleepersWake` (liveness).

## Procs and Pipe

**State and steps.** `Procs` is the process table: `state`, `chan`, `parent`, `killed`, `run[c]` (the process of CPU `c`) and `ptlock`, the CPU that holds
`ptable.lock`. The lock is held across `swtch`: a process that yields, sleeps or exits changes its state in one step, and its CPU
goes on with the pass of the scheduler in another (`Sched`), with the lock held in between. The slot at which the pass goes on
is the one after the process that ran. The timer may take the CPU from a process anywhere in the kernel where it has no
lock (`Yield`, `Timer`), before and between the critical sections of `pipe.c` too. A fork that fails leaves its pid in the UNUSED slot (`"LEFT"`),
so that `kill` still finds it, and marks the next process that gets the slot. `sleep` is `SleepLocks`, which takes `ptable.lock` before the caller's lock is released, and `SleepState`.
`Pipe` extends it with the pipe and its lock, which is held through several steps while `wakeup` or `sleep` take `ptable.lock`; the programs' system calls
are in `Call`, what the kernel goes on to do for a process in `Kernel`.

**Abstract specification.** `Stream`: a bounded sequence of bytes. A write appends, all or as much as there is space for; a read takes a prefix.

**Abstractions and bounds.** Three slots, two CPUs, a buffer of 2 bytes, counters modulo `Wrap` = 4 (a multiple of the buffer's size, as 2^32
is of 512), calls for 1 and 3 bytes. The programs number their bytes, so that a byte lost, doubled or overtaken shows. `init`
forks when it has no child. Files are counted per process and end. `Victims` are the slots whose processes may be killed and
`KillWriters` says whether also while they can write (see Observed). A kill of `init`, which stops the kernel, is left out. An older version with
arbitrary bytes and three victims was checked once (4,128,680 states). Deadlock is not checked: a program may read from a pipe that it alone could
write to, and sleeps for ever.

**Run** `Pipe`: `StacksApart`, a process is run by one CPU at most, and only the holder of `ptable.lock` is on the stack of one that is not
RUNNING; `NoLostWakeup`, a sleeping reader finds the buffer empty and a writer left, a sleeping writer finds it full and a reader left,
a parent asleep in `wait` has children and none of them a zombie; `PipeInv` (types; `EndsCounted`, an end is open as long
as a process has it); `ImplementsStream`. No fairness is stated: `NoLostWakeup` is the safety form of "sleepers are woken", and
the liveness of readers and writers depends on what programs do.

**Proved** (`PipeProofs`, for every number of CPUs and processes, every size of the buffer and every width of the counters;
assumptions `ProcsAssumption` and `PipeAssumption`). First the process table, then the pipe.

- `StacksApart` is not inductive: whether a process that starts to run is on another stack depends on what a
  fork, a sleep and an empty slot look like. `TableInv` adds that the embryo of a fork is nobody else's, that a slot
  without a process has no files, parent or call, that what a process sleeps on is what its call waits for, and that one which
  is about to sleep runs with `ptable.lock` (`TableIsSound`, `StacksAreApart`).
- Every step is one of the pipe or leaves it aside (`Steps`). The length of the buffer is a difference modulo `Wrap`,
  which is a multiple of `PIPESIZE` and more than it, and stays within the buffer (`BufferIsSound`); an end is open as long as a
  process has it or is about to close it, and only one closes it (`EndsAreSound`, `PipeIsSound`).
- `CallInv` says where a call is: `p->lock` is held from its look at the buffer to its end or its sleep, it keeps its end open, only a read
  that has just ended has something to return, and when both ends are closed the buffer is empty or the last `pipeclose`
  holds the lock (`CallsAreSound`).
- `PipeIsStream`: every step of `Pipe` is one of `Stream` or leaves it alone. `Stream`'s queue is the `Length` bytes from `nread` on,
  a counter's slot does not change when the counter wraps, because `PIPESIZE` divides `Wrap`, and two counters less than a buffer apart have different
  slots (`Slots`): a write does not touch what has not been read (`ContentWritten`), and a read takes what is in front
  (`ContentRead`). That the page starts empty for the next `pipealloc` and that a read gets nothing only at the end of
  the stream need `CallInv` and `EndsInv`.
- `NoLostWakeup` speaks of moments at which no lock is held. `WaitInv` says at every moment that who
  sleeps, or is about to, has reason to, or a process is on its way to wake him; that process has the pipe's lock, so
  there is one of them, and when the lock is free there is none. Parents in `wait` have an invariant of the same form with `ptable.lock`
  (`NobodySleepsInVain`, under `~KillWriters`, without which it is false).

## Inodes

**State and steps.** `dinode` and `entry` are the inodes on disk and what the directories among them contain; `ref`, `cached` and `lock` the
inode cache, one possible entry for each number; `file`, `ofile` and `cwd` what processes have open. A record `proc[p]` has
the place of a process in its call and the inodes that its variables hold (`at` of `namex`, `ip` and `dp` of the system call, `put` for the
argument of `iput`). A step is what is done with one inode locked, or under `icache.lock` or `ftable.lock`; an inode that
stays locked over several steps (`dp` in `create`, `unlink` and `dirlink`, `ip` at the end of `create` and `unlink`) is in `lock`.
`iput` is two steps, the test with the inode locked and the reference that goes afterwards. `ilock` of a free inode panics: the step
is not there. `ialloc` reads one inode after the other and takes one that is free when it comes to it, so `Ialloc` takes any that is free. Panics for want of free inodes or of entries in the cache are left out in the same way.

**Abstractions.** A directory is a function from names to inodes. Writes are part of the step that logs them; `Log` shows that a
crash leaves whole system calls. Contents of files, `read`, `write` and blocks are left out. A process has one descriptor, shared with
its child by `fork`.

**Bounds** (`MCInodes`). Two processes, three inodes, one open file, names `a` and `b` and `..`, relative to a current directory that
changes. The first process creates files and directories, links, removes and changes directory; the other
one comes from a fork, removes, opens the parent and links onto it. `Seen` leaves out what is in entries nobody refers to.

**Run** `Inodes`: `InodesInv` (types; `RefsExact`, every reference is that of one variable, file or directory; `FilesExact`; `CacheFresh`, a
valid copy is what is on disk, although inode numbers and entries are used again while others are on their way out); `TreeSound`, no inode has
more names than links, no named inode is free, and a directory's `..` is where its name is; `FreedOnlyWhenForgotten`;
`LockedInOrder`, processes wait for each other in a circle only if one is in `create`, `unlink` or `dirlink` at a place
where the code goes against the order of its locks (see Observed). Deadlock is not checked for that reason, and no liveness is stated.

**Proved** (`InodesProofs`, for all sets of processes, inodes, files and paths; assumption `InodesAssumption`: processes and files are
finite sets and `None` is none of the values it stands beside). `InodesInv` is not inductive: whether an `iput` gives back a reference
that was counted depends on what every variable of the call holds at its place. `Inv` adds `CallOK`, which says so for each
place of each call (`put` of a process in `iput` only, `at` in `namex`, `dp` and `ip` from the place where they are set to the one where they are
given back); `LocksHeld`, that an inode which stays locked over several steps is locked by that process and valid, so that nobody
else frees it or changes it on disk; `DeadHaveNone`, that exactly the dead have no current directory; and `CachedUsed`, that a valid copy
is of an inode in use, so that `ialloc` never takes one that somebody still has in the cache. A step changes the record of one
process, so `RefsExact` is proved by comparing how often that record names an inode before and after (`Mine`): most steps only move
inodes between its variables (`CallStep`); `iget`, `idup` and `fork` add one, `IputDrop` removes one, and `open`, `close`, `chdir` and
`exit` exchange one with a file or a current directory. Theorems: `InodesInvariant`, `ReferencesAreExact`.

The tree has an invariant of its own over `Inv`. `TreeSound` compares `nlink` with names, but a link and an unlink under way have
counted a link that has no name yet, or have erased a name whose link still counts, and a directory counts a link for each directory in it. `Claims(i)` is
the set of all of these (and one of the root for itself), and `TreeInv` says that no inode has more claims than links (`Counted`). A
claim is of one inode, so each step adds, removes or moves one claim, where the code adds, subtracts or leaves `nlink`. An
inode is `Odd` while it is free, or new and not yet filled: `create` sets its `nlink` to 1 whatever was counted there before, so
nobody may have counted anything. Hence `Doing`: only calls that open or refuse an inode hold an odd one, what a call has seen in a
directory that it keeps locked is still so, and an inode that is filled has one process that fills it (`OneFills`);
current directories are not odd (`CwdThere`); a directory in use has its dots, and others have no entries (`Dirs`); and
the `..` of a directory is where its name is (`Parents`). This is false for programs that change something in, or
move to, the `..` of a removed directory (see Observed), so these theorems have the hypothesis `UpToOpen`: `..` is in a path that
is opened, or the last name of one whose parent is looked for, and nowhere else. `MCInodes` assumes it of its programs, and TLC evaluates it. Theorems:
`TreeStaysSound`, and `ForgottenBeforeFreed` (`FreedOnlyWhenForgotten`), for which an inode that is freed has no links, hence no claims.

`LockedInOrder` is `LocksGoDown`, with the same hypothesis. `OrderInv` has three parts. `Kept`: a locked inode is locked by a process
at a place that keeps it. `Looked`: what a call puts away with `dp` locked is what it found in `dp`, and `unlink` refuses only
what has a name. `Ranked`: the inodes have ranks that go up from each directory to the directories it names. The ranks change only in
`CreateFills`, the one step that puts a directory into another; the new one names nothing but its dots, so it gets a
rank above that of its parent. In a circle of processes that wait as `InOrder` says, everybody keeps a `dp`, which another
waits for, and waits for something that `dp` names, or for a directory that nobody has filled and that is nobody's `dp`
(`WantsWhere`). So the ranks of the `dp`s go up from each process to the next (`WantsBelow`), which ends somewhere as there are finitely many
(`SomeHighest`). The places that `InOrder` leaves out are those where the code itself goes up. All safety properties of the run
have theorems.

## Findings

- `LwpRemap` (`project03/proc.c:837`): create, create, join, create, create stops the kernel with "remap"; a comment says
  the size is kept. The run ends in a counterexample.

## Observed, not in a run

These came up while modelling. The definition or the parameter that shows one is named; without it, it was read and not modelled.

Project 4:
- `kalloc` on an empty list panics, or increments a word outside `pgRef`; its comment promises 0 (`KallocNeverPanics`).
- On several CPUs a handler that gives a page up last loses it: two faults that both copy, or a fault and an exit (`NoLeak` with `NCpu = 2`).
- A guard page that `exec` made and a fork shared is made accessible by the first store to it (`Guard` not empty); with one
  reference left, a store to it faults for ever, since `CoW_handler` sets `PTE_W` only.
- `sbrk(-sz)` returns -1 and leaves the size, with the pages gone and TLB entries for them; a fork then panics (`MinSz = 0`).

Project 2:
- Two returns of `setmonopoly` keep `ptable.lock`: the next acquire panics (`NoDoubleAcquire`).
- A process in the MoQ that does not end keeps the CPU for ever; one that waits for a child outside it stops everybody (`MoqWaits`).
- `setmonopoly(0)` puts every unused slot into the MoQ, and `MoQ_sz` never returns to 0 (`Misuse = {"dead"}`).
- `setpriority` writes to a slot that may have changed hands.
- A boost does not rule out starvation. It keeps the old positions (`proc.c:637`), and when the quanta of L0 of all that can run
  take longer than it is to the next boost (2 ticks each against 100, so with more than 50 busy processes) the same ones are first
  again and one behind them waits over several boosts. A bound of one boost and one round of L0 on every wait is false: 3 slots,
  `BoostTicks = 2` and `Step = 1` break it in 13 steps; with 2 slots it holds.
- `unmonopolize` sets `global_tick` to 0 with no monopoly on too, and so postpones the boost; the timer does not take the CPU
  from a process of the MoQ after the monopoly either (`trap.c:134`).

Project 3:
- `exit` makes zombies of threads inside the kernel, with the locks they hold (`NoDeadHolder`).
- The timer yields only if the process is RUNNING, and it is RUNNABLE for the second thread of a pass: that thread
  runs as long as it likes.
- A second joiner of one thread sleeps for ever (`"any_join"`); the last thread's `thread_exit` makes a zombie whose parent is not
  woken (`"last_exit"`).
- `thread_join` forgets the kernel stack; `exec` finds it in `kstacks`, `wait` does not.
- After `fork` and `exec` the entries of `ustacks` copied by `fork` remain: a thread created then may get the stack of thread 0
  (`UStacksOwn` with `"create"`, `"fork"` and `"exec"`).
- Two threads of a process that grow it at the same time both map the page at the size they read.
- Two threads of a process in `exit` may close one file twice.
- At `thread_create`'s label `bad` variables have no value yet.

Filter lock: with two processors and one delayed store two of two threads are in the critical section after 8 steps
(`MutualExclusion` without `ncpu = 1`).

Base kernel:
- `begin_op` admits by `LOGSIZE` (`param.h:11`), but `mkfs` makes a log of `LOGSIZE` blocks with the header among them (`mkfs.c:25`):
  `log_write` panics at `LOGSIZE - 1`, and `log.c:218` looks for room before it looks whether the block is in the log already, so a
  block written again panics in a full log, too (`OpBlocks = MaxOp` shows both). No operation of the code writes `MAXOPBLOCKS` different blocks.
- Operations that overlap without end postpone the commit for ever, and `begin_op` may be overtaken any number of times.
- `NBUF` equals `LOGSIZE`: with a full log no buffer is left that is sure to be free.
- A `kill` between a process's look at `killed` and its sleep leaves it asleep (`KilledIsAwake`, 15 steps).
- A writer that is killed at a full buffer returns without the wakeup for what it has written: a reader that was asleep stays
  so (`KillWriters = TRUE`).
- `create` and `unlink` put the parent away while they have the child locked, and another call that goes down the tree may have
  the parent locked and wait for the child: neither returns (`NoDeadlock`, 9 steps). `link` onto a name `.` waits for itself,
  and onto `..` for a directory above the one it has locked, inside a transaction, so the log never commits again.
- Two processes that put away the last two references of a removed file each see the other's, and the inode is never freed, while the
  comment says that it is (`fs.c:327`; `ForgottenIsFree`, 20 steps).
- The `..` of a directory that is removed while somebody is in it leads to an inode that may have been freed: the next lookup panics with
  "ilock: no type" (`NoPanic`, one process: mkdir a, mkdir a/b, chdir a/b, remove both, open ..). A file that is created in a
  removed directory keeps its link for ever.
- That `..` may also lead to an inode that has been allocated again and that `create` has yet to fill. A `mkdir ../c` in it counts a link for the
  new `..`, and then `create` sets the count to 1: when `c` is removed the directory has a name and no links (`TreeSound` without `UpToOpen`,
  four inodes: the first process makes a and a/b, the second enters a/b, both are removed, mkdir a again while the second makes ../c, and
  then a/c goes). When what is filled is a directory, `create` may find dots there, and panics ("create dots").
- A fork that fails leaves `killed` set in the slot, if somebody killed the child in between.

## Not modelled

- Contents of files (`balloc`, `bfree`, `bmap`, `readi`, `writei`), `read`, `write`, `fstat` and `dup`: data, of which the order of the
  writes is in `Log`.
- `exec`'s loading, the base's `vm.c` (project 4's is modelled), traps and system-call dispatch: data, or parts of other actions.
- Console, keyboard, serial line, boot, interrupt controllers, multiprocessor tables, memory disk: hardware set up or copied
  from, without a protocol of their own.
- User programs and library, `getgpid`, the exercises: no state worth a model. What programs may call is an input of the models.
- The copies: most of the repository is the same kernel eight times over, with the same user programs; each part is modelled in
  the version that defines it.

`PROJECT.json` gives the reason for each.

## Running

`tlc -config <run>.cfg <module>` with the module that `PROJECT.json` names for the run; `tlapm` with `CowMemoryProofs.tla`,
`FilterLockProofs.tla`, `LogProofs.tla`, `BcacheProofs.tla`, `PipeProofs.tla`, `InodesProofs.tla`, `MlfqProofs.tla` and `LwpProofs.tla` for the proofs.
