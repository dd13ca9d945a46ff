# Verification of the xk kernel

xk is a small x86-64 teaching kernel derived from xv6. This directory holds
TLA+ models of it and of the programs around it, the TLC runs that check them
on small instances, and TLAPS proofs for every instance of four of them.

    tlc -config MCProc.cfg MCProc      # one run; the table below lists them all
    tlapm ProcProofs.tla               # the proofs of Proc
    tlapm SpinlockProofs.tla           # the proofs of Spinlock
    tlapm CowProofs.tla                # the proofs of Cow; their lemmas are in CowInv,
                                       # CowFork, CowPages and CowReap, checked likewise
    tlapm BcacheProofs.tla             # the proofs of Bcache

`PROJECT.json` records, for every definition, the source lines it models; for
every property of a passing run, a mutant of the code that breaks it; the
hazards the code is exposed to; and the disagreements found between the code
and its documents.

## The runs

| run | config | parts | states |
|---|---|---|---|
| process_safety | MCProc | Proc | 401,581 |
| process_liveness | MCProc, MCProcLive.cfg | Proc with user/init.c | 29,245 |
| locks_and_ticks | MCLocks | Spinlock; SysSleep | 789,577 |
| copy_on_write | MCCow | Cow, PrivateMemory | 110,843 |
| address_space | MCSpace | VRegion; Pgtable; ExecArgs | 11,804 |
| files | MCFiles | Ftable; Pipe, Fifo | 1,192,861 |
| open_race | MCFiles, MCFilesRace.cfg | Ftable | *violation* |
| buffers | MCBuffers | Bcache over ide.c, a failing disk, memide.c | 590,650 |
| file_system | MCFs | Icache; Create; Extent; Mkfs | 678,798 |
| create_twice | MCFs, MCFsCreate.cfg | Create | *violation* |
| terminal_and_programs | MCUser | Kbd; Console; Cga; Printf; ShParse; ShRun; Umalloc; Grep | 1,930,617 |
| liveness | MCLive | Pipe; Bcache; Console | 55,991 |

An MC module that holds several parts instantiates each with state of its own
and a variable `part`, chosen at the start: a behaviour exercises one part, the
others stand still, so the states of the run are the sum and not the product. A
property is that of its part. The parts of a run share no state; what one
module takes from another is said in its head.

Deadlock is checked for processes, locks and ticks. The other runs contain parts
that may stop: a bound of calls is used up, a format ends, a program exits, or
everybody sleeps for a call that nobody has to make.

## The system

| part | source | module |
|---|---|---|
| process table, fork, exit, wait, kill, scheduler | kernel/proc.c | Proc |
| spin locks and interrupts | kernel/spinlock.c, kernel/proc.c | Spinlock |
| sleep and the timer | kernel/sysproc.c, kernel/trap.c | SysSleep |
| page allocator, copy-on-write, page faults | kernel/kalloc.c, kernel/vspace.c, kernel/trap.c | Cow, PrivateMemory |
| regions, sbrk, stack growth, loading | kernel/vspace.c, kernel/exec.c | VRegion |
| page tables | kernel/x86_64vm.c | Pgtable |
| exec's arguments | kernel/exec.c, kernel/vspace.c | ExecArgs |
| open files | kernel/file.c, kernel/sysfile.c | Ftable |
| pipes | kernel/file.c | Pipe, Fifo |
| sleep locks, buffer cache, disk queue | kernel/sleeplock.c, kernel/bio.c, kernel/ide.c, kernel/memide.c | Bcache |
| inode cache, path walk | kernel/fs.c | Icache |
| creation of files, crashes | kernel/fs.c, kernel/sysfile.c | Create |
| contents of files, allocation of blocks | kernel/fs.c | Extent |
| file system builder | mkfs.c | Mkfs |
| keyboard | kernel/kbd.c, inc/kbd.h | Kbd |
| console input | kernel/console.c | Console, LineDiscipline |
| screen | kernel/console.c | Cga |
| formatted output | kernel/console.c, user/printf.c | Printf |
| shell | user/sh.c | ShParse, ShRun |
| grep | user/grep.c | Grep |
| user allocator | user/umalloc.c | Umalloc |
| boot, interrupt controllers, serial line, strings | kernel/*.c | not modelled |

Processes meet in the process table (fork, exit, wait and kill all work on it
under `ptable.lock`), in physical pages (fork shares them, faults and wait take
them apart), in the table of open files and its pipes, in inodes and in
buffers. Everything that blocks does so with `sleep` and `wakeup`. Each of
these meeting places is a module; where one module relies on what another
establishes it says so in its head (Pipe takes a slot's reference count to be
the number of descriptors, which Ftable shows; Icache takes a sleep lock to be
its holder, which Bcache shows).

### What may interleave

xk runs on one CPU. The system call gate leaves interrupts on, so the timer may
preempt a process anywhere in the kernel except while it holds a spinlock
(`acquire` turns interrupts off). All other traps, page faults among them, run
with interrupts off. Therefore

* a critical section of a spinlock, with the process-local work next to it, is
  one action;
* between two critical sections of a system call anything may happen;
* a page fault is one action.

The first point is itself a property of the code. Spinlock models it, and
SpinlockProofs proves it: interrupts are off while a lock is held.

## Spinlock: locks and the interrupt flag

State: the processor's flag, `ncli` and `intena`; the locks taken; the thread
that runs; and for every thread the context it is in (user, kernel, handler, or
new), the one its handler interrupted, the locks each context has taken, and
what sched keeps of `intena`; and whether the kernel has panicked, and where.
Besides ptable.lock there is one other lock, which stands for all those that
system calls and handlers take before it.

| actions | code |
|---|---|
| Acquire, Release | acquire with pushcli, release with popcli, and their panics |
| Syscall, SyscallDone, Interrupt, Iret | the gates: a system call keeps the flag, an interrupt clears it |
| Yield, Sleep, SleepInWait | yield and sleep, up to the switch in sched; wait sleeps with ptable.lock itself |
| KilledReader | the reader of a pipe that is killed in fileread's copy loop returns with the pipe's lock, exits, and meets sched's panic (file.c:191) |
| Halted | a kernel that has panicked |
| ScanBegin, ScanEnd, Dispatch, DispatchNew | scheduler; the return from sched; forkret |
| Wakeup | wakeup, by a thread that holds ptable.lock |

The run locks_and_ticks has three processes: HeldMeansOff, and FlagRestored (a
context without locks has the flag it began with).

### Proofs

SpinlockProofs proves both for any finite set of processes, and OnlyReaderPanics
(LockPanics): of the panics of acquire, release, popcli and sched, the only one
that can be reached is the killed reader's. Of the constants it assumes only that
the scheduler's thread is not a process. The model itself assumes that all other
kernel code releases the locks it takes before it returns, which is how that code
reads: KilledReader is the exception found in the sources. A page fault inside a
critical section, as when a pipe is read into a page that is shared, is part of
that section: its handler gives its locks back and never switches. The inductive
invariant is

    IInv == Flags /\ Counted /\ OthersEmpty /\ RunInv /\ SchedInv /\ WaitInv /\ OnlyReaderPanics

HeldMeansOff alone is not inductive: that the last popcli may turn interrupts
on needs `ncli` to be the number of locks (Counted); that this is the flag the
thread began with needs `intena` to belong to the thread that runs (RunInv);
and across a switch this needs that a thread which waits stands in sched with
ptable.lock alone and has kept its own flag (WaitInv), which the scheduler's
thread then hands over (SchedInv). OthersEmpty says that a context a handler
has interrupted holds nothing. One lemma per action shows that IInv is kept.

## Proc: the process table

State: the fields of `struct proc` (`state`, `pid`, `parent`, `killed`,
`chan`), `nextpid`, the process on the CPU, the scheduler's position in the
table, whether the kernel has panicked, and per process the place in the kernel
where it is (`pc`) with the locals of fork and wait.

| actions | code |
|---|---|
| Syscall | a program enters a system call |
| ForkAlloc, ForkSetup, ForkPublish | allocproc; the unlocked middle of fork, with its two failures; the child becomes RUNNABLE |
| Exit | exit(), called by the program or forced by `killed` on the way to user mode |
| WaitScan, WaitReap | the scan for children, one lock per slot; the loop that reaps or sleeps |
| SleepLoop, SleepWoken | sys_sleep's loop; a return from sleep |
| Kill | kill() |
| Timer, TimerIdle | the timer interrupt with and without a process on the CPU |
| Dispatch, Rescan | the scheduler picks the next RUNNABLE slot; begins a new scan |
| Frozen | after a panic nothing happens any more |

Two details of the code shape the model. `sleep` is switched out while it holds
`ptable.lock`, so a woken process goes on at `wait_woken` or `sleep_woken`
before the timer can strike. And `exit` reads `parent->pid` also for slots
whose parent pointer is null: address 116 is then text of the running program,
whose value is the constant `NullReads` (1897 in echo, 2972 in cat).

The programs are any programs: `InitCalls` and `UserCalls` say which calls the
first and the other programs make, in any order and with any `KillPids`.

### Runs

process_safety: three slots, four pids, every program makes every call and may
kill any pid. ParentAlive (a parent pointer never leads to a freed slot),
NoLostWakeup (nobody sleeps in wait with a zombie child), WaiterHasChild (the
decision to sleep, from a scan that drops the lock between slots, is not stale)
and FreedByOwner (a slot is taken down only by the one who may, and never under
a process that may still run).

process_liveness: three slots, three pids, init forks and waits as user/init.c
does and is not killed. RunnableRuns (the scan goes on after the slot that ran
last, so nobody starves) and OrphanReaped.

Bounds. Three slots give a parent, a child and init, or a grandchild; four pids
let a slot be used again by a new process while others still refer to the old
one. The proofs cover larger tables. `MaxPid` makes fork fail when pids run out,
as a full table does.

Fairness. FairSpec assumes that the scheduler loops and the timer keeps ticking
(weak fairness), that a process which is switched in again and again gets
through its kernel code, and out of user code once it is killed (strong
fairness: preemption disables its steps in between, but every quantum executes
instructions), and that init calls wait again and again, as the loop of
user/init.c does. Nothing is assumed of the other programs: they need not make
a call, or exit. The liveness properties end in `\/ panicked`: a failed
vspaceinit in fork is an assertion that stops the machine.

### Proofs

ProcProofs proves, for every NPROC, every MaxPid, every program and every value
of a null read (the assumptions are only the types of the constants):

* TypeCorrect, WakeupsNotLost, ParentsAlive, UniquePids, EmbryosOwned: the
  invariants TypeOK, NoLostWakeup, ParentAlive, PidsUnique, EmbryoOwned (a slot
  that is being forked into belongs to one fork);
* OwnerFrees: the action property FreedByOwner;
* WaitersHaveChildren: WaiterHasChild, when no program holds a reachable pid at
  the address of a null parent's pid (NullSafe). Without it exit would give
  slots without a parent to init.

The inductive invariant is

    IInv == TypeOK /\ CpuInv /\ LocInv /\ ForkInv /\ PidInv /\ ParentInv /\ NoLostWakeup

None of the properties is inductive alone. NoLostWakeup needs to know that a
process asleep in wait sleeps on its own address (LocInv), so that the exiting
child's `wakeup1(parent)` finds it, and that adoption wakes init. That exit
finds all its children by pid needs distinct pids, which needs that pids in
the table are below nextpid (PidInv), also in slots that were freed. That the
child's parent is alive when fork publishes it needs that the forking process
is on the CPU (CpuInv) and that the slot is still its own (ForkInv). ParentInv
is ParentAlive without its restriction to live slots: a freed slot's pointer
must not come back to life in the next fork. WaitersHaveChildren uses a second
invariant, WaitInv, on top: from the moment wait's scan finds a child, only the
process itself takes a child away from it.

Each invariant is preserved action by action (one lemma per action), and the
temporal step combines them by PTL. Liveness is model-checked only.

## Cow: pages and address spaces

State: the core map (`avail`, `ref`, `inuse`) and the contents of pages; the
pages the kernel holds for itself; for every process its lists of vpage_infos
(each list is a page), the vpage_infos, the page table; the translations the
processor has cached; and how far each fork is.

A region has at most one page, and what a page holds is one of a few values.
The program and its stack are region 1. kalloc returns the first free page; no
code depends on which, and the model allows any, which makes pages
interchangeable (the symmetry of the runs).

| actions | code |
|---|---|
| Read, Write | a program's access, through a cached translation or the page table |
| Fault | the page-fault handler: CopyPage, ReusePage, or the process dies |
| ForkBegin, ForkCopy, ForkCount, ForkFinish | fork around vspacecopy: the list and the marking of a region; the reference count; both page tables, publication, flush |
| ForkStarved | vspacecopy finds no page, and fork goes on |
| SbrkList, SbrkPage, SbrkStarved | vregionaddmap for one page; its list; no page for the list |
| Exec | exec with enough memory; `dropped` keeps what the caller had |
| Exit, Reap | exit; vspacefree in wait |
| Switch | the scheduler installs a page table |
| KernelTake, KernelGive | the rest of the kernel takes and returns pages |

ForkFinish is one step although fork has preemption points between its parts:
nobody but the forking process, which is in the kernel, can observe the two
page tables and the unpublished child between them, and a preemption only
flushes earlier.

`damaged` becomes true when the kernel goes on after kalloc returned 0. From
then on lists are shared between address spaces or pointers lead to address 0;
the model follows programs, the scheduler and kernel pages only, and the safety
properties speak of the time before. What exec does when memory runs out, and an allocation that
succeeds between the two that fail in SbrkStarved, are left out.

PrivateMemory is the promise: every process has its own memory, fork copies it
completely, new memory is zero, and only the process on the CPU changes its
own. `PrivateSpec` states that Cow implements it, with the contents of the
pages that the vpage_infos name as the abstract memory. exec replaces a
memory by that of a new program.

### Run

copy_on_write: six pages, three processes, two regions, two values. RefCovers:
the count of a page is at least its users, but for a fork that has shared and
not yet counted. NoLeak: a page that is taken is in somebody's hands, or was
dropped by exec, which overwrites the caller's lists without freeing them;
nothing else loses a page. WritableIsPrivate: no page that a process can write
to without a fault, cached translations included, is in another space.
PrivateSpec: the refinement.

Bounds. Six pages let three processes share a page and two of them copy it, or
two processes share both regions; they also let memory run out in every call.
Two regions make fork's loop non-trivial and give it a state between them. Two
values tell a write from no write; kfree's junk is a third. Deadlock is not
checked: a program that faults for a page when there is none waits for ever,
and a last process may exit.

### Proofs

For any finite sets of processes and of pages, any number of regions and any
values, CowProofs proves RefCoversHolds, NoLeakHolds and WritableIsPrivateHolds
(the invariants of the run) and CowRefinesPrivate: `Spec => PrivateSpec`, that
copy-on-write is invisible. The assumptions are the named ones of Cow: the sets
are finite, the heap is a region other than the first, zero is a value, and the
null pointer is neither a page, a process nor a value.

    IInv     == TypeOK /\ (~damaged => SoundInv)
    SoundInv == ForkInv /\ CopyInv /\ SpaceInv /\ TableInv /\ FrameInv
                /\ CountInv /\ OwnInv /\ LeakInv

* CountInv is what makes the rest inductive. RefCovers is an inequality; the
  fault handler, which takes a page for its own when the count is 1, and kfree,
  which gives it back then, need that a page whose count is 1 has one user, and
  that a count is never short. So the count is exactly the number of vpage_infos,
  without the one that a fork has shared and not yet counted (`Pending`), and
  may exceed it only for what exec has dropped.
* OwnInv (a vpage_info that allows writing is the only one of its page) and
  TableInv (outside of fork the page table says what the vpage_infos say, and the
  processor has cached nothing else) together give WritableIsPrivate.
* CopyInv and ForkInv follow a fork that is preempted between two regions: the
  child has the parent's pages in the regions done and nothing in the others, and
  nobody else works on that child.
* FrameInv keeps available pages, the kernel's, lists and mapped pages apart, so
  that filling or freeing one does not touch another; LeakInv says that nothing
  else is taken, and that pages_in_use counts exactly.
* SpaceInv ties pages to lists, and free slots to having none.

The refinement maps an address space to the contents of the pages that its
vpage_infos name (`View`). One lemma per action shows that the map goes by a step
of PrivateMemory or not at all: a page that is copied in a fault has the contents
of the old one, pages from kalloc are nobody's until they are zeroed, and a
write lands in a page with one user. The lemmas on cardinalities are
hypotheses (`Counting`) until CowProofs derives them from the library, because the
library's theorems in scope slow every other step. CowInv has the invariant and
the shared lemmas; CowFork, CowPages and CowReap have the actions (fork; faults,
sbrk and kernel pages; wait and exec); CowProofs has the rest and the theorems.

What the invariant says ends at `damaged`: PrivateSpec then no longer
constrains the memories, as in the model itself.


## VRegion, Pgtable, ExecArgs: address spaces in detail

Cow has regions of one page, so that contents and sharing stay small. VRegion
has what Cow leaves out: regions of many pages in one address space, sizes in
bytes, the chained pages of page infos, exec's loading of code and stack, sbrk
by any number of bytes and the stack that grows by a page per fault. All of it
goes through vregionaddmap, one page per step (AddMap), while the rest of the
kernel takes and gives pages (OtherTake, OtherGive). User programs have one
loadable segment at address 0. RegionsExact: after every call, refused ones
included, the pages in use are those the regions say, no more and no less.
StackServed: an access in the stack's window is refused only for lack of memory.
The undo loop of the one region that starts at 0 runs below it; the model then
goes to a state of its own (`stray`), of which nothing is claimed; the same goes
for the states after a page of infos could not be had.

Pages of two bytes and two infos per list page make byte sizes, rounding and the
chain of lists matter; fourteen pages are enough for the largest program, heap
and stack, and can be taken by others down to nothing.

Pgtable has the page table's levels, with addresses as page numbers: MapPage is
mappages with the tables walkpml4 allocates, Unmap and Rebuilt are
vspaceinvalidate, deallocuvm is one turn of its loop with the jumps over missing
tables, PGADDR joins its fields with `|` as the code does (module Bitwise).
FreedAll: whatever the heap and stack, and however often the table was rebuilt,
freevm's jumps skip no table and every page comes back. Tables of two and four
entries put the stack, at the top of the second directory, and the heap into
different tables at each level, with gaps between them.

ExecArgs lays strings and the argv array on a stack of 64 bytes, each byte with
the object it belongs to. ArgvIntact: for two arguments of lengths around each
multiple of eight, what exec accepts is whole on the new stack. WriteEnds: the
loop of vspacewritetova ends, unless a write begins on a page boundary, where
its first piece has length 0 for ever. Fairness: the kernel's loop runs on.

All three are parts of the run address_space.

## SysSleep: ticks

The tick counter is a word that wraps (eight values), a negative argument is a
large unsigned one. SleepExact (run locks_and_ticks): two sleepers, killed at any
moment, neither return early nor sleep on once they are due or killed. MaxLag
bounds how many ticks pass before a woken process runs: a process kept from the
CPU for a whole turn of the counter would sleep another turn.

## Ftable and Pipe: open files

Ftable is the table of open files, the descriptors of each process and the
references to inodes. A turn of a loop that holds no lock is a step: OpenScan
and PipeScan look at one slot each. The constants Openers, Pipers, Readers and
Statters say who makes which call: the run files has one process that opens and
makes pipes, and children that dup, close and exit, because two that open at
once break RefCount (open_race).

Two slots and three descriptors are the smallest tables in which a slot can be
reused while the other is open, and a pipe's two descriptors and a file's fit
together. MaxIref bounds the references that open leaks. A read adds to the
position what readi returns, also the -1 of a refused offset. The permissions of
a descriptor are left out: a call they refuse changes nothing.

Pipe is one pipe: its ring, its readers and writers, and the descriptors. Fifo
is the promise, a bounded queue, and FifoSpec the refinement, checked with three
processes and requests of 1 and 3 bytes on a buffer of 2. NoLostWakeup holds
there and, as EofTruth (end of file only when no write descriptor is left),
with two processes that also dup, close and kill. A request longer than the
buffer makes a writer sleep in the middle, three processes let two sleep on one
channel. `head` and `tail` are ints that only grow; the model is of the first
2^31 bytes through a pipe, and what the code does when they overflow is left out.

WriteCompletes (run liveness) assumes that a process in the kernel gets on, and
that programs that read keep reading: a pipe owes nothing to a writer without a
reader.

## Bcache: buffers, sleep locks and the disk

Processes take a buffer (Bget), lock it (Acquiresleep), read it (Iderw,
Ideintr, IderwWoken), write it (Bwrite) and give it back (Releasesleep, Brelse);
BwriteReboot is the crash that crashn arms. A block's contents are a version
number. Three processes and three blocks in two buffers, so that buffers are
recycled, processes queue for a lock and bget may run out: whoever uses a buffer
uses it alone, for the block it asked for, and sees the last write (Coherent),
and what bwrite returned from survives a reboot (Durable). RequestServed (run
liveness): every queued request is served, if the disk answers and kernel code
gets on.

`device` is the disk the kernel is linked with, chosen at the start from
`Devices`: "ide", "failing" (ide.c, whose reads may report an error) and "memory"
(memide.c, which has no queue). With reads that fail, a buffer still has one
user, for its block, but neither its contents nor the disk can be relied on, as
ideintr marks the buffer valid: the properties say so. A reboot loads the disk
of memide.c anew with the kernel it is part of, and what was written to it is
expected to be gone.

### Proofs

BcacheProofs proves Coherent and Durable (CoherentHolds, DurableHolds) for any
finite sets of processes and buffers, any blocks, any bounds and all three
disks. The inductive invariant is

    IInv == TypeOK /\ CountInv /\ UserInv /\ LockInv /\ BlockInv /\ FlagInv
            /\ QueueInv /\ DataInv /\ Durable

bget lets go of the cache before it waits for the buffer's lock. That the buffer
is still that of the block afterwards (UserInv) needs refcnt to be the number of
those who refer to it (CountInv), as bget recycles what has none. That its
contents are the disk's (DataInv) needs that no other buffer has the same block
(BlockInv) and that a lock has one holder (LockInv). For the disk's interrupt,
that its flags become valid and clean must be right for the one who waits:
FlagInv says that a dirty buffer's holder is inside iderw, and QueueInv that a
buffer is in the queue once, has something to do, and that its holder sleeps on
it or was woken by a kill, so that a woken process that finds the flags set has
really been served. One lemma per action shows that IInv is kept; ServedData is
shared by ideintr and memide.c. The order of the LRU list is in the model but in
no conjunct: which unreferenced buffer bget recycles does not matter to safety.

## Icache, Create, Extent, Mkfs: the file system

All four are parts of the run file_system.

Icache has the path walk of processes that look up the root or a file in it:
iget, which publishes an entry and fills it later without a lock, locki, which
reads what is not yet valid, read_dinode with its test of holdingsleep, and the
release; and createi as far as it uses the cache (CreateiParent to CreateiDone).
It begins when a second process can exist. By then init's open of "console", a
relative path, has left the root in the cache for ever, read and with a reference
that nobody gives back. LockedIsLoaded: three processes and two files, nobody
uses an inode that was not read. GrowthKept: two processes that append, use
relative paths and create a file. It is not obvious from the code: iget's late
copy could undo an append. It does not for a file that was there before, because
a walk fills an entry under the parent's lock, nor for the root, because its
entry is never filled again. It does for a file that another process is just
creating, whose entry createi fills under no lock: GrowthKept leaves out the
files in `Fresh`. Three entries hold the root and the files; MaxGrowth and
MaxLeaks bound the appends and the lost references.

Create has sys_open with O_CREATE and createi, one action per disk write, and a
crash between any two. EntriesWritten holds at every crash point: no lookup
meets an entry or an inode that was not written. That two creations get two
inodes is false (create_twice). concurrent_createi does not wait until the cache
entry of the inode file, which another creator's iget has published, is filled
(`slot`). Until then update_dinode writes to blocks that are not the inode
file's; the model does not follow those blocks, and a creation that returned may
be missing after a reboot.

Extent has the address computations of readi, writei, appendi and the block
allocator: the sequence of <<block, offset>> a call touches. Within the first
extent, and one block past it, every read from an offset up to the file's size,
of every length, returns what was written last (ReadsBack). The size is mkfs's
or createi's: no write changes it, and readi refuses an offset above it. Blocks
of two bytes and extents of two blocks put every boundary within a few bytes. The
bitmap has one block; the real one has more, and where those differ
(`StartBlock`) is not exercised.

Mkfs builds images of up to three files with sizes around one and two blocks:
ImageSound, with every block in use marked in the bitmap.

## Kbd, Console, Cga, Printf: input and output

Kbd has a keyboard that sends make and break codes and kbdgetc, which takes one
byte per call; one key of a modifier is down at a time, and any key that is held
repeats, Caps Lock too, which toggles each time (CharacterRight). Console
has consoleintr's editing of the ring and consoleread, with indices that wrap;
LineDiscipline is the promise (a line can be edited until it is ended, then it
is read once and in order) and LineSpec the refinement; ReadReturns (run
liveness) assumes that somebody ends a line again and again. Cga compares the
screen with a tape that never scrolls (ScreenIsTape), from cursors above the
last row, which the code never leaves the cursor in. Printf runs cprintf and
the programs' printf on every format up to four characters, with arguments at
the edges of the integer types, here of 3 and 5 bits (FormatObeyed). Where the
programs' printf cuts a long to an int, the reference does so too.

## ShParse, ShRun, Grep, Umalloc: programs

ShParse is the shell's recursive descent over every line of up to five
characters, against the set of trees the grammar gives, and nulterminate, which
ends each word of the tree where it should (ParsesGrammar). ShRun
runs the tree with interleaved processes over fork, pipe, dup, close, exec and
wait: programs start with the descriptors the line says and no others, also when
forks and pipes fail (ProgramsWired). That a shell waits, or that a program sleeps
over a full pipe, is in the model for the descriptors that stay open meanwhile; no
property says that the shell goes on. What the kernel does is taken from Ftable
and Pipe.

Grep has the loop that cuts what read returns into lines, and the backtracking
matcher. PrintsMatching compares the output with the lines the pattern denotes,
by the positions a pattern can have reached, for two files through a small
buffer and for every pattern of up to four characters. It holds when each read
ends a line; the code drops a last line without a newline.

Umalloc is the allocator's circular list over a heap of eight units that grows
twice: HeapTiled.

## Disagreements

Two runs check a statement of the repository that the code does not keep;
`PROJECT.json` quotes it.

* fileopen takes a slot it tested before the lock (file.c:79): open_race.
* Two files created since the boot share an inode (fs.c:295): create_twice.

The models also have the following behaviours of the code, at odds with what its
documents say. No run states them; the properties are stated around them, and
the hazards in `PROJECT.json` say how.

* kill(1) makes init exit, and orphans stay zombies (proc.c:423).
* exit reads the pid of a null parent from program text (proc.c:207).
* exec overwrites the caller's regions without freeing them (exec.c:89), and a
  failed exec leaves the pages it loaded (exec.c:24).
* fork does not look at vspacecopy's result and returns a child without memory
  (proc.c:162).
* va2vpage_info does not look at kalloc's result and zeroes the first page of
  the program (vspace.c:406).
* vregionaddmap's undo loop runs below address 0 (vspace.c:105).
* vspacewritetova does not advance from a page-aligned address (vspace.c:555).
* vspaceinvalidate gives its tables away and panics without them
  (x86_64vm.c:114).
* isPipe is never reset (file.c:132); open takes two references to the inode
  (sysfile.c:135); pipe panics without two descriptors (file.c:323); fstat of a pipe panics
  (file.c:109); a read's count is a global variable (file.c:158).
* A pipe's end of file is `ref == 1` and close wakes nobody (file.c:182); long
  writes are torn, and a killed writer sleeps on (file.c:231); a duplicate of the
  read end is refused (file.c:169); a killed reader keeps the lock (file.c:191).
* ideintr marks a buffer valid after an error (ide.c:117).
* read_dinode trusts another process's lock (fs.c:122); a relative path leaks a
  reference to the root (fs.c:600), and createi another (fs.c:301).
* createi's iget fills the entry of a new file, which others can find by then,
  without its lock (fs.c:323), and concurrent_createi uses the inode file's entry
  without knowing that it was read (fs.c:276).
* appendi moves to the next extent after every block (fs.c:483), writei counts
  blocks from the start of the file (fs.c:454), extents of the second bitmap
  block overlap those of the first (fs.c:666), readi does not stop at the end of
  the file (fs.c:371). No write changes the size, so that readi refuses every
  offset but 0 of a created file (fs.c:368); lab4test_a.c:168 reads one in pieces.
* The programs' printf prints a long as an int (user/printf.c:8).
* Two processes create one name twice (sysfile.c:135), a crash leaves an
  inode without entry (fs.c:321).
* sys_open refuses what the shell opens for `>` (sysfile.c:136), and a pipeline
  whose reader has ended never gives the prompt back (file.c:231).

## Proved, model-checked, and out of reach

Proved for every instance: seven results about Proc, three about Spinlock, five
about Cow and three about Bcache, listed above. Twelve of them are properties
that a run checks too: NoLostWakeup, ParentAlive, FreedByOwner, WaiterHasChild;
HeldMeansOff, FlagRestored; RefCovers, NoLeak, WritableIsPrivate, PrivateSpec;
Coherent, Durable.

Checked on the instances of the runs only:

* Liveness (RunnableRuns, OrphanReaped, RequestServed, WriteCompletes,
  ReadReturns, WriteEnds): the prover does not handle fairness and ENABLED.
* Properties of what recursive definitions or loops over data compute:
  ParsesGrammar, ProgramsWired, PrintsMatching, FormatObeyed, ScreenIsTape,
  ArgvIntact, ReadsBack, ImageSound, FreedAll, HeapTiled. They compare an
  algorithm with a reference over all inputs up to a bound; for all inputs they
  need induction over the data, which the provers cannot do.
* FifoSpec and LineSpec: their maps cut a sequence out of a ring with indices
  taken modulo its size, and the steps need facts about such cuts that again are
  inductions.
* RegionsExact, StackServed, SleepExact, RefCount, NoLostWakeup and EofTruth of
  Pipe, LockedIsLoaded, GrowthKept, EntriesWritten, CharacterRight: within reach
  of the method used for Cow and Bcache, and not proved.

## Not modelled

* Boot, machine discovery, the interrupt controllers, the serial port, and the
  disk's and the keyboard's ports: device programming without a second actor.
* The range checks of system call arguments (argint, argptr, argstr), string
  helpers, and parsing of ELF headers: stateless computations of a few lines.
* Registers, stacks and the assembly of traps and context switches; only what
  they do to the interrupt flag and the current thread is modelled.
* The processor's caches of the upper levels of page tables.
* consolewrite, which waits for the inode's lock behind a reader.
* cat, wc, ls and the other short programs, and the course's tests: straight
  sequences of system calls. A program is any sequence of calls to the models of
  the kernel.
* Wrap-around of pids, and of a pipe's indices, at 2^31.
