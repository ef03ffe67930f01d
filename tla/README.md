# A TLA+ model of os-workbench

This directory specifies the parts of `src/os-workbench` whose correctness depends on
the order of events: the kernel's threads, its memory allocator, the way from a key to
a shell, the file system under the shell's commands, the coroutines, and the key-value
store. It holds TLA+ modules, TLC configurations and proofs
for TLAPS. `PROJECT.json` maps every definition to the lines it models. Paths below are
relative to `src/os-workbench/`.

## 1. The system

| Component | State | Operations | Talks to | What is hard |
|---|---|---|---|---|
| Kernel threads (`kernel/src/kthreads.c`, `include/kthreads.h`) | `tasks[]`, `current_tasks[]`, each task's `state` and `ctx`, `ncli[]`, `intena[]`; a semaphore's `value`, `que`, `lk` | `create`, `spin_lock/unlock`, `sem_wait/signal`, `kmt_context_save_switch` | traps call the scheduler; every task calls semaphores | several CPUs, interrupts, sleep against wakeup |
| Traps (`kernel/src/os.c`) | handler list, `current_tasks_mutex` | `os_run`, `os_trap` | calls `input_notify`, then the scheduler | a lock taken in interrupt context |
| Allocator (`kernel/src/alloc.c`) | descriptors, free list | `kalloc`, `kfree` | procfs counts memory | long sequences of calls, width of `size_t` |
| procfs (`kernel/src/fs/procfs.c`) | CPU number per task, memory used | `procfs_schdule`, `procfs_mem_trace` | scheduler, allocator | kept in step with both |
| Input (`kernel/src/devices/input`) | modifier keys, event ring, `event_sem` | `input_notify`, `input_task`, `pop_event` | interrupt -> task -> tty | ring and semaphore must agree |
| Terminals (`kernel/src/devices/tty/tty.c`) | line ring, `cooked`, cursor, dirty cells | `tty_cook`, `tty_read`, `tty_write`, `tty_task` | input, shell, video | two tasks on one ring, wrap, backspace |
| Shell (`kernel/src/devices/tty/shell.c`) | working directory | prompt, read, one command per line | tty, file system | several shells on one file system |
| VFS (`kernel/src/fs/vfs.c`) | vinode table, rings of hard links, mounts, `files[]` | lookup, open, link, unlink, mkdir, mount | ext2, procfs, devices | slots that are used again, links to what has gone |
| ext2 (`kernel/src/fs/ext2fs.c`) | bitmaps, inodes, directory blocks | create, remove, read, write | ramdisk, VFS | one buffer for two inodes, long sequences of calls |
| kvdb (`libkvdb/kvdb.c`) | table in memory; `.db`, `.dbc`, `.log` | open, put, get, close, recovery | files; threads share one handle | a crash between two file operations |
| libco (`libco/co.c`) | `co_rtns[]`, jump buffers, `current`, `act_cnt` | start, yield, wait | - | what a jump returns to |
| Producer/consumer test (`kernel/framework/main.c`) | `cnt`, three semaphores | producer, consumer | threads | what the semaphores are meant to give |
| `crepl`, `frecov`, `sperf`, `pstree`, `amgame` | none that lives on | one pass over their input | - | not concurrent; not modelled |
| `abstract-machine` | - | trap entry and exit, CPU start, `_halt` | under the kernel | vendored; modelled as far as the kernel needs it |

## 2. The modules

- **Kmt** models os.c, kthreads.c and procfs_schdule on `NCPU` processors that interleave
  freely. A CPU has a phase `pc`: a task's own code (`user`), spinning for a lock, in
  its section (`body`), at sleep's `_yield`, or one of the steps of a trap (entry, save and
  demote, one step per index scanned, `iret`). Tasks are programs over labels (`Prog`,
  `Local`), so the module and its proofs hold for any set of tasks. `iff`, `ncli` and
  `intena` are the interrupt state as pushcli and popcli leave it: pushcli reads EFLAGS
  after `cli`, so `intena` is always 0. A task that is woken before it has yielded can be
  resumed by another CPU on the stack it still uses. `stk` records whose stack a CPU
  stands on, and `Smash` ends the behaviour (`machine = "undefined"`) where two CPUs would
  use one stack. `Stopped` stutters in such a state and after `_halt`.
- **MCKmt** gives Kmt the kernel's own tasks: input, tty and one shell, with their
  semaphores.
- **ProdCons** composes Kmt with main.c: two producers and two consumers, with load and
  store of `cnt` as separate steps.
- **KmtProofs** holds the proofs about Kmt, first those that are true of any number of CPUs, then
  those about the semaphores, most of them for one CPU, and last the one about ProdCons.
- **Pmm** models alloc.c with procfs_mem_trace. A call runs under `memoplk` from its first to
  its last access, so it is one action. `status` says which assert or endless loop took
  the kernel down.
- **Console** models input.c and tty.c with the loop of shell_task. Sections under a lock
  are steps; semaphores are counters here, because Kmt is about how they come to be
  counters. What shell commands print is left out; the prompt moves the cursor. A read stores
  no more than the shell's buffer holds (`READ_SZ`) and returns the length of the whole line;
  the shell then writes `'\0'` at that length, and where this is outside the buffer the
  behaviour ends (`status = "readbuf overrun"`). **MCConsole** drives the terminals by the events of
  keys directly, without the input device, so that larger rings can be checked.
- **Lines** is the abstract line discipline that Console implements: a read takes the oldest
  line, whole and once, and returns its first `Count` characters.
- **Kvdb** models kvdb.c at the level of files. Creating, truncating, filling and removing a
  file are steps of their own, and a crash may come between any two. `acked` is the
  table as the finished operations make it; `lost` records the crashes that hit a state
  the code does not survive (section 5). A record of several blocks reaches the log in several
  writes (`AppendPart`, then `Finish`): a crash between them leaves its beginning, which is read
  back as one of the texts `torn` allows, and `cut` records the keys that this has
  happened to. **MCKvdb** supplies the values.

- **Libco** models co.c under a main program that starts coroutines and waits for each, as
  `libco/tests/main.c` does. A step goes from one setjmp or longjmp to the next; `buf` is the
  call that saved a slot's buffer, `exec` whose code runs, and `rand()` is a choice. `cut` and
  `early` are history: a coroutine ended while main was inside a co_start, and the
  coroutines for which co_wait returned too soon. A buffer of a call that has returned
  may be jumped to; what happens then is what the frame layout of the build makes of it,
  and the module's header says what that is. **LibcoProofs** holds its proofs.
- **Ext2** is ext2fs.c as operators on one record, the disk with the buffered ext2_t. A
  directory is measured in entries and a file in cells; a text that is read as a directory has
  an entry in use whose name nobody types, so that a listing of it fails an assert. A call that would leave the arrays
  or fail an assert sets `wild`.
- **Vfs** composes Ext2 with vfs.c and the commands of shell.c. A command is one step, made
  of the calls it makes: every call takes a working record (table, disk, fault, result) to the
  next (`Then`, `InDir`). A lookup reads directories from the disk into the table as the code
  does, so that even a refused command may change the table. "cat >" opens a file and
  writes to it line by line between the commands of other terminals. A failed assert, an endless
  lookup, an index of -1 and a wild disk access end the behaviour with `fault`.
  `harm` is history: it records the commands after which the code no longer keeps an
  invariant, and the invariants say which of them they do not survive. **MCVfs** supplies
  the paths.

- **PmmProofs**, **ConsoleProofs** and **KvdbProofs** hold the proofs about these modules,
  **Ext2Proofs** what each call of ext2fs.c makes of the disk, and **VfsProofs** the theorems of Vfs.
  **Lemmas** has what several of them need (least elements, induction, remainders, sums over finite
  sets), and what `FoldLeft` computes for an operator, `apply`, that is a constant of the module: a
  proof about a fold instantiates it.

Definitions named `Bug...` are mutations of the definition after them. Each property of a
passing run is violated when one of them takes its original's place.

## 3. The runs

| Run | Instance | Shows |
|---|---|---|
| `kmt_smp` | 2 CPUs, 5 tasks, 1 keyboard interrupt | lock order, semaphore accounting, the scheduler's loop has a task to find, /proc names the right CPU |
| `kmt_up` | 1 CPU, 4 tasks, 3 interrupts, fairness | no wakeup is lost or finds nobody, ready tasks run, interrupts are served |
| `prodcons` | 1 CPU, 2 + 2 workers, `maxk` = 2, fairness | the counter stays in the buffer, nobody starves |
| `prodcons_smp` | 2 CPUs, `maxk` = 1 | *violation:* the counter becomes negative |
| `pmm` | 7 kB heap, 5 descriptors | list, tiling, merging, return to the initial state, memory accounting, live blocks stay |
| `console` | 1 terminal, 4 keys, rings of 3 events and 5 bytes | indices inside their rings, event semaphore against event ring, marks on the screen |
| `console_lines` | 1 terminal, 2 characters, Return, Backspace, a ring of 7 bytes, reads of 2 | line discipline (refinement of Lines), semaphore of lines |
| `console_shift` | as `console`, with Shift and Caps Lock | *violation:* Shift+Return puts ring and semaphore out of step |
| `kvdb` | 2 keys, 3 values, 2 crashes, also within a record | the files hold the finished operations at every step outside the named states; a record cut short costs its own key only |
| `libco` | 3 coroutines, fairness | select_co reaches every running coroutine and only those, buffers are their owners', every co_wait returns, and early only after a cut |
| `vfs` | 5 commands, 2 mount points, 2 open files, 8 blocks, 8 inodes, 22 vinodes | types, bitmaps against inodes, rings of links, table against tree, tree against disk, open files, contents of files, mounts |
| `kvdb_twice` | as `kvdb` | *violation:* a second crash loses what the first recovery redid |

**Bounds.** `KbdLimit`: interrupts considered. One is enough to have input_notify's
`sem_signal` meet every state of the two CPUs; three on one CPU let signals pile up.
`SemBound` (6): on two CPUs a task that is resumed twice can lower a semaphore again and
again; six is more than the tasks there are, so each ring of `MAX_TASK` also fills up and
wraps. `MAX_TASK` is set to the number of tasks, its smallest legal value.
`POOL_SIZE` 5 and `WIDTH` 4: cuts run out of descriptors, a block has free neighbours on both
sides, and requests above half of the address space occur. `maxk`: 1 and 2, less than the
workers. `DATAS_SIZE` 2: values of one and two blocks fill the table. `MaxLog` 2 and
`CrashLimit` 2: a recovery, a second crash and a second recovery with records between
them; the value of two blocks is the one whose record may be cut short. `NEVENTS` 3 and `BUF_SZ` 5 in
`console`: both rings fill up (the panics are reached) and wrap, with two events on their way.
`BUF_SZ` 7 in `console_lines`: two completed lines of one character each, or three empty
ones, wait in the ring while another is typed, and the ring wraps inside lines; two
characters tell the lines apart. `READ_SZ` 2: a line is shorter than, as long as and longer than the
shell's buffer. The screen of 2 x 2 cells scrolls. With one terminal Alt+digit
selects nothing new; two terminals have a space too large for these bounds and are planned.
`N` 3 in Libco: one coroutine ends inside another's co_start and a third is still to be waited
for. In Vfs the root directory's block holds five entries, so that the second mkdir needs
another block; a block holds two cells and the lines are of one and three, so that a write
ends in, at and beyond a block; directories have names with and without a dot, which
is how vfs_remove tells files from directories, and one lies in another; the links stand
beside the mount point and inside it. `MaxFile` 2: two files are written by turns. The
device can be mounted in two places, so that a second mount is refused by MNT_ABLE alone. `MaxOps` 5 counts the commands that change something:
each kind of `harm` and of `fault` is reached by then, and the table of 22 vinodes fills up.
TLC has also simulated behaviours of 14 commands with deeper paths, which is how some of the
excuses in section 5 were found.

**Fairness** (`Fairness`, `PCFairness`). Weak fairness of each CPU's steps: a processor goes
on executing. Weak fairness of each timer: the local APIC timer is periodic and started on
every CPU. Strong fairness, per task, of getting its next call under way once it is
dispatched: a quantum is longer than a few instructions, so no task is interrupted for
ever at the same instruction. Libco: the one thread goes on (weak fairness of a step), a
coroutine that is resumed again and again gets to its end, and `rand()` draws every slot
again and again (strong fairness of each return and of each draw). Nothing is assumed of the keyboard. Spinning for a lock
is not assumed to succeed.

## 4. The proofs

`KmtProofs` proves, for every number of CPUs, tasks and semaphores and for all task programs
(`KmtConstants`, evaluated by TLC in the runs of Kmt):

- `TypeCorrect`: `TypeOK`; a saved context never stands inside a spinlock section.
- `LocksOrdered`: `LockOrder`, so input_notify's `sem_signal` under current_tasks_mutex
  never waits for its own CPU.
- `SchedulerFinds`: `SchedulerFindsTask`, so the scheduler's endless loop always has a task to
  find.
- `ProcCpuCorrect`: `ProcCpu`.

They follow from `Invariance`, `Spec => []IInv`. None of the properties is inductive by itself.
`IInv` adds what the code relies on without saying it: interrupts are off in every section
and every trap, and popcli never enables them (`IrqInv`); what each phase says of trap, call
and current task (`PhaseInv`); that the locks are held by exactly the CPUs in their sections
(`LockInv`); that idle tasks stay at their entry and never sleep (`IdleInv`); and that a RUNNING
task is some CPU's current task, but not that of a CPU which is choosing (`RunInv`). There is
one lemma per action. `SchedulerFinds` is a pigeonhole argument: the `NCPU` idle tasks never
sleep, so one that is not ready is the current task of another CPU, and there are only
`NCPU - 1` of those.

The second half of `KmtProofs` is about the semaphores:

- `SemAccounted`: `SemAccount`, for any number of CPUs. It needs `LockInv`: value and ring change
  together because only the holder of the semaphore's lock touches them.
- `NeverHalts`, `WakeupsKept`, `RunningCurrent`: `NoHalt`, `NoLostWakeup` and `RunningIsCurrent` under
  `NCPU = 1`, for any tasks and programs. On two CPUs they are false, as `prodcons_smp` shows.
  The invariant `UInv` adds to `IInv` why one CPU is safe: a task that has gone to sleep has interrupts
  off until its own `_yield` (`CurInv`), so that its context is saved behind the `_yield`
  (`CtxInv`) before anybody can wake it; and the queued tasks are the sleeping ones, each once
  (`QueInv`). That the ring never fills is a pigeonhole argument: the idle task and
  the task that executes are in none.

The last part of `KmtProofs` proves `CounterInBuffer`: `CntBounded` on one CPU, for every `maxk` and any number of
producers and consumers (`OneCpuTest`; `TwoAndTwo` shows that the configuration of the run is an instance). A step of
ProdCons is a step of Kmt, so `UInv` holds. `PCInv` adds where tasks stand: interrupts are off from
a task's first call on, so that it leaves the CPU only at its entry or asleep in a `sem_wait`
(`CtxAt`, `CurAt`) and what it has loaded is still the counter when it stores (`Loaded`). Then it keeps the
books (`Accounts`): `value[empty]`, the tasks that hold a place and `cnt` add up to `maxk`;
`value[full]` and the tasks that hold an item add up to `cnt`. A negative value is made up for by
the queued tasks, all of which are counted as holders (`QueAt`), so neither sum leaves the
buffer. The proof does not need the semaphore `mutex`: on one CPU the missing preemption does its work.

`LibcoProofs` proves, for every number of coroutines (`LibcoConstants`):

- `CoTypeCorrect`: Libco's `TypeOK`.
- `NoEarlyWait`: `EarlyOnlyIfCut`. By itself it is not inductive. `IInv` adds who runs (`Running`: a
  coroutine that runs is current, and main is inside a call) and where a jump to main lands
  as long as nothing was cut (`Landing`: while main waits, slot 0 has the buffer of a co_wait).
- `BuffersOwned`: `BuffersAreOwn`, with the fact that main runs under another slot than its own
  only when that slot has ended (`Own`), so that what main saves there is nobody's.
- `EveryoneDrawn`: `SelectReachesAll`. `Counted` adds that `act_cnt` is the number of running slots and
  that a coroutine that runs is one of them, which each needs the property itself: only
  because a draw never leaves the running slots does the next return end a running one. What
  select_co computes is a ranking; that the ranks of a finite set are all the numbers below its size
  is an injection between sets of the same size (`Ranks`).

`PmmProofs` proves all of Pmm's properties for every pool, heap and word size (`PmmConstants`):
`PmmTypes`, `AssertsHold`, `ListExact`, `HeapTiled`, `MemUsedIsHandedOut`, `NoFreeRunDivided`,
`FreedIsInitial` and the action property `LiveStay`. The first, `TypeOK`, is only proved, since a run of
it would add nothing. They follow from one inductive invariant, `PInv`. The list is a chain, a
function from positions to nodes whose neighbours the pointers join (`Lists`); inserting and taking out
a node make it longer and shorter by one (`ChainInsert`, `ChainRemove`). The blocks in use divide the heap
(`Tiles`), and what an allocation cuts and a kfree merges are neighbours, so the division stays one.
`Apart`, that no free block begins where another ends, is what makes one merge on each side enough.
`Tidy` says what is left in a descriptor outside the list, which `FreedIsInitial` needs to the last field.
`Total` bounds the sizes, so that no sum wraps around the word.

`ConsoleProofs` proves, for every size of the rings, the screen and the number of terminals:

- `ConsoleTypes`, `PopFindsEvent`, `CursorOnScreen`: `TypeOK`, `NoEmptyPop` and `MarksOnScreen`. The
  invariant `CInv` ties the event semaphore, and the event that is on its way between ring and
  semaphore, to the number of events in the ring.
- `LinesCounted`, `RingsImplementLines`: `CookedCountsLines`, and `LineDiscipline` as a refinement of Lines,
  for every size of the shell's buffer.
  Both assume `NoShift`: with Shift, Return sends a `'\0'` that ends a line nobody counts, which is
  what `console_shift` shows, and the properties are then false. `LInv` says that no event in the ring or in
  tty_task's hands is a `'\0'` and that the ring in front of the first unread character
  begins a line. The ring with its wrap, its full flag and its backspace is followed as a sequence,
  one operation at a time.

`KvdbProofs` proves, for any keys, values, sizes and number of crashes (`KvdbConstants`, with finitely
many keys): `KvdbTypes`, `FilesSurviveCrash` (`CrashSafe`) and `OpenStoreCurrent` (`TableIsAcked`). `KInv`
says which files exist in which phase (`PhaseInv`), that no image holds more than fits (`FitInv`), and,
as long as nothing was lost, what each file is to the finished operations (`FilesInv`): in a
session the log replayed on the copy gives them, before and after it the database does.
"Gives them" is `Holds`: the keys in `cut` have some text, the others their value; it is kept by a
recovery because a record, whole or cut short, changes its own key only, and because the beginning of
a value takes no more blocks than the value. A recovery is a fold over the log, followed a record at a time.

`VfsProofs` proves, for every size of the disk, the blocks, the directories and the table, for all
paths and texts and any number of commands:

- `BitmapsExactAlways`: `BitmapsExact`.
- `FilesKeepTextAlways`: `FilesKeepText`.
- `VfsTypes`: `TypeOK`, as long as no call went astray. The proof reads directories that the disk is
  sure to hold, which after `astray` it is not.

The assumptions are `Ext2Constants`, `VfsConstants` and `DiskRoom`: the new disk has room for what ext2_init
puts on it, and the text of these files fits into a block (of a longer one ext2_init itself would
already lose half of the tail). The proofs go bottom up. First, in Ext2Proofs, what each call of ext2fs.c
makes of the disk: `AllocBlock`, `Prepare`, `Create`, `RemoveKeeps`, `ResizeTo`, `CopyAllIs` and
`WriteKeeps`, where the loops over blocks are folds. `DiskInv` is what a call needs and leaves: the counters
are the sizes of the bitmaps, every block in use has exactly one owner among the inodes in use
(`Owned`), and no list names a block twice (`Distinct`), which `BitmapsExact` does not say and which a
removal needs to free each block once. `TextInv` says what the cells of the files hold; it is kept by a
write because blocks have one owner, and it needs to know that all blocks behind the size
belong to the list. Then, what a command does: `Same`, `Adds` and `Does` follow the working record through
the lookups and calls, so that each command comes down to at most one call that changes the disk (`Kept`), with
the harm that this call reports. The induction over steps follows: `Inv` is `BooksInv` (`DiskInv` unless something went
astray), `TextsInv` (`TextInv` unless astray or smashed, with the half lost if `half`), and the types of `files` and
`want`.

The same is done for the table. `Tab` is a table whose indices are in range and in which a vinode that
can be read or written names an inode of the disk (`Rec`), which is what makes the inode of
an open file one. `Alike`, `Grows` and `Cuts` say what one table is to the next: only neighbours
differ, what is in use stays in use with its inode, or some of it is freed. Walks along `next`
and `next_link`, the reading of a directory and the rounds of a lookup are recursions and folds
(`BrothersType`, `RealType`, `EntryRead`, `LookupGoes`); each call then goes on (`Goes`) or ends (`Ends`) a
command. A walk off a list or a full table is an index of -1, which the model makes a fault before
the index is used; `VfsTypes` therefore says that no other index leaves its array. `TableInv`
is the invariant.

Two devices carry the induction over data that these proofs need. The library's
induction theorems take an operator, which the provers cannot instantiate; `LeastNatural` and
`SetInduction` in Lemmas take a set instead, `{n \in Nat : ...}`, and follow from its well-founded
order. And an operator of the community modules that is a fold (`FoldLeft`, `MapThenSumSet`) chooses
a function on the subsets; `IsFold` and `SumOver` in Lemmas show what that function is, one
element at a time.

Only model-checked: liveness (`ReadyRuns`, `KbdServed`, `EveryWorkerProgresses`, `AllWaitsReturn`),
since fairness is out of the prover's reach; and of Vfs `LinkRings`, `TableIsTree`,
`TreeIsDisk`, `OpenFilesStay` and `MountExclusive`. These speak of the shape of the table, its tree and
its rings: that `OpenFilesStay` survives unlink, for one, is because the slot which a vinode is
moved to is a link, and so no open file's. They hold for the paths of the runs; for all that
can be typed they would first have to say what a path that ends in "." or ".." names (unlink asserts
that it does not, vfs.c:560-561, and halts; rmdir does not look), and their induction needs the tree
itself as a definition over walks along `next` and `child`.

## 5. What the runs found

- **A task on two CPUs** (`prodcons_smp`, kthreads.c:155). sleep unlocks before `_yield` has saved
  the context. Another CPU's signal makes the task RUNNABLE and a third trap resumes its old
  context. The first CPU's own trap then demotes a task that runs elsewhere; it is dispatched
  although it is queued, and passes a `sem_wait` it should have waited in.
- **Shift+Return** (`console_shift`, input.c:84) enqueues `'\0'`, the separator of lines, and
  signals no line. From then on the shell is one line behind.
- **A second crash** (`kvdb_twice`, kvdb.c:228) recovers from a copy older than the log.

What follows was found while modelling and has no run of its own.

No preemption after the first lock (kthreads.h:22): `cli()` comes before the flags are read, so
`popcli` never executes the `sti()` that kthreads.h:32 has for it; `IrqInv` in KmtProofs says so.

The passing properties are conditional on what the code is known to get wrong, so that they can say
what else holds; they do not show the excused cases, which are bugs of the code and are
listed here. `CrashSafe` names the states in which kvdb's files do not survive a crash (`Fragile`):

- while a store is reopened (`open`, kvdb.c:236): `.dbc` and `.log` exist before the copy is written,
  so the next open recovers from nothing and truncates `.db`;
- in a session that began with a recovery (`recovery`; `kvdb_twice`);
- while the log holds an empty value (`empty value`, kvdb.c:187): `fscanf` skips it and the end of its
  line, and the next record is taken for the value.

A put that finds no space has already dropped the old value (kvdb.c:298), in memory and not in the
log; that is the remaining member of `lost`. A torn record (kvdb.c:315) is not among them: its beginning
is read like a whole record and replaces the value that the last finished put had stored, and
`CrashSafe` and `TableIsAcked` say that this is the value of that one key (`cut`) and nothing else.

`EarlyOnlyIfCut` says when co_wait breaks its promise: a coroutine that returns without having
yielded since its co_start leaves `current` on its slot (co.c:62) and in slot 0 the buffer of
that co_start. A later longjmp to main lands there and makes main's co_wait return,
whether its coroutine has ended or not.

The members of `harm` are the commands that the file system does not survive:

- `stays`, `smash`: ext2_remove writes the parent's entries to a block of the child's list
  (ext2fs.c:433, 454). The entry of a removed directory stays on the disk and comes back with the
  next mount; a removal in the directory's second block goes over block 0, the root directory.
- `astray`: a call takes a free inode for one in use. A file is written whose inode has been freed, or a
  directory is removed by an entry that an earlier removal left (`stays`): after mkdir R0/a, mkdir
  R0/a/b.c, rmdir R0/a/b.c, an unmount and a mount, rmdir R0/a/b.c frees inode and block a second time.
- `pulled`: a file that is open is removed or unmounted. Its inode keeps a count of blocks with
  the numbers 0 (ext2fs.c:448), so that the next line goes over the root directory or takes blocks
  for good; or its slot is another file's by then.
- `moved`, `hollow`: unlink moves a real vinode to the link before it (vfs.c:566) and leaves
  the disk as it is. For a directory that link is its own ".", which goes with it, and the second
  remove_link of the old slot points the ring at a free one. An unlinked mount point never
  makes its device mountable again.
- `cut`: a directory goes while something outside is linked to it (an unmount does not look):
  the next lookup through the link does not end (vfs.c:74).
- `nested`: remove_dir frees one level (vfs.c:342); the vinodes below are never freed, and the ".." of
  a directory among them stays in the ring of a slot that is free.
- `half`: of a write's tail in a last block that is not the first, half is copied (ext2fs.c:354).

Faults that need no harm before them: mkdir, rmdir or unlink in a directory that is not there
(vfs.c:487, 514, 556: an index of -1); ls of a link to a file, whose text is read as a directory
(vfs.c:134: an assert); removing a file twice, because a cleared entry still
matches by its name (ext2fs.c:412). After `stays`, mkdir may find all entries taken where the size
says there is room (ext2fs.c:380).

Reads and buffers. ext2_read copies from the buffer of its first block as many bytes as the file has left,
whatever the block has left (ext2fs.c:305-308): a read beyond the first block returns what lies
behind `datablockbuf`, and the next blocks are never reached. The model returns `Stray` for
each such byte, and `FilesKeepText` is about reads that end in their first block. tty_read returns the length of a
line also when it has stored less (tty.c:206-212), and the shell writes `readbuf[nread - 1]`, outside the
buffer for a line of more than 128 bytes (shell.c:258); `console_lines` reaches it. kalloc of more than
half of the address space does not return (alloc.c:231), with `memoplk` held; `pmm` reaches it
(`status = "hang"`), and `NeverCorrupt`, which is about the asserts, allows it.

## 6. Not modelled

`kmt_teardown` (nobody calls it). The NULL `otask` of each CPU's first trap. Cell contents, drawing
and the text of /proc. kvdb's block chains, the shared `readbuf` that get returns, a second process
on the same files, and more than ITEMS_SIZE keys. Of the terminals, a full screen, and what happens
after a shell has written outside its buffer. The window between a switch of tasks and its note in
/proc (kthreads.c:38-42), and the old contents of an unused block descriptor (alloc.c:151-160), which
are never read. Two file system commands at the same moment: nothing in vfs.c is locked, not
even the buffer that holds the path, so they mix at every byte. /proc and the terminals as
files, and a second ramdisk. A co_start inside a coroutine, a co_yield of main, more than `MAX_CO`
coroutines, and the registers after a jump into a call that has returned. The one-pass tools
(`crepl`, `frecov`, `sperf`, `pstree`), the game, and the device table, which is filled once at
boot. The abstract machine except trap entry and exit: it is vendored, and with its libraries and
games it is seven eighths of the repository's lines.

## 7. Plan

1. **Kvdb** at the level of blocks, with the buffer that get returns and two threads, shown to
   implement the present module.
2. **Console** with several terminals, and arbitrary contents of
   fresh memory.
3. **Vfs** with /proc and the terminals in the tree, and an abstract tree of names that it
   implements as long as `harm` is empty.
4. Proofs: the table of vinodes as a tree with its rings (`TableIsTree`, `LinkRings`, `TreeIsDisk`), for paths
   that name what they mean.
