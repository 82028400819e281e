# OSlabs in TLA+

TLA+ specifications of this repository: the multiprocessor kernel under `kernel/`, the crash-safe
key-value store under `libkvdb/` and the coroutines of `libco/`. Modules and TLC configurations
that check them on small instances, and TLAPS proofs about the locks everything else stands on, the
semaphores, the scheduler, the keyboard device, the screens, the file system, the allocator and the
coroutines. `tlc -config MCX.cfg
MCX` checks a module, `tlapm XProofs.tla` the proofs about module `X`.

## 1. The system and its parts

The kernel boots on one CPU (`os_init` creates the devices' tasks, shells and zombies), then
every CPU runs `os_run`. From there on everything happens in traps: a timer tick, a keyboard
interrupt or a `_yield` enters `os_trap`, which calls the registered handlers in order of `seq`
(`kmt_context_save` first, `kmt_context_switch` last) and returns the context to resume. Tasks
talk through semaphores; semaphores, the scheduler and the devices are protected by spin locks
that also disable interrupts. `libkvdb` and `libco` are libraries of their own,
used by ordinary processes.

| part | state | operations | called by / calls | hard behaviour | what makes it correct |
|---|---|---|---|---|---|
| spin locks, `kernel/src/spinlock.c` | `locked`, `cpu` per lock; `ncli`, `intena` per CPU; EFLAGS.IF | `my_spinlock`, `my_spinunlock`, `holding`, `pushcli`, `popcli` | all of the kernel | CPUs race; interrupts fall anywhere and their handlers take locks | exclusion, no panic, interrupts off exactly while a lock is held and restored after |
| semaphores, `sem.c` | `value`, ring `wl[]`, `wlleft`, `wlright` | `seminit`, `semwait`, `semsignal` | tasks and interrupt handlers / scheduler | gap between unlock and yield; ring wraps; a newcomer takes the unit | no lost wake-up, FIFO, panic only when really full, waiters get through |
| tasks and scheduler, `kmthread.c` | task list per CPU, `current_tasks[]`, status and saved context per task | `kmt_create`, `kmt_context_save`, `kmt_context_switch` | `os_trap` | another CPU changes a status during the scan; a CPU leaves a stack it has unlocked | asserts hold, tasks resume where they stopped, one CPU per stack, every READY task runs |
| boot and traps, `os.c` | handler list, `traplock` | `os_init`, `os_run`, `os_trap`, `os_on_irq` | hardware / scheduler, devices | traps on all CPUs at once | handlers in order of `seq`, one trap at a time |
| keyboard, `devices/input` | event ring, `event_sem`, `sem_kbdirq`, modifiers | `input_notify`, `input_task`, `input_read` | IRQ 1 / `tty_task` | keys arrive while the task drains or falls asleep; ring at its limit | events are the strokes, in order, none left behind |
| tty, line discipline, `devices/tty` | ring of cooked bytes, `lock`, `cooked` | `tty_cook`, `tty_read` | `tty_task`, shells | editing across the end of the ring and against line boundaries; a Return that is no Enter; two readers | what is typed is read in order, a piece for each Enter, none by two readers |
| tty screen and frame buffer, `devices/tty`, `devices/video` | characters, cursor and dirty marks per tty; sprites, displayed tty | `tty_write`, `tty_render`, switch, `fb_write` | shells, `tty_task` | cursor at the edge; drawing after the lock is released; a switch in between | no text lost, the display shows the current tty |
| libkvdb, `libkvdb/kvdb.c` | data file, journal, file locks, log offset per process | `kvdb_open` (recovers), `kvdb_put`, `kvdb_get`, `kvdb_close` | processes | killed between any two writes; recovery killed too; two processes | a put that returned is read; one cut short is done or not done |
| vfs, shell, commands, `vfs.c`, `shell.c`, `cmd.c` | inodes, directories, link counts, descriptors, mounts | `access`, `mkdir`, `link`, `unlink`, `open`, `read`, ... | shells / devices | multi-step updates, tables at their limits, names used again, the root and devices as arguments | link counts and names agree, the tree is a tree |
| pmm, `alloc.c` | bump pointer `estart` under a lock | `kalloc`; `kfree` does nothing | everybody | `estart` is read again after the unlock; the heap ends | blocks lie in the heap and take nothing that was given before |
| device table, `devices/dev.c`; ram disk | constant table; byte array | lookup; `memcpy` | vfs | none beyond the callers' | |
| libco, `libco/co.c` | slots with name, state and context; main's context per slot; `current` | `co_start`, `co_yield`, `co_wait` | test programs | a coroutine that finishes resumes the call of main that was saved last, returned or not; slots and names are used again | `co_wait` returns when the coroutine has finished, and only then |
| amgame, crepl, pstree, sperf, frecov | | one-shot programs | | parsing and I/O, one process | |
| abstract-machine | traps, `_atomic_xchg`, interrupt controllers | | kernel | | the course's framework; its trap entry and exit matter here |

## 2. Modules

| module | models | composes / implements |
|---|---|---|
| `SpinLockSpec` | what a lock promises: free or held by one CPU | |
| `Spinlock` | `spinlock.c`, access by access | implements `SpinLockSpec` |
| `SpinlockProofs` | theorems about `Spinlock` | |
| `SemSpec` | what a semaphore promises | |
| `Semaphore` | `sem.c`, one semaphore | implements `SemSpec`; its critical sections are single steps because `Spinlock` excludes |
| `SemaphoreProofs` | theorems about `Semaphore` | |
| `Kmt` | `kmthread.c`, `os_init`/`os_run`/`os_trap`, the trap exit, with the semaphores' effect on status | shows that `SemSpec` still holds of `sem_kbdirq` on the real scheduler |
| `KmtProofs` | theorems about `Kmt` | |
| `Input` | the keyboard device, the controller as it uses it | uses semaphores as `SemSpec` allows |
| `InputProofs` | theorems about `Input` | |
| `LineSpec` | what a line discipline promises: edited text in pieces, whole and in order, one for each Enter | |
| `TtyLine` | `tty_cook`, `tty_read` and the ring | implements `LineSpec` |
| `TtyScreen` | `tty_putc`, `tty_write`, `tty_render`, the switch, `fb_write` | |
| `TtyScreenProofs` | theorems about `TtyScreen` | |
| `Kvdb` | `kvdb.c`, write by write | |
| `FsSpec` | what a file system promises: a tree whose files may have several names | |
| `Vfs` | `vfs.c`'s block file system, the mounts, and the commands of `cmd.c` that change something | implements `FsSpec` |
| `VfsProofs` | theorems about `Vfs` | |
| `Pmm` | `alloc.c` as it is built, the address computed after the unlock | |
| `PmmProofs` | theorems about `Pmm` | |
| `CoSpec` | what coroutines promise to main | |
| `Libco` | `co.c`, context switch by context switch | implements `CoSpec` |
| `LibcoProofs` | theorems about `Libco` | |

Every module that describes code has an `MC...` module and one or more `.cfg` files.

### How state and actions correspond to the code

**Spinlock.** One step per access to shared memory or to EFLAGS.IF. `ctx[c]` is what the running
code of CPU *c* has in registers, `saved[c]` the contexts it interrupted. `SpinLock`, `Cli`,
`CheckFree`, `Xchg`, `SetCpu` are `my_spinlock` (the last line of each is the next access);
`SpinUnlock`, `ClearCpu`, `Release`, `PopCli` are `my_spinunlock`. Callers are
abstracted to the discipline the kernel's call sites follow: locks in increasing `Rank`
(`traplock` < `HLlock` < `tasklock` or a semaphore's lock < the allocator's), released by whoever
took them, none kept by a returning handler.

**Semaphore.** A section under `sem->lock` is a step: `Take` and `Enqueue` are the two outcomes of
`semwait`'s loop, `Yield` its `_yield()`, `semsignal` is shared by tasks and interrupts.
Between them `Preempt` and `Dispatch` do to a task what the scheduler does.

**Kmt.** `OnIrq` is `os_on_irq`: it inserts the registrations of `kmt_init` and `input_init`, in
the order boot makes them, into the list `handlers` by `seq`. A trap walks that list: `rest[c]` are
the places in it still to be called, and `mode[c]` goes through `TrapLock`, then whatever the list
says, with this registration `Save`, `Notify`, the three ways
through `kmt_context_switch` (`SwitchCurReady`, `SwitchScan` with one step per task looked at,
`SwitchCheck` with the asserts), `TrapUnlock`, `Iret`. What is under `traplock` still interleaves
with tasks on other CPUs, which change status through semaphores without that lock; that is why
the scan is step by step. `point[c]` is where the CPU's task code is, `context[t]` what was
saved, `at[t]` (history) where *t* had really got to. Task code is reduced to what it does with
semaphores.

**Input.** `fifo`/`irr` are the controller, `pc` is `input_task`, `rpc[r]` a reader in
`pop_event`. `push` (the section under `in->lock`) and `signal` are two steps, since a reader may
come between.

**TtyLine, TtyScreen.** The tty's lock is a semaphore; waits and signals are steps, what lies
between is one. `TtyScreen` draws sprite by sprite because `tty_write` renders after it has
released the lock. `Cook` takes ordinary characters, Enter, Backspace and the `'\0'` of Shift+Return:
`keymap_shift` has nothing for Return, so `input_keydown` pushes an event with data 0, and `tty_task` passes
it on. `tty_cook` stores it like a letter (`CookChar`); for `tty_read` and `tty_pop_back` it is the end of a line, and
nobody is signalled. `LineSpec` has it as `Break`, which ends a piece, while only an Enter entitles a reader to one; with
a `Break` readers get the oldest piece and fall behind by it (Findings).

**Vfs.** A command is a step: `vfs.h` defines `SHELL`, which compiles `vfslock` out, so the model
is of one shell at work (see Not modelled). `blkfs` has the inodes' link counts and what is in
their blocks, read as directory or as text; `mnt` is `mntpoint[]`, `fildes` the shell's open
descriptors. `Lookup`, `Create` and `Remove` are the three ways through `fsgetinode` and
`fslookup` (no flag, `O_CREAT`, `O_RM`), the `vfs...` operators the calls, `cmd_...` and `Echo...`
the commands as sequences of calls. Entries that are no longer valid keep their names, as in the
code, because `vfsunlink` compares them.
Commands are given any path of names, `/` and devices. `mkdir`, `rmdir`, `touch` and `echo` refuse `/`, `rm` and `link`
find nothing there; `cat` takes it on both sides (`CatOther`, `CatOver`). `EchoRefused`, `EchoDevice` and
`EchoDisk` are what `echo` to a path below `/dev` comes to. Four commands leave something on the disk that is no file system any more:
`rm` of a linked file of the root, in the middle of which an assert fails; `link` that gives a file a directory's name;
`cat` to `/`, which writes a file's text over the root's entries; `echo` to `/dev/ramdisk1`, which writes it over the root's inode. They are steps
of the model (the names in `Spoilt`), they end its run, and `intact` says that none has happened. What the properties and theorems say
is said up to there, and there they fail in the code (Findings).

**Kvdb.** The two files are sequences of bytes and every `write` is a step. `todo` is what the
running put or recovery still has to write; it is fixed when the lock is taken, since nobody
else writes until then. Reading operations are functions of the files (`Locate`, `Get`,
`Entries`). `Crash` drops a process and its locks between any two writes.

**Pmm.** `Carve` is what `kalloc` does under `alloc_lk`, `Return` its `return` statement, which
reads `estart` again: between the two, other CPUs carve. `blocks` (history) is what callers were
given, with how many blocks had been returned when the call took the lock.

**Libco.** `exec` is whose code the processor executes, `current` what the library believes.
`Start` and `Wait` run up to their `swapcontext`; the coroutine's `YieldFirst`, `YieldTurn` and
`Finish` follow, and `Return` is the rest of `co_wait`. `main.slot` is the slot whose `dual[]` context
belongs to the call main is in: resuming any other is resuming a frame that has returned, and the
model stops there (`"wild"`). A body is the number of its `co_yield`s, chosen when it starts.
Callers keep the order of `libco/tests/main.c` (`InOrder`): a body yields at least once, and the
coroutine waited for is among the first to finish.

## 3. What is checked

| run | instance | states | what it shows |
|---|---|---|---|
| `spinlock` | 2 CPUs, 2 locks, interrupts 2 deep | 236 k | exclusion; no assert or panic; the interrupt flag is restored; the inductive invariant of the proofs; `SpinLockSpec` implemented |
| `semaphore` | 3 tasks, ring of 2, units up to 2, an interrupt | 8 k | ring and statuses agree, nobody sleeps unwoken, order is FIFO, panics mean what they say, `SemSpec` with liveness |
| `kmt` | 2 CPUs, 6 tasks (input, tty, shell, zombies), 2 semaphores, the 3 handlers | 302 k | the scheduler's asserts, resumption, one CPU per task and stack, no lost wake-up across CPUs |
| `kmt_live` | the same, keyboard semaphore only | 6 k | round robin runs every READY task; `sem_kbdirq` keeps `SemSpec` |
| `input` | all sequences of 3 scan codes, 2 readers, ring of 3 | 127 k | events are exactly what the codes mean; readers find one; every stroke is read |
| `tty_line` | 7 characters, Shift+Return among them, ring of 5, 2 readers | 101 k | ends of lines counted and delivered as `LineSpec` says; the kernel stops only when the ring is really full |
| `tty_screen` | 2 ttys of 2x2, 4 writes, switches | 26 k | text kept over wrap, erase and scroll; the display ends up right |
| `kvdb` | 3 puts over 2 keys and 3 values, killed twice | 114 k | puts survive; the file stays a chain of records |
| `vfs` | 6 paths in 2 levels of directories with 2 entries, 4 inodes, 4 descriptors | 120 k | until a command spoils the disk: link counts and names agree; mount points are there or not; nothing is lost but by creating in a full directory; `FsSpec` implemented |
| `pmm` | `os_init` and 2 shells, 5 blocks of 1 or 2 bytes, 7 bytes of heap | 348 k | blocks lie in the heap and never take what was given before the call |
| `libco` | 3 slots, 4 names, bodies of 1 to 3 yields, any number of starts and waits | 21 k | contexts are resumed while their calls last; `current` and the states name who runs; `CoSpec` implemented, with its liveness |
| `kvdb_torn` | see Findings | | a counterexample |

**Bounds.** They are small because each hazard needs few actors: a lock or trap race needs two
CPUs (with three, the third can only wait longer); two locks give nesting; interrupts two deep
give a handler interrupted in a handler. A ring of two or three with more elements than slots
wraps in both directions and fills. The semaphore's third task is the newcomer that overtakes a
woken one. `Kmt`'s six tasks are the ones `os_init` makes for one shell: each CPU gets a zombie
and tasks that suspend. Three keyboard codes are enough for modifier-down, key, modifier-up;
the model includes unknown codes, for which `read_key` gives the same 0 as for an empty
controller. In `Kvdb`, levels are cut to two sizes so that a value outgrows its record, and three
puts are append, outgrow (delete and append) and overwrite. The bytes of keys and values are the printable ones,
32 to 126, of which the runs use a few. In `Vfs`, two entries per directory
and three inodes besides the root are enough for a directory that fills (the root), an inode that is used
again as the other kind, and a file with names in two directories; the sample files of `/jarvis`
are left out of `Init`, since commands can make such files. Named bounds: `MaxNest`,
`MaxValue`, `MaxCodes`, `MaxTyped`, `MaxWrites`, `MaxPuts`, `MaxCrashes`, `CrashBefore`,
`NINODES`, `NENTRIES`, `NFILE`, `MaxBlocks`, `MaxYields`, `InOrder`.
`CrashBefore` leaves out kills in the middle of an appended record in run `kvdb`, because that case fails
(`kvdb_torn` shows it). `InOrder = TRUE` keeps `libco`'s callers to what its tests do.
In `Pmm` two tasks suffice for every overlap of a pending return with other calls, and five blocks
of up to two bytes run into the end of a heap of seven. In `Libco` three slots give a turn that
passes others by, and the fourth name finds them full. Seven characters overflow the tty's ring of five.

**Deadlock** is checked for `Spinlock` and `Kmt`. It is off where the system really
may stop: semaphores with everybody asleep, no more keys, characters, writes or puts, an
assert that stopped the machine or the process (`Vfs`, `Pmm`, `Libco`).

The `TypeOK` of `TtyLine`, `Kvdb`, `Vfs` and `Pmm` is in no run; with the constants of the runs it
holds (add it to the cfg to see it), and `Pmm`'s is proved.

**Mutants.** For each property PROJECT.json names a small change of a modelled definition (the
`Mut...` operators next to the originals: a dropped guard, an off-by-one, a swapped order) with
which TLC finds that property violated, so no property holds for want of interesting states.

### Fairness

* `Kmt`: weak fairness for boot and for a CPU's steps in a trap. Strong fairness for `TrapLock`:
  the code has no queue for `traplock`, and a CPU that spins gets it only because the bus
  arbitrates exchanges; without this assumption one CPU may starve the other, and the code does
  nothing against it. The timer ticks (weak), and again and again while the current task is
  RUNNING (strong): it is not in step with the tasks. Without that, ticks could always fall
  between `semwait`'s unlock and its yield, where `kmt_context_switch` returns early for a task
  that has just been signalled, and round robin would never advance. A pending keyboard
  interrupt is taken (strong: interrupts go on and off), tasks get through `semwait` if they get
  the CPU again and again (strong). Nobody has to press a key or call `semwait`.
* `Semaphore`: every READY task is dispatched (weak; this is `Kmt`'s `ReadyRuns`) and a task
  that is dispatched repeatedly gets through its section and its yield (strong).
* `Input`: tasks and the interrupt proceed (weak). `TtyLine`: the same, and readers get the
  tty's lock (strong; it is a FIFO semaphore). `Libco`: the one thread goes on (weak) while a
  coroutine runs or `co_wait` returns; main need not call again.

### Findings

* **A put killed while it appends a record is not recovered** (`kvdb_torn`, `kvdb.c:117`).
  `kvdb_open` says it restores the file from the log. If the process dies after the key of a new
  record is in the file and before its last byte, recovery takes the torn record for an old
  one, reads its level at the end of the file and writes the value where `kvdb_get` does not
  look: the put is in the journal, and neither the old nor the new value is read.
* **Two processes lose a put** (no run; `kvdb.c:299`, `test/main2.c:113`; MCKvdb.cfg with
  `Proc = {"proc1", "proc2"}`, `MaxCrashes = 0` and `INVARIANTS PutsSurvive`). `kvdb_put` takes the file's size
  before the lock. Two processes that both saw the empty file both write their record at offset
  0. Nobody has to be killed. Each process also keeps its own journal offset, so two processes
  overwrite each other's entries; that needs a kill as well to matter.
* **Shift+Return is an end of line that is not counted** (no run; `tty.c:79`; MCTtyLine.cfg with `SPECIFICATION Spec` and
  `INVARIANTS CookedLines`). `tty_init` calls the
  semaphore "tty cooked lines" (`tty.c:183`). Shift+Return is the character `'\0'` (`input.c:61`), stored with no signal. After `ab`,
  Shift+Return, `cd`, Enter the shell that waits reads `ab`, and from then on each Enter gives a shell what was
  typed before the last one. Nothing is lost, repeated or given twice, and no reader is let in for a piece that is not there (`LinesCounted`, `RefinesLineSpec`).
* **Removing a linked file of the root stops the kernel** (no run; `vfs.c:1263`; MCVfs.cfg with
  `INVARIANTS UnlinkFindsDirectory`). The comment at
  `vfs.c:1262` says the directory cannot be missing
  since the file exists. The path of its directory is empty after the last name is cut off, nothing is found for an empty path, and
  `assert(recnode)` fails, with the link count already lowered. `mkdir /d`, `touch /f`,
  `link /f /d/a`, `rm /f`. For the same reason no file can be linked into the root. (`link /f /` is refused too, after
  it has written `dirname[-1]`, `vfs.c:1067`; the model has the refusal.)
* **A file can get a directory's name** (no run; `vfs.c:1039`, `1269`). `vfslink` only looks for
  a file of the new name. After that `vfsunlink` may clear an entry that is no longer valid but
  still has the name, while the name it should remove stays and its inode is given away.
  The model ends its run with such a link (`ended = "vfslink"`).
* **`cat` to `/` overwrites the root directory** (no run; `vfs.c:1295`, `cmd.c:338`). `vfsopen` has a branch of
  its own for `/` and does not look at the flags there. `cat /f > /` copies the file's block over the root's: every name is gone, and the inodes
  and their counts stay. After `cat / > /f` it brings back entries that were there before, of files that were removed since or of a file system that was unmounted
  (`ended = "cmd_cat"`).
* **`echo` to the ram disk overwrites the root's inode** (no run; `cmd.c:583`). `/dev/ramdisk1` is the disk on which the file system
  is; the text goes to offset 0 (`ended = "ramdisk1"`).
* **`echo` below `/dev` stops the machine** (no run) when the name is no device, of which `dev_lookup` panics (`vfs.c:590`, `dev.c:23`; `ended =
  "dev_lookup"`), or is `input` or `fb`, which `vfsopen` refuses, so that `assert(fd >= 0)` fails (`cmd.c:566`; `ended = "cmd_echo"`).
* **echo to a device leaks its descriptor** (no run; `cmd.c:585`, `590`). Once the table is full the
  next `echo` to an existing file fails the same assert (`ended = "cmd_echo"`).
* **Two overlapping kallocs return overlapping blocks** (no run; `alloc.c:224`; MCPmm.cfg with
  `INVARIANTS Disjoint`). `return (void*) (estart - size)` is evaluated after `my_spinunlock`, and `estart`
  is static: if another CPU has allocated in between, both calls return the addresses below the
  larger `estart`, and the memory between is given to nobody. For the same reason a call that was
  behind its unlock when another one ran into the end of the heap returns a block past the end.
  What does hold, and is proved: nothing that had been returned before is given again.
* **A coroutine that never yields, or a wait out of order, resumes a dead frame** (no run; `co.c:62`,
  `co.c:142`; MCLibco.cfg with `InOrder = FALSE`). A body that ends inside `co_start` leaves `current` on its
  slot; after the next `co_start` the `co_wait` for it switches to the context it was created with. A
  coroutine that finishes while main waits for another one resumes main in a `co_start` that has
  returned. The tests avoid both.
* **A handler that sorts before the head of the list would make a cycle** (no run; `os.c:306`):
  `old` is then the head as well, and its `next` becomes the new handler, whose `next` is the head. It
  does not happen, since `kmt_init` registers `INT_MIN` first.

## 4. What is proved

`SpinlockProofs` proves about `Spinlock`, for every set of CPUs and locks, every rank and every
depth of nested interrupts:

| theorem | says |
|---|---|
| `TypeCorrect` | types |
| `Invariance` | `IInv` always holds |
| `LockMutualExclusion` | two CPUs never hold one lock |
| `PanicFree` | no assert or panic of `spinlock.c` fires |
| `NcliExact` | `ncli` is the number of locks held, plus the one in transit |
| `NoInterruptWithLock` | a context that owns a lock, or is about to, is not interrupted |
| `FlagRestored` | releasing the outermost lock restores the flag it found |
| `ImplementsLock` | every step is a step of `SpinLockSpec` or leaves it alone |

The only assumption there is `SpinlockAssumption` (NULL is no CPU and no lock, ranks and the bound are
naturals), plus what is in the model: callers take locks in rank order and give back their own.
Exclusion is not inductive: that `Release` frees the lock of the CPU that holds it depends on
`lk->cpu`, on which context of the CPU is the owner, and on no handler running on top of it. So
`IInv` is `TypeOK` with, per CPU, `ArgInv` (a context inside a call has a lock), `CountInv`
(`ncli` counts the locks held and in transit), `FlagInv` (interrupts are off when `ncli` is not
0; `intena` is what the outermost lock found) and `StackInv` (contexts that were interrupted own nothing),
and, per lock, `LockInv` (the lock word, `lk->cpu` and the callers' view agree, step by step
through lock and unlock). The proof has a step per action and under it one per conjunct; TLC
checks `IInv` as an invariant of run `spinlock`.

`PmmProofs` proves about `Pmm`, for every set of callers, every set of sizes and every heap:

| theorem | says |
|---|---|
| `TypeCorrect` | types |
| `Invariance` | `IInv` always holds |
| `BlocksInHeap` | every block lies in the heap until a call finds it too small |
| `NothingGivenAgain` | a block is disjoint from all that had been returned when its call took the lock |

The assumption is `PmmAssumption` (sizes are positive, the heap's bounds are naturals in order).
Neither property is inductive: a block is only made by `Return`, from an `estart` others have moved.
`CallInv` says of every call behind its unlock that what it would return now begins behind all that
was returned when it took the lock (others only move it up), `BlockInv` the same of the blocks in the
history, and `HeapInv` bounds `estart`.

`SemaphoreProofs` proves about `Semaphore`, for every finite set of tasks, every size of the ring and every
initial value:

| theorem | says |
|---|---|
| `TypeCorrect`, `Invariance` | types; `IInv` always holds |
| `RingHoldsWaiters` | the ring has no hole, and its tasks are the suspended ones, once each |
| `PanicsMeanFull` | `semwait` panics only when others fill all `NTHREAD` slots, `semsignal` never |
| `NoWakeupLost` | while somebody sleeps, every unit has a woken task that will look at it |
| `QueueIsFifo` | a step puts one waiter at the back, takes the first one out, or leaves the queue alone |
| `ImplementsSemSpec` | every step is a step of `SemSpec` or leaves it alone |

The assumption is `SemaphoreAssumption` (finitely many tasks, NULL none of them, a ring of at least one slot).
The properties look at the ring from both ends, so they are not inductive: that `semsignal` wakes a
sleeping task depends on `wl[wlleft]` being one. `RingInv(n)` says that the slots in use are the *n*
that begin at `wlleft` and end before `wlright`, across the end of the array, `NoTwice` that no task is in two of
them, and `WaiterInv` ties slots, statuses and the place in `semwait` together, with the gap between unlock and
yield in which a task is suspended and still on its CPU.

`KmtProofs` proves about `Kmt`, for every number of CPUs, shells and semaphores:

| theorem | says |
|---|---|
| `TypeCorrect`, `Invariance` | types; `IInv` always holds |
| `NeverPanics` | the asserts of `kmt_context_switch` hold |
| `ResumesRight` | a CPU in task code is where that task had got to |
| `RunningOnCpu` | code runs for a RUNNING task or one in `semwait`'s gap; a RUNNING task is on a CPU |
| `StacksApart` | no two CPUs use one stack, nor one that another is about to resume |
| `NoWakeupLost` | suspended tasks are in the ring they wait in, once; units have awake takers, over all CPUs |
| `KbdSemCounts` | `sem_kbdirq` counts as `SemSpec`'s safe part says, through interrupts and switches |

The assumption is `KmtAssumption` (at least one CPU, NULL is no number, semaphore or name of an
event). The strengthening has these parts. `BootInv`: the handler list is a beginning of the sorted one while boot
makes it, and whole before the first task is created. `ListInv`: task *t* is in the list of CPU
(*t* - 1) mod `NCPU`, in that list only, and zombies are numbered in
a row, so each list gets exactly one of them. `WalkInv`: the mode of a CPU in a trap says
which places of the list are left, so nothing is switched before it is saved. `ScanInv`: while a CPU scans, the
zombie of its list is still ahead, as far as the loop has turns left; with zombies never suspended that is
why `findcnt` cannot run out with nobody READY, though other CPUs change statuses during the scan. `CurInv` and
`TaskInv`: what `current_tasks[]`, the stacks, statuses and contexts say of a CPU and of a task, by the mode
of the CPU. `RingInv` and `UnitsInv` are `NoLostWakeup` for all semaphores at once, `KbdInv` says where a
keyboard interrupt is between the pin and `semsignal`.

`InputProofs` proves about `Input`, for every keyboard layout, any number of codes and readers and every size of
the ring:

| theorem | says |
|---|---|
| `TypeCorrect`, `Invariance` | types; `IInv` always holds |
| `ReadersFindEvents` | a reader let in by `event_sem` finds an event |
| `QueueFullMeansFull` | `input_task` gives up only with all slots unread |
| `EventsAreStrokes` | events popped, in the ring and in the task's hands are the strokes of the codes taken so far, in order, with the modifiers that were down |

The assumptions are `InputAssumption` (a ring of at least two slots, modifiers and caps lock are keys of their own) and
`EventAssumption` (NULL is no event). `EventsAsStruck` speaks of the whole sequence, the
code of a flag, a set and a ring. So `FifoInv` says that the controller holds what is left of the codes, `ModInv` that
flag and set are what the codes taken so far make of them, `SemInv` that events in the ring are units plus readers let in
(plus one that is pushed and not yet signalled), and `EventInv` that the *m*-th event is
what the *m*-th stroke meant. A stroke's place is the number of strokes up to it (`Rank`), so no
sequence is built up recursively and no induction is needed.

`LibcoProofs` proves about `Libco`, for every number of slots, every set of names and every length of bodies, under
`InOrder` (without which they fail, see Findings):

| theorem | says |
|---|---|
| `Invariance` | `IInv` always holds |
| `ReturnsToLiveCall` | a coroutine that resumes main resumes a call that has not returned |
| `CurrentRuns` | `current` and the states name who runs |
| `ImplementsCoSpec` | `co_wait` returns when the coroutine of that name has finished and only then, `co_start` fails only with all slots taken: each step is a step of `CoSpec` or leaves it alone |

The assumptions are `LibcoAssumption` and `InOrder`, which has two halves: bodies yield at least once, and no live
coroutine has fewer yields left than the one waited for. That the second half is kept by turns is the point of the
strengthening: `RoundInv` says that a coroutine whose turn in this round is over is ahead
of the awaited one by no more than the round explains. `NameInv` says that the slot `co_wait` finds, the
first of that name, is the living one and not a free slot that kept its name; `MainInv` says whose context lies in
`dual[]` in each phase of `co_start` and `co_wait`. The slot that `co_start` takes and the next
one in turn are least elements of sets; `MinIsLeast` proves that they exist by
well-foundedness of the naturals.

`TtyScreenProofs` proves about `TtyScreen`, for every number of terminals and shells, every screen of two
cells or more, every set of texts and any number of writes and switches:

| theorem | says |
|---|---|
| `TypeCorrect`, `Invariance` | types, with the cursor on the screen; `IInv` always holds |
| `TextStays` | a terminal holds the last lines of what was written to it, the cursor at the end of the text |
| `DisplayCatchesUp` | when nobody writes, the display shows the current terminal |

The assumption is `ScreenAssumption`: a screen of at least one line and one column and of more than one cell (with a
single cell the first character would scroll and the cursor would stay behind the end of `buf`), NULL and the tty task are no
shells, texts are sequences of characters. `TextKept` compares
`buf`, which is scrolled and overwritten, with the whole history `out` laid out on an endless tape. It is
inductive once two things are known of the tape itself: the window that the screen shows begins at a
line and holds the cursor (`TapeGood`), and nothing was ever typed behind that window (`CharBeyond`), so the
line that comes into view when it scrolls is blank. `Tape` is a
recursive function; that it exists and where it lies after each character is proved by looking at the
shortest text for which it fails. `DisplayInv` is what makes the display catch up: a cell that does not
show the current terminal is one that somebody is about to draw. A
switch breaks that for all cells at once, at the step in which `tty_task` owes a drawing of all of them.

`VfsProofs` proves about `Vfs`, for every set of names and paths, every number of inodes, descriptors and
entries per directory, and for any sequence of commands until one spoils the disk (`intact`):

| theorem | says |
|---|---|
| `TypeCorrect`, `Invariance` | types; `IInv` always holds |
| `LinksAgree` | what an inode's `refcnt` says and how many entries name it agree; a directory has one name |
| `MountPoints` | the directory of a file system is there only while it is mounted, and is empty |
| `NothingLost` | a step leaves an inode in use without a name only with some directory full |
| `ImplementsFsSpec` | what can be seen of the file system is the tree of `FsSpec` (`RefinesFs`) |

The assumptions are `VfsAssumption` (inodes and entries enough for the root and the mount points of
`vfsinit`, NULL is no number, name or command, paths that are not `/`, which the actions treat apart).
The theorems have no other hypothesis: what the four commands of `Spoilt` do is in the model, and
`LinksCounted`, `MountsShown` and `LostOnlyWhenFull` speak of the states up to such a step.
`LinksCounted` is not inductive, for `vfsunlink` clears the first
entry with the right name, valid or not, and frees the inode by its count. `IInv` adds three things, as long as the disk is `intact`: `Rooted` (what an entry names is in use and is not the root, and only
directories that have a name themselves have entries), `Counted` (the count is the number
of entries less one, a directory has one), and `Distinct` (no name is twice in a directory, and no invalid
entry before it has the same name, so that `vfsunlink` finds the entry of the file). A link over a directory's name would break `Distinct`: that
is where the later damage comes from, and why the run ends with the link and not with the `rm` that does it. `MountsInv` is
`MountsShown` without the paths. The proof has a lemma for each way through `fsgetinode` (`CreateIs`, `RemoveIs`,
`AddEntryIs`, ...) that says which entry and which counts it changes, and shows that every such change
keeps the parts of `Sound` and loses no file. Walks along paths of any length are
functions defined by recursion; as for the tape, they are reasoned about by the shortest path for which a
claim fails. `Init` formats as many mount points as there are; that there are slots and inodes left for each is a
count of the ones taken.

`ImplementsFsSpec` maps a state to the tree that its paths lead to, and shows that each command does a step of
`FsSpec` or leaves the tree as it is. `TreeInv` strengthens `IInv` for it: every name is at the end of one
of the paths (`Reached`), and only files, and inodes that a full directory lost, have text (`TextsOf`). Since a
directory has one name, a path leads to at most one entry and no two paths lead to the same one (`LeadsOnce`,
`WalkOnce`). What is then to be shown for the tree as a whole is shown for one entry: `Grown(b, c, d, s)`
says that `c` is `b` with an entry more, at slot `s` of `d`, which forwards is what `mkdir`, `touch`, `echo` and `link` do and
backwards what `rmdir` and `rm` do, and the tree of `c` has exactly the one path more
(`GrownDir`, `GrownFile`). An entry that is taken out must be of an empty directory or of a file, which is what
`Removable` and the file test of `fslookup` give. `FsSpec` has `intact` as well: from a step that spoils the disk on it promises
nothing of the tree.

The `IInv`s of `Semaphore`, `Kmt`, `Input`, `Libco`, `TtyScreen` and `Vfs` are in no run, since the theorems say more. TLC agrees with
them on small instances (`INVARIANTS IInv` in the cfg): `Semaphore` with rings of 2 and 3, `Kmt` with
(`NCPU`, `NSHELL`, `MaxValue`) = (2, 1, 1), (1, 2, 2), (3, 0, 1), (2, 2, 1) and (1, 0, 1), `Input` as in its run, `Libco`
with 3 slots and 3 yields and with 4 and 2, `TtyScreen` and `Vfs` (its `TreeInv` too) as in their runs.

**Only model-checked.** Liveness under fairness, which the prover does not do: the refinements above are proved for the
safe part of `SemSpec` and `CoSpec`, and their fairness stays with the
runs, like `ReadyRuns` and `EveryStrokeRead`. One refinement is not proved at all: `RefinesLineSpec`,
because `LineSpec` sums over the lines in the ring and that sum is defined by recursion over data. `TtyLine` has no proofs yet (`LinesCounted`
is model-checked). `PutsSurvive` and `FileIsChain` of `Kvdb` are model-checked only: the module uses recursive operators,
and the prover loses its arithmetic in a module that declares one.

## 5. What is not modelled, and why

* **Power failure** in libkvdb (writes since the last `fsync` lost in any selection), empty values,
  at which recovery stops, and refused puts.
* **Several shells in the file system at once.** Nothing excludes them, so between any read and
  write of the ram disk another shell may write; `Vfs` speaks of one. Also without a module:
  `ls`, `cd` and `cat` to the terminal, file sizes and offsets (`vfsread`, `vfswrite` and `vfslseek`
  serve the shells' ttys), files created in `/proc`; names longer than their fields; paths with empty names (`//dev/x`, which passes the test for
  `/dev` and is then looked up as it is spelled); and what the shells make of a spoilt disk.
* **Task bodies** other than what they do with semaphores; stacks' contents, `kmt_teardown` (nobody
  calls it), the stack fences.
* **The 32-bit width of counters** (`tidcnt`, `value`): bounded by the model.
* **Textures, fonts and the raw texture write** of the frame buffer.
* **Stubs**: `inodeops.c` returns TODO. **Pure data**: ram disk, device table.
* **The abstract machine** beyond trap entry and exit: it is a given of the course.
* **Calls of `co_start` and `co_wait` from inside a coroutine**, which `libco`'s tests do not make (`co_wait`
  would free the slot without waiting). The free-list allocator of `alloc.c` is compiled out.
* **The first trap of a CPU**, when `cur_task` is NULL and its status is whatever lies at the address of
  the field: taken as no task status. An error event only prints and panics.
* **User tools and the game**: sequential programs dominated by parsing and I/O.

## 6. Plan

Built so far, most important first: locks, scheduler and semaphores, keyboard and tty, the store,
the file system, the allocator and the coroutines. What is left, in this order:

1. **The file system under several shells.** Split the vfs calls of `Vfs` into their reads and
   writes of the ram disk, two shells, and `vfslock` as a constant: with the lock the calls must
   refine the ones of `Vfs`, without it `LinksCounted` shows what is lost.
2. **Proofs**: `LinesCounted` of `TtyLine` (the ends of lines in the ring against the semaphore and the readers
it let in).
3. **Power failure** in `Kvdb`: a file's unsynced writes as a set of which any part survives.
