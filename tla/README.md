# skhuOS: TLA+ models, model checking and proofs

skhuOS is a 64-bit teaching kernel for one x86 core (QEMU): preemptive
round-robin processes, a mutex, a keyboard and an ATA disk driver, a small FAT
file system, a shell, and a ring 3 demonstration. This directory holds TLA+
models of the kernel and of the way it is booted, the TLC runs that check them on
small instances, and TLAPS proofs that every safety property and refinement the
passing runs check holds for every size of the tables, the screen and the texts.
Paths below are relative to the repository root.

## 1. The system

| Part | State | Operations | Talks to |
| --- | --- | --- | --- |
| Scheduler, `kernel/proc/Process.c` | ready list, sleep list, running process, PCB states, process table, `pidCountIdx`, exit queue, `tickCount`, TSS.rsp0, U/S bits | create (kernel, ring 3), exit, sleep, yield, block, wake, timer interrupt, collector, idle | everything that waits |
| Mutex, `kernel/proc/Sync.c` | owner, depth, wait list | acquire, release with direct hand-off | scheduler |
| Linked list, `kernel/lib/LinkedList.c` | head, tail, count, one `next` per PCB | insert, remove by id, remove head | ready, sleep and wait lists share the node |
| Ring queue, `kernel/lib/Queue.c` | front, rear, buffer | enQueue, deQueue | exit queue, key queue |
| Keyboard, `kernel/drivers/Keyboard.c` | key queue, waiter, shift | interrupt handler, getKey | scheduler; shell and editor read |
| Disk, `kernel/drivers/Disk.c` | mutex, interrupt flag, waiter | readSector, writeSector, interrupt handler | mutex, scheduler, stopwatch; FAT calls it |
| PIT, `kernel/drivers/PIT.c` | reload value, stopwatch | start, elapsed | polling loops of the disk driver |
| File system, `kernel/fs/FAT.c` | link table and directory on disk, `bestIdx`, `bestRootDirIdx`, `isMounted` | format, mount, create, delete, read, write | disk; shell and editor call it |
| Interrupt entry, `kernel/arch/` | the processor's registers, the context in each PCB, one IST stack, kernel stacks, handler table, in-service bits of the PICs | accept, dispatch, EOI, exceptions, the two kinds of context switch | all handlers, scheduler |
| System calls, `kernel/syscall/` | none | getpid, writeXY, sleep, exit, unknown number | scheduler, console |
| Console, `common/Print.c` | characters on the screen, cursor | print, new line, scroll, backspace, direct write, clear, save, restore | written by shell, editor, demo processes and handlers |
| Shell, `kernel/shell/Shell.c` | command line | keys, commands | keyboard, all of the above |
| Editor, `kernel/shell/editor.c` | text buffer, where its text ends, the line after ESC | keys in two modes, open, save, quit | keyboard, console, file system |
| Boot chain: image maker, boot sector, loader, `clearBss` | disk image, BootInfo, memory, page tables | run once, in this order | each reads what the one before it left |

What is hard here. There is one core, so all concurrency is preemption: a
process can be interrupted between any two instructions that run with IF=1, and
kernel functions protect themselves by clearing IF. The interesting places are
those where a function tests a condition with IF=0 and then *switches away*: it
continues, still with IF=0, in a world that other processes have changed. Then:
a PCB has a single link node for three kinds of lists; a waiter pointer and a
flag are shared with an interrupt handler; a timeout races with a late answer;
slots and clusters are reused; queues have limits. All interrupts and exceptions
save registers on one stack, a blocking system call on another, and a switch can be
made from either; everything that prints shares one cursor; the kernel is copied
over the page tables that map it.

What makes the parts correct. Scheduler: no PCB on two lists, no process lost, no
slot reused while something refers to the old process, idle only when nothing is
ready, no wakeup lost. Mutex: whoever returns from acquireLock owns it, in FIFO
order. Drivers: no interrupt lost between test and block, answers go to the call
they belong to, every wait ends. File system: a cluster has one owner, what was
saved is read. Interrupt entry: a program cannot tell that it was interrupted, every
handled line is acknowledged, a fault in ring 3 ends one process. Editor and shell:
what is saved or executed is what was typed, and what the screen shows. Boot: Main
finds an intact, mapped kernel with a cleared .bss. `PROJECT.json` lists each hazard with its line and its properties.

## 2. Modules

| Module | Models | How |
| --- | --- | --- |
| `Lists` | what LinkedList.c computes | lists as sequences of pids |
| `ListSpec`, `LinkedList` | LinkedList.c with its pointers | `LinkedList` implements `ListSpec` by the walk along `next` |
| `BoundedQueue`, `RingQueue` | Queue.c | the ring implements a FIFO of LEN-1 items |
| `Process` | the functions of Process.c | operators from scheduler record to scheduler record, named as in C |
| `Sync` | the Mutex structure | hand-off as an operator |
| `Scheduler` | Process.c and Sync.c as a state machine, with the waits of Disk.c and Keyboard.c | one action per call and per handler; the disk and the keyboard interrupt wake the process registered with them |
| `Keyboard` | Keyboard.c over `Process` | handler, getKey, user and worker processes |
| `Disk` | Disk.c over `Sync` | two callers, the drive, both interrupts |
| `Stopwatch` | PIT.c and the polling loops | counter, reloads, preemption |
| `FAT` | FAT.c | directory and link table; a function is one step, or one that stops between its disk commands because the power is lost or format fails; any formatted disk mounts |
| `PrivateCPUs`, `Trap` | arch/, syscall/ and the switching functions, over `Process` | where each program's registers are at every moment; `Trap` implements `PrivateCPUs`, in which every program has a processor of its own |
| `Console` | Print.c | operators from screen to screen, named as in C |
| `TextEditor`, `Terminal` | Shell.c and editor.c over `Console` | one action per key; output of other processes between keys; `Terminal` implements `TextEditor` |
| `Boot` | ImageMaker.c, BootLoader.asm, the loader, clearBss | memory as a function of addresses, the screen among them, one action per stage and per sector read |
| `ListProofs`, `ProcessProofs` | `Lists`, `Process` | lemmas on what each operator does |
| `SchedulerProofs`, `DiskProofs`, `KeyboardProofs`, `TrapProofs`, `FATProofs` | the module of that name | inductive invariant, theorems |
| `UnitProofs` | `RingQueue`, `Stopwatch`, `Boot`, `LinkedList`, `Terminal` | theorems about the small components, the editor's text and the screen |
| `MC*` | | instances for TLC; `MCUnits` joins the four modules that share no state |

`Scheduler`, `Keyboard`, `Disk` and `Trap` compose the same operators of `Process`
and `Sync`, the way the C files call the same functions; `Scheduler` adds the process
life cycle, `Keyboard` and `Disk` the devices, `Trap` what a switch does to registers.
Who may wake a sleeper is in `Scheduler` as well: waitInterrupt registers the caller
(`waiter`) and sleeps until its deadline, and `deviceInterrupt` calls
wakeupProcessInInterrupt for it, at any moment, also when its deadline has woken it.
The endless loop of createProcess is there with its rounds: `tries` are those that
find a free slot, `slotAfter` the index after each.

**Steps.** A chain of calls that runs with IF=0 is one action, up to the point
where it switches context. `at[p]` records in which function a process was
switched away; `resume`, `getKeyWoken`, `waitInterruptWoken` are what follows
behind the switch. The timer handler of `Scheduler` is split into one step per
node of the sleep list, because the loop unlinks nodes under itself. In `Disk` a
process with IF=1 executes its next instruction only when no disk interrupt is
pending, since the CPU takes it first. In `Trap` acceptance of an interrupt (registers
to the IST) and its handler (with the exchange of IST frame and PCB, and the return)
are two steps. A key is one step of `Terminal`, a function of Print.c is never
interrupted there.

**Time.** `wakeupTick` is kept as ticks to go, which is all the comparison with
`tickCount` tells apart; `ticksOf` keeps the wrap of the QWORD sum.

**Data.** In `Scheduler` a switch is the change of `runningProcess`, a user stack is
the pid whose pages are open; in `Disk` a sector is the command and number it was
moved for; in `FAT` a text is a value, names are values and of a long name only a
common stored form remains. In `Trap` a register context is its owner, ring, one
register and whether it is inside a kernel function; a context that was loaded is
erased at its old place, so that loading it twice would show. In `Terminal` texts are
sequences of characters, since cursor and index arithmetic is what it is about, and
output of others is one character `o`; the messages are long enough to fill up the
new lines before them. In `Boot` a cell holds the file and offset it was copied from,
and page table entries take one cell each. `Disk` and `Keyboard` start with the
ready processes in any order.

**Definitions named as mutants** change one definition the way a slip in the code
would; each property of a passing run is violated under one of them, which shows
that it depends on the code. They are used by nothing else.

## 3. Runs

| Run | Instance | Shows |
| --- | --- | --- |
| `scheduler` | 5 slots (3 residents, 2 free), exit queue of 1, sleep 0, 7 and 62 ms (0 and 2 ticks, and a sum that wraps at 64), disk waits of a tick, re-entry 2, kernel and ring 3 processes, disk and keyboard interrupts at any moment, table full reachable | lists, slots, mutex, trap stack and user pages; `WokenInTurn`, who wakes a sleeper; `HangMeansFull`, `SleepsLongEnough`; the inductive invariant `SchedInv` |
| `scheduler_live` | 5 slots, exit queue of 3, below the table size | `ReadyRuns`, `SleeperReturns`, `WaiterGetsLock`, `ExitReclaimed` |
| `scheduler_leak` | exit queue of 1, two exits before the collector's turn | **violated**: `ExitedIsQueued` |
| `units` | 2 lists with 4 shared nodes; a ring of 4 slots and 3 values; reload 5, limit 13, up to 3 slices off the CPU; loader of 1..4 and kernel of 1..5 cells, .bss of 0, 1 or 3, sectors of 2, the largest image ends at the screen, kernel area inside the page tables | `ChainOK` and `ImplementsLists`; `ImplementsQueue`; `WholePeriodsLost`; `KernelReady` |
| `keyboard` | one worker, queue of 2, 3 keystrokes of 9 kinds | `NoMissedKey`, `KeysInOrder`, `KeysAreRead` |
| `disk` | 2 callers, reads and writes of 1 and 2 sectors, timeout of 2 ticks, a drive that takes or ignores a command while DRQ is set | `OneAtATheDrive`, `NoMissedInterrupt`, `AnswerSignalled`, `OwnSectors` |
| `disk_live` | 2 callers, reads and writes of 1 sector, timeout of 1 tick | `CallReturns` |
| `disk_late` | 2 callers, 2 sectors, timeout of 1 tick, the same drive | **violated**: `ReportedSectorsOwn` |
| `fat` | 2 table sectors of 3 links for 3 clusters, 2 entries, 3 names, mount of any formatted disk, restarts, power lost in touch, rm, save and format, a format that fails | `FilesDisjoint`, `FilesLinked`, `SavedIsRead` |
| `fat_remount` | 3 sectors of 4 links, 3 entries, mount of any formatted disk, no faults | **violated**: `NoSharedCluster` |
| `trap` | shell, collector, idle and one process created for ring 0 or 3; timer, keyboard, both disk lines and an unhandled line 12; exceptions 0 to 20; key queue of 1; sleep of one tick | `Acknowledged`, `RingThreeCannotHalt`, `ContextsPrivate`, `KeyReachesShell` |
| `terminal` | screen of 2 lines of 2 columns, one letter, lines of 2, buffer of 8, an old text in the cluster or none, saved text up to 3, 2 commands, 1 output of others | `VisibleIsExecuted`, `EditorShowsText`, `ImplementsEditor` |

Why the bounds are enough. Five slots give, besides the shell, two processes that
contend, sleep and exit together, and the reuse of a slot; three contenders for
the mutex are needed for barging and are there. An exit queue of one entry makes
the full queue an everyday case. Two list nodes beyond head and tail reach every
branch of removeList. Two sectors reach the second round of the transfer loops and
a failure in the middle; two ticks separate a wait that was woken early from one
that timed out. Two table sectors reach the carry of `bestIdx` into the next one, and
with two entries and three links a sector is full while the directory is not. Half of
the links have no cluster: format takes sectors for clusters (FAT.c:57), so that the
code's table has eight times more links than the disk has clusters, and what is
written behind the disk is lost. The VIEW of `fat`, `TextsMatter`, leaves the texts out
of an `unsafe` state, where no property looks at them; only format leads back, and a
file that is touched then has size 0 until it is saved.
One created process is enough in `trap`: with it three contexts are saved in different
ways (PCB of an interrupted program, kernel stack behind TSS.rsp0, stack of a kernel
thread) while a fourth runs, and its slot is reused for either ring. Line 12 is on the
slave PIC and stays in service, with priority over the disk's lines 14 and 15. A screen of
four cells scrolls after a few keys; a text of seven characters, the longest the buffer
holds, is nearly twice as long and ends in the middle of a line, as the code's does (4095
characters, lines of 80).
The sizes in `Boot` give files of less than, exactly and more than whole sectors and
a .bss that begins in the padding of the last one.
`CreateLimit`, `MaxReentry`, `MaxStrokes`, `MaxSlices`, `MaxReal`, `MaxKeys`, `MaxLine`,
`MaxState`, `MaxSaved`, `MaxCommands` and `MaxOther` bound what is unbounded, or much
larger, in the code. A search of `FAT` that leaves the table is a step of its own
(`createFileFull`, `createFileBehindTable`); after the second, which writes behind the
table, the disk is `lost` and not followed any further until it is formatted; `bestIdx`
is bounded by the end of the table.

Deadlock is checked except where the model may stop: a wait that has timed out and a
booted or failed machine (`units`), a file system no command changes any more (`fat`),
and a terminal with its bounds used up (`terminal`).

**Fairness.** The PIC keeps a request until IF is 1 again, so an interrupt that is
enabled again and again is taken (strong fairness of handlers). Code that runs
with IF=0 runs to its end (weak fairness of handler loops and of the return behind
a switch). A process that is dispatched again and again executes its next
instruction, because a slice is 5 ms long (strong fairness of the collector's
steps, of a call inside Disk.c, of getKey by the shell's endless loop). An owner of the
mutex comes to its last releaseLock: only Disk.c uses a mutex, and every path there
releases. Nothing is assumed of the drive, which may never answer, nor of other
processes, which may compute for ever. The keyboard completes an extended code. In
`Trap` only the timer is fair, with handlers, returns behind a switch and the
collector: that is what `KeyReachesShell` needs, whatever ring 3 programs do.

**Findings.**

* `scheduler_leak`: exitProcess ignores that enQueue can refuse (Process.c:84). With
  99 exited processes queued, the next pid is dropped and its slot is never returned.
* `disk_late`: sendDiskCommand waits for BSY, not for DRQ (Disk.c:129). After a write
  that timed out, a drive that ignores commands in DRQ, as QEMU's does, takes the
  data of the next write for the old sectors, and writeSector reports success. In `disk`
  the drive may do the same at any time; `OwnSectors` holds there for every call whose
  command was taken, before and after calls whose command was ignored.
* `fat_remount`: findFreeClusterAndUpdate (FAT.c:87) tests links from the start of a
  sector but counts from `bestIdx`. On a freshly formatted and mounted disk this only
  skips clusters; after mounting a disk with files it returns clusters in use.

Other behaviour that the models exhibit and no run states as a property: `rm` with
no name matches an unused entry and clears the link of cluster 0 (FAT.c:168), so that the
first file created after the next mount gets cluster 0, an entry that counts as free
at once; a new file shows the text its cluster held before, because runEditor stops at the
first NUL and not at the file size (FAT.c:153), and saving it without a key makes that
text its own (`Terminal` opens such a file); a name longer than 23 characters is stored
cut and compared uncut, so it can be created twice (FAT.c:134); the stopwatch does
not count ticks during which the poller was preempted, so a polling wait can outlast
500 ms (PIT.c:41). Further:

* A reset in the middle: touch and save leave a consistent disk (at worst a marked
  cluster that no file owns, or a new text with the old size), because createFile
  writes the link before the entry. deleteFile has the opposite order (FAT.c:169), and
  format writes the signature first (FAT.c:69): a stop there leaves files in free
  clusters on a disk that mounts. `unsafe` records this, as it does a second file created
  after mounting a disk with files, and a search that leaves the table; the properties of
  `fat` hold again from the next format on.
* Slots: setUpProcess gives InitializeMemory a size where it takes an end address, so
  nothing is cleared (Process.c:127) and a new process has the register contents of
  its slot's last one, except the ones that are set. `page[KERNEL_SIZE + pid*2]` of the
  kernel counts `KERNEL_SIZE` in another unit than the loader and opens a page nobody
  uses.
* Sleeping: `ms + SLOT_TIME - 1` wraps for the largest arguments, which then sleep
  hardly at all (Process.c:61). `SleepsLongEnough` states the guarantee below that.
* Interrupts: a line without a handler is never acknowledged (HandlerImp.c), so it
  holds back itself and all lines of lower priority from then on; line 12 would stop
  the disk's interrupts, and disk calls would end by timeout.
* Editor: ESC ESC shows the second ESC as a character and the cursor is one ahead of the
  text from there on; two new lines below the screen lose the first character behind
  them, because viewCharacter scrolls by one line only; erasing back over a scroll
  moves the cursor above the screen, where C's remainder is negative (Print.c:10), so
  that ENTER moves it to the next line but one and the screen no longer shows the text
  in its columns; the ESC line overwrites the last line of text; a
  text longer than `MAX_LENGTH` is shown in part. A failing readFile's message is
  overwritten at once by loadVideoMemory.
* writeXY passes any character to viewCharacterXY (Syscall.c:22), also a backspace, which
  erases the cell before it *and* moves the cursor to it: a ring 3 program can move the
  shell's cursor, and what is typed from there on is not in line with the prompt.
  `disturbed` covers it, like other output in the middle of a line.
* Boot: nothing checks that the image stays below the screen at 0xB8000, where messages
  would overwrite it, or that its sectors fit 16 bits (`BootAssumption` states what is
  relied on).

## 4. Proofs

Every theorem holds for all values of the constants that the `ASSUME`s of its modules
admit: any number of processes, sectors, entries, slots and nodes, and any bound of
the model. `PROJECT.json` lists the theorems with the property each one states. No
theorem has a hypothesis beyond these assumptions. Where the code does not keep a
promise, the property itself says for which calls, files or moments it is kept:

* `AnswerSignalled` and `OwnSectors` speak of the calls whose command the drive took. A
  drive may ignore the command of one call and take those of all others, in any
  order, and what the ignored one leaves in the drive is part of the model.
* `FilesDisjoint`, `FilesLinked` and `SavedIsRead` speak of disks that are not `unsafe`.
  Three events make a disk unsafe: a deletion that is cut short between link and entry, a
  format that stops before the directory is empty, and, behind a mount of a disk with
  files, a second file or a search that leaves the table. The first file after such a
  mount is safe (`FirstSearchIsExact`), and saving and deleting are.
* `SavedIsRead` leaves out the stored form of a long name, which is never found again, so
  that two entries can have it, and files whose cluster is behind the end of the disk.

Four assumptions on constants carry weight. `BootAssumption` says where the parts of the
image may end. `OldTextAssumption` says that every cluster has a NUL, as each one that
the editor has written does: without one, strlen of runEditor leaves the buffer.
`ConsoleAssumption` wants two columns and
two lines (80 and 25 in the code): with one column, one round of viewCharacter would
gain nothing on a cursor below the screen. `OutputAssumption` says that commands print
neither nothing nor empty lines, which is what the commands of Shell.c do: after two
new lines in a row the prompt can end below the screen, and `VisibleIsExecuted` fails.

**Scheduler.** `SchedInv` is the inductive invariant. The properties are not
inductive on their own: that no PCB is linked twice, for instance, needs to know that
a process that runs is on no list, which needs to know which states and program points
put a process on which list. `SchedInv` says this for every pid (`Placed`: on a list
*exactly when* table, state and program point say so), that states and points agree
(`PointsOK`), where the three resident processes can be (`Residents`), where the
loop of wakeExpiredProcess stands (`LoopOK`), who can own the mutex (`MutexOK`), and that
a device knows exactly the process that waits for it (`WaitersOK`). Its deadline may have
woken that process already when the interrupt comes; wakeupProcessInInterrupt leaves a
process that is not BLOCKED alone.
The argument has three layers: `ListProofs` (what insert, remove and head removal do
to a list without repetitions), `ProcessProofs` (the effect of each function on each
field of the scheduler record), and one lemma per action in `SchedulerProofs`. Then

* `SchedulerInvariant`: `Spec => []SchedInv`, and from it `TypeCorrect`,
  `OneHomeAlways`, `NoProcessLostEver`, `ListsHoldLiveAlways`, `SchedulerSafety`
  (idle, collector, rsp0), `UserPagesOwnedAlways`, `AllExpiredWokenAlways`,
  `LockHandedOverAlways`, `SlotInTableAlways`;
* action properties from the same invariant: `NoBargingEver`, `SlotLifeCycleKept`,
  `WokenInTurnAlways`, `SleepsLongEnoughAlways`. The last rests on `TicksCover`:
  rounding up covers the time asked for whenever `ms + SLOT_TIME <= QWORD_RANGE`;
* `HangMeansFullAlways`, by a second induction on top of `SchedInv`: createProcess gets
  into its endless loop only when every slot is taken, and the table stays full then. That
  the rounds of its search reach the whole table from any start is `SearchIsComplete`;
  `WokenInTurnAlways` says of a sleeper that either the timer loop took it, at its time, or
  a device interrupt did that it had registered for.

`SlotInTableAlways` shows what the code relies on silently: createProcess tests
`pidCountIdx % PROCESS_MAXCOUNT` but uses `pidCountIdx`, and the out-of-range index
is never used only because slot 0, the shell, is never given back.

**What the drivers and the interrupt entry share.** `Consistent(s, Q)` of
`ProcessProofs` says that the scheduler record holds the processes Q: lists without
repetitions and apart, READY, BLOCKED and RUNNING where they should be, idle only beside
an empty ready list. Each operator of `Process` keeps it. The timer handler of these
modules runs the whole loop of wakeExpiredProcess in one step, a recursive function.
`LoopIsRounds` shows that it is the last of the rounds, and an induction over the
rounds that it wakes exactly the sleepers whose time has come.
The provers cannot instantiate an induction theorem with an operator, so the induction
is stated on the *set* of the rounds for which the claim holds (`NatInductionOnSets`,
from the well-foundedness of the naturals); the walk along a linked list uses it, too.

**Disk.** `DriverInv` holds for every drive: diskMutex has one holder and its wait list
is exactly the callers blocked for it (`LockInv`); who is blocked in waitInterrupt
is the registered waiter, sleeps and was not signalled (`BlockInv`). For the data,
`DiskInv` adds where caller and drive stand to each other at each program point:
the drive serves this call and has moved as many sectors (`MovedInv`, `Serves`), and no
interrupt of an earlier command is left when the flag is cleared (`DriveInv`). An ignored
command leaves the drive with the old one; the invariant then speaks of neither the
flag nor the data until that call has returned, and the next command that the drive
takes ends the old one.

**Keyboard.** `ReaderInv`: a blocked shell is the registered waiter of an empty queue.
`StreamInv`: what is still due to getKey is the queue, followed by what the handler
will make of the bytes on the wire from its present state. The specification
decodes by a fold; the proof says the same by the existence of the decoder states
between the bytes (`Trace`, `Decodes`), which can be extended at either end.

**Interrupt entry.** `TrapInv`: the scheduler is consistent and schedules live
processes only; every live process has one context, where `Saved` says, and inside
a kernel function its caller's registers are on its own stack (`ContextInv`); in service
are lines without a handler, and the line being handled, over which no other has priority
(`ServiceInv`). It gives `AcknowledgedAlways`, `RingThreeCannotHaltAlways`
and the refinement `TrapImplementsPrivateCPUs`, one step of `Trap` at a time.

**File system.** findFreeClusterAndUpdate may return a cluster in use. `FilesInv` says
why that does no harm while a disk mounted without files is used: every file lies in
front of `bestIdx`, behind which the result always is. On a disk mounted with files only
the first search is exact, since `bestIdx` then stands at the start of a sector
(`FirstSearchIsExact`); its cluster is free, and every file's is marked. `NamesInv` adds that a name has one
entry and that a file with a size holds what was last saved under its name.

**Small components** (`UnitProofs`). `RingQueueImplements` is arithmetic of indices
modulo LEN. `WatchInv`: the time the poller has lost is a whole number of reload
periods, plus what its next poll will add. `BootInv`: what each stage leaves to the next;
it is here that `BootAssumption` is used. `ListInv`: head, tail, count and next hold the
lists their walks visit; each pointer operation on one list then changes that list
as the operator of `Lists` does, and no next field that another list uses
(`Appends`, `Unlinks`). So the lists the scheduler proofs are about are the ones the
pointer code has (`LinkedListImplements`), and `ChainOKAlways`. `TextInv`: strIdx is where
the text in the buffer ends, also when the file was opened with a text its size does not
count; with it each key is one operation of `TextEditor` (`EditorImplements`), which has the
file with its size and text, and opens what the cluster holds.

**Screen.** `VisibleIsExecutedAlways` and `EditorShowsTextAlways` rest on `ScreenInv`.
Neither property is inductive, for three reasons. The cursor may be anywhere: erasing
takes it above the screen, new lines below it, and `TypeOK` therefore leaves it an
integer. But in the shell it is at most `End`, and the cursor `loadVideoMemory` brings back is
at most a line further, and from there the four characters of the prompt,
each of which scrolls by one line, bring it back to the screen (`PromptFacts`).
Second, a new line writes nothing while the buffer gets spaces, so the editor shows its
text only because the cells behind the cursor are blank (`Blank`, kept by
`ShowsKey`, `ShowsErased` and `ShowsBroken`). Third, what is out of sight matters:
erasing over a scroll leaves cells that show nothing, above the screen, and `Seen`
speaks of the cells of the screen only. printString and the loop of the editor over an
opened text are recursive functions in `Console` and `Terminal`; `PrintIsRounds`
shows that the last round is what the function returns, and `Printing` and `ViewFacts`
are inductions over the rounds, stated on a set like the one above.

**Only model-checked.** The liveness properties (`ReadyRuns`, `SleeperReturns`,
`WaiterGetsLock`, `ExitReclaimed`, `KeysAreRead`, `CallReturns`, `KeyReachesShell`),
since the prover has no rule for fairness; and the three runs that expect a violation,
which are counterexamples. That the mutants break their properties is TLC's answer as well.

## 5. Not modelled, and the plan

Left out for good:

* register contents beyond one, bit layouts of descriptors and the code that switches
  the processor's mode (Entry.s, SwitchIA32Mode): straight-line code, run once;
* the memory bitmap, from which nothing allocates, and the user program, of which only
  the calls it makes matter: ring 3 processes make them in any order;
* which pointers `isUserString` accepts: any string may be refused or written;
* splitting a command line into name and argument, the digits of printInt and printHex,
  colours; a command line longer than 100 bytes, which overwrites the stack;
* preemption inside a function of Print.c; a fault while interrupts are off;
* the secondary disk channel, which has the same code and no caller; IDENTIFY, which
  runs once at boot with interrupts off, and with it the polling branch of waitInterrupt
  (Disk.c:62-71), which nothing else reaches;
* failing sectors in `FAT` other than in format: the results of readSector and writeSector are ignored, and
  after one failed read a stale buffer is written back, so that no property of the
  files is left to state. Of a search that leaves the link table the model has the step and
  what becomes of the search, but not what the write behind the table destroys.

The state Main leaves behind is the initial state of the modules; `Terminal` starts
with an empty screen and a prompt instead of the boot messages, and PCBs, which
lie at 16 MiB where nothing clears memory, are taken to be zero as QEMU leaves them.

What a continuation would take up: a call of Print.c as several steps, so that two
processes that print at once share the cursor in the middle of a scroll; failing
sectors in `FAT` with a promise the code could keep; and a rule for fairness in the
prover, for the liveness properties.
