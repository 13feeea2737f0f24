----------------------------- MODULE Scheduler -----------------------------
(***************************************************************************)
(* The process life cycle of the kernel: kernel/proc/Process.c (ready and  *)
(* sleep lists, process table, exit queue, collector, idle process, timer  *)
(* interrupt) and kernel/proc/Sync.c (a mutex with direct hand-off), with  *)
(* the waits of the disk and keyboard drivers, which block a process until *)
(* their interrupt comes. The devices' data is in Disk and Keyboard.       *)
(*                                                                         *)
(* One core, preemptive: a process runs with IF=1 until it calls into the  *)
(* kernel or the timer interrupts it. A kernel function runs with IF=0 up  *)
(* to the point where it switches to another process, and it continues     *)
(* behind that point, still with IF=0, when the process is dispatched      *)
(* again; `at' records that point. Interrupts are on exactly when the      *)
(* running process is at "run".                                            *)
(***************************************************************************)
EXTENDS Sync, FiniteSets

CONSTANTS EXIT_QUEUE_COUNT,  \* length of exitProcessQueue (it holds one less)
          Millis,            \* the arguments sleepProcess is called with
          WAIT_TICKS,        \* WAIT_TIMEOUT_MS of Disk.c in timer ticks
          MaxReentry,        \* bound: how often the owner re-acquires the mutex
          CreateLimit,       \* bound: processes are created below this many
          Rings,             \* {FALSE} kernel threads only, {TRUE, FALSE} also ring 3
          Watched            \* the pids the liveness properties are checked for

ASSUME SchedulerAssumption ==
    /\ EXIT_QUEUE_COUNT \in Nat /\ EXIT_QUEUE_COUNT >= 2
    /\ Millis \subseteq Nat
    /\ WAIT_TICKS \in Nat
    /\ MaxReentry \in Nat \ {0}
    /\ CreateLimit \in Nat
    /\ Rings \subseteq BOOLEAN
    /\ Watched \subseteq Pids

VARIABLES
    sched,             \* the ProcessScheduler structure (module Process)
    allocProcessTable, \* the pids in use
    pidCountIdx,       \* where createProcess starts to look for a free slot
    exitProcessQueue,  \* pids the collector has to reclaim
    mutex,             \* one Mutex of Sync.c
    at,                \* where each process stands, see above
    user,              \* pids whose context was set up for ring 3
    userAccess,        \* pids whose user stack pages have the U/S bit, and UserCode
    waiter,            \* diskWaiter of Disk.c and keyWaiter of Keyboard.c
    isr,               \* the timer interrupt handler is in wakeExpiredProcess
    cur                \* the node its loop looks at next

vars == <<sched, allocProcessTable, pidCountIdx, exitProcessQueue, mutex, at,
          user, userAccess, waiter, isr, cur>>

Running == sched.runningProcess

(***************************************************************************)
(* "run"   executing with IF=1                                             *)
(* "sleep" in sleepProcess, behind the switch                              *)
(* "lock"  in acquireLock, behind the switch                               *)
(* "yield" in schedule, behind the switch                                  *)
(* "disk"  in waitInterrupt of Disk.c, behind sleepUntilTick               *)
(* "key"   in getKey of Keyboard.c, behind blockRunningProcess             *)
(* "gc"    in garbageProcessCollector, behind blockRunningProcess          *)
(* "hang"  in the endless loop of createProcess, IF=0                      *)
(* "dead"  behind the last switch of exitProcess                           *)
(***************************************************************************)
Points == {"run", "sleep", "lock", "yield", "disk", "key", "gc", "hang", "dead"}

\* The devices a process registers with as the one to wake, each named as the
\* point at which the process waits.
Devices == {"disk", "key"}

\* The user code pages, beside the user stacks of the pids.
UserCode == PROCESS_MAXCOUNT

TypeOK ==
    /\ sched \in SchedType
    /\ allocProcessTable \subseteq Pids
    /\ pidCountIdx \in 0 .. PROCESS_MAXCOUNT
    /\ exitProcessQueue \in Seq(Pids)
    /\ Len(exitProcessQueue) < EXIT_QUEUE_COUNT
    /\ mutex \in [pid : Pids \cup {NULL}, count : Nat, waitList : Seq(Pids)]
    /\ at \in [Pids -> Points]
    /\ user \subseteq Pids
    /\ userAccess \subseteq Pids \cup {UserCode}
    /\ waiter \in [Devices -> Pids \cup {NULL}]
    /\ isr \in BOOLEAN
    /\ cur \in Pids \cup {NULL}

Init ==
    /\ sched = initScheduler
    /\ allocProcessTable = {Shell, Collector, Idle}
    /\ pidCountIdx = 3
    /\ exitProcessQueue = <<>>
    /\ mutex = initMutex
    /\ at = [p \in Pids |-> "run"]
    /\ user = {}
    /\ userAccess = {}
    /\ waiter = [d \in Devices |-> NULL]
    /\ isr = FALSE
    /\ cur = NULL

InterruptsOn == ~isr /\ at[Running] = "run"

-----------------------------------------------------------------------------
(* The timer interrupt. It runs with IF=0 to its end; only its loop over   *)
(* the sleep list is split into one step per node.                         *)

\* tickCount++ and the head of the sleep list is loaded.
TimerInterrupt ==
    /\ InterruptsOn
    /\ sched' = tickCount(sched)
    /\ isr' = TRUE
    /\ cur' = HeadOf(sched.sleepList)
    /\ UNCHANGED <<allocProcessTable, pidCountIdx, exitProcessQueue, mutex, at,
                   user, userAccess, waiter>>

\* Mutant of WakeExpired: cur->next is read after the node was put behind the
\* ready list, where it is NULL.
WakeExpiredStaleNext ==
    /\ isr /\ cur # NULL
    /\ sched' = wakeIfExpired(sched, cur)
    /\ cur' = IF sched.wakeupTick[cur] = 0 THEN NULL ELSE NextOf(sched.sleepList, cur)
    /\ UNCHANGED <<allocProcessTable, pidCountIdx, exitProcessQueue, mutex, at,
                   user, userAccess, waiter, isr>>

\* One round of the loop; next is read before the node can be unlinked.
WakeExpired ==
    /\ isr /\ cur # NULL
    /\ sched' = wakeIfExpired(sched, cur)
    /\ cur' = NextOf(sched.sleepList, cur)
    /\ UNCHANGED <<allocProcessTable, pidCountIdx, exitProcessQueue, mutex, at,
                   user, userAccess, waiter, isr>>

\* The loop is done: timeoutSchedule, and iretq to whoever was chosen.
TimeoutSchedule ==
    /\ isr /\ cur = NULL
    /\ sched' = timeoutSchedule(sched)
    /\ isr' = FALSE
    /\ UNCHANGED <<allocProcessTable, pidCountIdx, exitProcessQueue, mutex, at,
                   user, userAccess, waiter, cur>>

-----------------------------------------------------------------------------
(* The disk and the keyboard interrupt, each with IF=0 to its end.          *)

\* Mutant of deviceInterrupt: the disk interrupt wakes whoever sleeps first.
deviceInterruptWakesFirst(d) ==
    /\ InterruptsOn
    /\ sched' = wakeupProcessInInterrupt(sched,
                    IF d = "disk" THEN HeadOf(sched.sleepList) ELSE waiter[d])
    /\ UNCHANGED <<allocProcessTable, pidCountIdx, exitProcessQueue, mutex, at,
                   user, userAccess, waiter, isr, cur>>

\* Whatever the device has to say, the process registered with it is woken.
deviceInterrupt(d) ==
    /\ InterruptsOn
    /\ sched' = wakeupProcessInInterrupt(sched, waiter[d])
    /\ UNCHANGED <<allocProcessTable, pidCountIdx, exitProcessQueue, mutex, at,
                   user, userAccess, waiter, isr, cur>>

-----------------------------------------------------------------------------
(* Calls made by a process: the shell, kernel threads and, through system  *)
(* calls and exceptions, ring 3 programs.                                  *)

\* p executes its own program, which is neither the collector's nor idle's: any
\* code that runs with interrupts on and calls the kernel.
Client(p) == InterruptsOn /\ p = Running /\ p \notin {Collector, Idle}

KernelClient(p) == Client(p) /\ p \notin user

sleepProcess(p, ms) ==
    /\ Client(p)
    /\ sched' = sleepUntilTick(sched, ticksOf(ms))
    /\ at' = [at EXCEPT ![p] = "sleep"]
    /\ UNCHANGED <<allocProcessTable, pidCountIdx, exitProcessQueue, mutex,
                   user, userAccess, waiter, isr, cur>>

\* schedule() returns at once when nobody is ready.
yield(p) ==
    /\ KernelClient(p)
    /\ sched.processList # <<>>
    /\ sched' = schedule(sched)
    /\ at' = [at EXCEPT ![p] = "yield"]
    /\ UNCHANGED <<allocProcessTable, pidCountIdx, exitProcessQueue, mutex,
                   user, userAccess, waiter, isr, cur>>

acquireFree(p) ==
    /\ mutex.pid = NULL
    /\ mutex' = [mutex EXCEPT !.pid = p, !.count = 1]
    /\ UNCHANGED <<sched, at>>

acquireAgain(p) ==
    /\ mutex.pid = p
    /\ mutex.count < MaxReentry
    /\ mutex' = [mutex EXCEPT !.count = @ + 1]
    /\ UNCHANGED <<sched, at>>

acquireWait(p) ==
    /\ mutex.pid \notin {NULL, p}
    /\ mutex' = [mutex EXCEPT !.waitList = insertList(@, p)]
    /\ sched' = blockRunningProcess(sched)
    /\ at' = [at EXCEPT ![p] = "lock"]

acquireLock(p) ==
    /\ KernelClient(p)
    /\ acquireFree(p) \/ acquireAgain(p) \/ acquireWait(p)
    /\ UNCHANGED <<allocProcessTable, pidCountIdx, exitProcessQueue,
                   user, userAccess, waiter, isr, cur>>

\* A caller that is not the owner changes nothing.
releaseLock(p) ==
    /\ KernelClient(p)
    /\ mutex.pid = p
    /\ IF mutex.count = 1
       THEN /\ mutex' = handOff(mutex)
            /\ sched' = wakeupProcess(sched, HeadOf(mutex.waitList))
       ELSE /\ mutex' = [mutex EXCEPT !.count = @ - 1]
            /\ UNCHANGED sched
    /\ UNCHANGED <<allocProcessTable, pidCountIdx, exitProcessQueue, at,
                   user, userAccess, waiter, isr, cur>>

FreeSlots == Pids \ allocProcessTable

Least(S) == CHOOSE n \in S : \A m \in S : n <= m

\* Mutant of slotAfter: the index is not wrapped around.
slotAfterNoWrap(n) == pidCountIdx + n

\* pidCountIdx after n rounds of the search loop of createProcess.
slotAfter(n) == IF n = 0 THEN pidCountIdx ELSE (pidCountIdx + n) % PROCESS_MAXCOUNT

\* Mutant of tries: the loop gives up one slot too early.
triesTooFew ==
    {n \in 0 .. PROCESS_MAXCOUNT - 2 : slotAfter(n) % PROCESS_MAXCOUNT \in FreeSlots}

\* The rounds in which the loop condition finds a free slot. The loop tests the
\* slot at pidCountIdx modulo the table size; it gives up when tryCount exceeds
\* the table size, which is at the test of round PROCESS_MAXCOUNT.
tries ==
    {n \in 0 .. PROCESS_MAXCOUNT : slotAfter(n) % PROCESS_MAXCOUNT \in FreeSlots}

\* The index the loop stops with. Only the test is taken modulo the table size:
\* pidCountIdx itself can equal it.
findSlot == slotAfter(Least(tries))

\* createProcess, and runUserProgram when ring3: the user code pages and the user
\* stack pages are opened and the segment selectors replaced before interrupts
\* come back. (An image larger than USER_CODE_SIZE is refused with no effect.)
createProcess(p, ring3) ==
    /\ KernelClient(p)
    /\ Cardinality(allocProcessTable) < CreateLimit
    /\ tries # {}
    /\ LET pid == findSlot IN
         /\ sched' = makeReady(sched, pid)
         /\ allocProcessTable' = allocProcessTable \cup {pid}
         /\ pidCountIdx' = pid + 1
         /\ at' = [at EXCEPT ![pid] = "run"]
         /\ user' = IF ring3 THEN user \cup {pid} ELSE user \ {pid}
         /\ userAccess' = IF ring3 THEN userAccess \cup {pid, UserCode} ELSE userAccess
    /\ UNCHANGED <<exitProcessQueue, mutex, waiter, isr, cur>>

\* No round finds a free slot: "Create Process Error!" and an endless loop with IF=0.
createProcessError(p) ==
    /\ KernelClient(p)
    /\ Cardinality(allocProcessTable) < CreateLimit
    /\ tries = {}
    /\ at' = [at EXCEPT ![p] = "hang"]
    /\ pidCountIdx' = slotAfter(PROCESS_MAXCOUNT)
    /\ UNCHANGED <<sched, allocProcessTable, exitProcessQueue, mutex,
                   user, userAccess, waiter, isr, cur>>

hang ==
    /\ at[Running] = "hang"
    /\ UNCHANGED vars

\* enQueue on the exit queue; exitProcess ignores that a full queue refuses.
enQueue(queue, pid) ==
    IF Len(queue) = EXIT_QUEUE_COUNT - 1 THEN queue ELSE Append(queue, pid)

\* Mutant of exitProcess: schedule, which puts the caller back, ends it.
exitProcessYields(p) ==
    /\ Client(p)
    /\ p # Shell
    /\ mutex.pid # p
    /\ exitProcessQueue' = enQueue(exitProcessQueue, p)
    /\ sched' = schedule([wakeupProcess(sched, Collector) EXCEPT !.state[p] = EXITED])
    /\ at' = [at EXCEPT ![p] = "dead"]
    /\ UNCHANGED <<allocProcessTable, pidCountIdx, mutex, user, userAccess,
                   waiter, isr, cur>>

\* Mutant of exitProcess: the collector is not woken.
exitProcessNoWake(p) ==
    /\ Client(p)
    /\ p # Shell
    /\ mutex.pid # p
    /\ exitProcessQueue' = enQueue(exitProcessQueue, p)
    /\ sched' = scheduleBlocked([sched EXCEPT !.state[p] = EXITED])
    /\ at' = [at EXCEPT ![p] = "dead"]
    /\ UNCHANGED <<allocProcessTable, pidCountIdx, mutex, user, userAccess,
                   waiter, isr, cur>>

\* The exit system call, the end of a kernel thread, or an exception in ring 3.
\* The shell never exits, and every function that takes the mutex gives it back.
exitProcess(p) ==
    /\ Client(p)
    /\ p # Shell
    /\ mutex.pid # p
    /\ exitProcessQueue' = enQueue(exitProcessQueue, p)
    /\ sched' = scheduleBlocked([wakeupProcess(sched, Collector)
                                    EXCEPT !.state[p] = EXITED])
    /\ at' = [at EXCEPT ![p] = "dead"]
    /\ UNCHANGED <<allocProcessTable, pidCountIdx, mutex, user, userAccess,
                   waiter, isr, cur>>

\* waitInterrupt of Disk.c, called by the owner of the mutex: the process registers
\* as diskWaiter and sleeps until the deadline.
waitInterrupt(p) ==
    /\ KernelClient(p)
    /\ mutex.pid = p
    /\ waiter' = [waiter EXCEPT !["disk"] = p]
    /\ sched' = sleepUntilTick(sched, WAIT_TICKS)
    /\ at' = [at EXCEPT ![p] = "disk"]
    /\ UNCHANGED <<allocProcessTable, pidCountIdx, exitProcessQueue, mutex,
                   user, userAccess, isr, cur>>

\* getKey of Keyboard.c on an empty queue. Only the shell calls it, outside Disk.c.
getKey(p) ==
    /\ KernelClient(p)
    /\ p = Shell /\ mutex.pid # p
    /\ waiter' = [waiter EXCEPT !["key"] = p]
    /\ sched' = blockRunningProcess(sched)
    /\ at' = [at EXCEPT ![p] = "key"]
    /\ UNCHANGED <<allocProcessTable, pidCountIdx, exitProcessQueue, mutex,
                   user, userAccess, isr, cur>>

\* Behind the switch of waitInterrupt or getKey the waiter is cleared, and the loop
\* around it ends (the flag is set, the time is over, a key is in the queue)
waitEnds(p) ==
    /\ ~isr /\ p = Running /\ at[p] \in Devices
    /\ waiter' = [waiter EXCEPT ![at[p]] = NULL]
    /\ at' = [at EXCEPT ![p] = "run"]
    /\ UNCHANGED <<sched, allocProcessTable, pidCountIdx, exitProcessQueue, mutex,
                   user, userAccess, isr, cur>>

\* or waits again: for the rest of the time, or for the next key.
waitAgain(p) ==
    /\ ~isr /\ p = Running /\ at[p] \in Devices
    /\ \/ /\ at[p] = "disk" /\ sched.wakeupTick[p] > 0
          /\ sched' = sleepUntilTick(sched, sched.wakeupTick[p])
       \/ /\ at[p] = "key"
          /\ sched' = blockRunningProcess(sched)
    /\ UNCHANGED <<allocProcessTable, pidCountIdx, exitProcessQueue, mutex, at,
                   user, userAccess, waiter, isr, cur>>

\* A dispatched process returns from the function it was switched away in,
\* which restores IF.
resume(p) ==
    /\ ~isr /\ p = Running
    /\ at[p] \in {"sleep", "lock", "yield"}
    /\ at' = [at EXCEPT ![p] = "run"]
    /\ UNCHANGED <<sched, allocProcessTable, pidCountIdx, exitProcessQueue,
                   mutex, user, userAccess, waiter, isr, cur>>

-----------------------------------------------------------------------------
(* garbageProcessCollector: one round of its loop, from the loop head       *)
(* ("run") or from behind blockRunningProcess ("gc").                       *)

collectorTurn == ~isr /\ Running = Collector /\ at[Collector] \in {"run", "gc"}

collectorBlocks ==
    /\ collectorTurn
    /\ exitProcessQueue = <<>>
    /\ sched' = blockRunningProcess(sched)
    /\ at' = [at EXCEPT ![Collector] = "gc"]
    /\ UNCHANGED <<allocProcessTable, pidCountIdx, exitProcessQueue, mutex,
                   user, userAccess, waiter, isr, cur>>

\* Mutant of collectorReclaims: the user pages stay open.
collectorKeepsPages ==
    /\ collectorTurn
    /\ exitProcessQueue # <<>>
    /\ exitProcessQueue' = Tail(exitProcessQueue)
    /\ allocProcessTable' = allocProcessTable \ {Head(exitProcessQueue)}
    /\ at' = [at EXCEPT ![Collector] = "run"]
    /\ UNCHANGED <<sched, pidCountIdx, mutex, user, userAccess, waiter, isr, cur>>

collectorReclaims ==
    /\ collectorTurn
    /\ exitProcessQueue # <<>>
    /\ exitProcessQueue' = Tail(exitProcessQueue)
    /\ allocProcessTable' = allocProcessTable \ {Head(exitProcessQueue)}
    /\ userAccess' = userAccess \ {Head(exitProcessQueue)}
    /\ at' = [at EXCEPT ![Collector] = "run"]
    /\ UNCHANGED <<sched, pidCountIdx, mutex, user, waiter, isr, cur>>

-----------------------------------------------------------------------------
Timer == TimerInterrupt \/ WakeExpired \/ TimeoutSchedule

ProcessStep(p) ==
    \/ \E ms \in Millis : sleepProcess(p, ms)
    \/ yield(p)
    \/ acquireLock(p)
    \/ releaseLock(p)
    \/ \E ring3 \in Rings : createProcess(p, ring3)
    \/ createProcessError(p)
    \/ exitProcess(p)
    \/ waitInterrupt(p)
    \/ getKey(p)
    \/ waitEnds(p)
    \/ waitAgain(p)
    \/ resume(p)

CollectorStep == collectorBlocks \/ collectorReclaims

Device == \E d \in Devices : deviceInterrupt(d)

Next ==
    \/ Timer \/ Device
    \/ \E p \in Pids : ProcessStep(p)
    \/ CollectorStep \/ hang

Spec == Init /\ [][Next]_vars

-----------------------------------------------------------------------------
(* Correctness.                                                            *)

Ready    == Elems(sched.processList)
Sleeping == Elems(sched.sleepList)
Waiting  == Elems(mutex.waitList)

\* Process.h says that a PCB is on one of the ready, sleep and mutex lists only,
\* so that they can share its link node: no PCB is linked twice, and neither the
\* running process nor the idle process is linked at all.
OneHome ==
    /\ IsInjectiveList(sched.processList)
    /\ IsInjectiveList(sched.sleepList)
    /\ IsInjectiveList(mutex.waitList)
    /\ Ready \cap Sleeping = {} /\ Ready \cap Waiting = {} /\ Sleeping \cap Waiting = {}
    /\ {Running, Idle} \cap (Ready \cup Sleeping \cup Waiting) = {}

\* No process gets lost: a process of the table that is not running is on the
\* list that belongs to its state and to the function it was switched away in, or
\* registered with the device whose interrupt will wake it; only the idle process,
\* the blocked collector and exited processes are neither.
NoProcessLost ==
    \A p \in allocProcessTable \ {Running, Idle} :
        \/ sched.state[p] = READY /\ p \in Ready
        \/ sched.state[p] = BLOCKED /\ at[p] = "sleep" /\ p \in Sleeping
        \/ sched.state[p] = BLOCKED /\ at[p] = "lock" /\ p \in Waiting
        \/ sched.state[p] = BLOCKED /\ at[p] = "disk" /\ p \in Sleeping
                                    /\ waiter["disk"] = p
        \/ sched.state[p] = BLOCKED /\ at[p] = "key" /\ waiter["key"] = p
        \/ sched.state[p] = BLOCKED /\ at[p] = "gc" /\ p = Collector
        \/ sched.state[p] = EXITED /\ at[p] = "dead"

\* The lists hold only processes of the table, each in the state the list is
\* for: no list still links the PCB of a slot the collector has given back.
ListsHoldLiveProcesses ==
    /\ Ready \cup Sleeping \cup Waiting \cup {Running} \subseteq allocProcessTable
    /\ \A p \in Ready : sched.state[p] = READY
    /\ \A p \in Sleeping \cup Waiting : sched.state[p] = BLOCKED
    /\ sched.state[Running] = RUNNING

\* The idle process runs only while no process is ready: whoever makes a
\* process ready while idle runs preempts it before the interrupt returns.
WorkConserving == Running = Idle /\ ~isr => sched.processList = <<>>

\* Outside the table search the collector never sleeps on work: between its
\* test of the queue and its blocking no exit can slip in unnoticed.
CollectorAwake == sched.state[Collector] = BLOCKED => exitProcessQueue = <<>>

\* When the loop of wakeExpiredProcess ends, no process whose time has come is
\* left on the sleep list, although nodes were unlinked under the loop.
AllExpiredWoken ==
    isr /\ cur = NULL => \A p \in Sleeping : sched.wakeupTick[p] > 0

\* acquireLock returns as the owner: whoever is dispatched behind the switch of
\* acquireLock was given the mutex by releaseLock; and a free mutex has no
\* waiters, an owned one is owned by a live process that does not wait for it.
LockHandedOver ==
    /\ at[Running] = "lock" => mutex.pid = Running /\ mutex.count = 1
    /\ mutex.pid = NULL => mutex.waitList = <<>>
    /\ mutex.pid # NULL => /\ mutex.pid \in allocProcessTable \ Waiting
                           /\ sched.state[mutex.pid] # EXITED

\* A ring 3 process that traps enters the kernel on its own kernel stack:
\* TSS.rsp0 is that of the running process whenever this one is in ring 3.
TrapStackIsOwn == Running \in user => sched.rsp0 = Running

\* The U/S bit of a user stack is set exactly for the ring 3 processes of the table:
\* a kernel process that gets a used slot does not inherit open pages, and a ring 3
\* process, whatever was reclaimed meanwhile, has its stack and its code.
UserPagesOwned ==
    /\ userAccess \ {UserCode} = allocProcessTable \cap user
    /\ allocProcessTable \cap user # {} => UserCode \in userAccess

\* createProcess never uses index PROCESS_MAXCOUNT although pidCountIdx reaches
\* it: the wrap-around depends on slot 0 being taken for ever.
SlotInTable == tries # {} => findSlot \in FreeSlots

\* The search loop gives up only when every slot is taken: wherever pidCountIdx
\* stands, its rounds reach the whole table, so nobody enters the endless loop
\* while a slot is free, and no slot becomes free behind the back of a process in it.
HangMeansFull ==
    \A p \in Pids : at[p] = "hang" => p = Running /\ ~isr /\ FreeSlots = {}

\* An exited process whose slot is still taken is on its way to the collector.
ExitedIsQueued ==
    \A p \in allocProcessTable :
        sched.state[p] = EXITED => p \in Elems(exitProcessQueue)

\* No barging: while processes wait for the mutex it only passes to the first
\* of them, and the others keep their order.
NoBarging ==
    [][mutex.waitList # <<>> /\ mutex'.pid # mutex.pid =>
         /\ mutex'.pid = Head(mutex.waitList)
         /\ mutex'.waitList = Tail(mutex.waitList)]_vars

\* A process leaves the sleep list in the timer interrupt when its time has come, or
\* earlier in the disk interrupt it waits for, and in no other way. It is then
\* behind every process that was ready before it; when none was and idle ran, the
\* disk interrupt lets it run at once.
WokenInTurn ==
    [][\A p \in Sleeping \ Sleeping' :
         /\ \/ isr /\ sched.wakeupTick[p] = 0
            \/ ~isr /\ at[p] = "disk" /\ waiter["disk"] = p
         /\ IF ~isr /\ Running = Idle
            THEN sched.processList = <<>> /\ Running' = p
            ELSE sched'.processList = Append(sched.processList, p)]_vars

\* sleepProcess asks for enough ticks to cover its argument, for every argument
\* whose sum with SLOT_TIME does not wrap, and for no other.
SleepsLongEnough ==
    [][\A p \in Pids, ms \in Millis :
         sleepProcess(p, ms) =>
            ( sched'.wakeupTick[p] * SLOT_TIME >= ms
                <=> ms + SLOT_TIME <= QWORD_RANGE )]_vars

\* A slot is given to a new process only after the old one has exited, is linked
\* nowhere and is registered nowhere, and a slot is given back only for an exited
\* process.
SlotLifeCycle ==
    [][/\ \A p \in allocProcessTable' \ allocProcessTable :
            p \notin Ready \cup Sleeping \cup Waiting \cup {Running, mutex.pid}
                        \cup Elems(exitProcessQueue) \cup {waiter[d] : d \in Devices}
       /\ \A p \in allocProcessTable \ allocProcessTable' :
            sched.state[p] = EXITED]_vars

-----------------------------------------------------------------------------
(***************************************************************************)
(* The inductive invariant behind the properties above (proved in          *)
(* SchedulerProofs). It says, for every process of the table, which list   *)
(* goes with which state and which program point.                          *)
(***************************************************************************)
Injective ==
    /\ IsInjectiveList(sched.processList)
    /\ IsInjectiveList(sched.sleepList)
    /\ IsInjectiveList(mutex.waitList)
    /\ IsInjectiveList(exitProcessQueue)

\* A process is on a list exactly when its state and its program point say so.
Placed ==
    \A p \in Pids :
        /\ p \in Ready <=>
              p \in allocProcessTable /\ p # Idle /\ sched.state[p] = READY
        /\ p \in Sleeping <=> p \in allocProcessTable /\
              sched.state[p] = BLOCKED /\ at[p] \in {"sleep", "disk"}
        /\ p \in Waiting <=> p \in allocProcessTable /\
              sched.state[p] = BLOCKED /\ at[p] = "lock"
        /\ p \in Elems(exitProcessQueue) =>
              p \in allocProcessTable /\ sched.state[p] = EXITED

\* A device knows exactly the process that waits for it: for the disk the owner of
\* the mutex, for the keyboard the shell.
WaitersOK ==
    /\ \A d \in Devices, p \in Pids :
         waiter[d] = p <=> p \in allocProcessTable /\ at[p] = d
    /\ \A p \in allocProcessTable :
         /\ at[p] = "disk" => mutex.pid = p
         /\ at[p] = "key" => p = Shell

\* States and program points agree.
PointOK(p) ==
    /\ sched.state[p] = BLOCKED => \/ at[p] \in {"sleep", "lock"} \cup Devices
                                   \/ at[p] = "gc" /\ p = Collector
    /\ sched.state[p] = RUNNING => p \in {Running, Idle}
    /\ sched.state[p] = EXITED <=> at[p] = "dead"

PointsOK == \A p \in allocProcessTable : PointOK(p)

\* The three processes made by initScheduler stay, each in its own code.
Residents ==
    /\ {Shell, Collector, Idle} \subseteq allocProcessTable
    /\ at[Shell] # "dead"
    /\ at[Collector] \in {"run", "gc"}
    /\ at[Idle] = "run"
    /\ sched.state[Idle] \in {READY, RUNNING}
    /\ {Shell, Collector, Idle} \cap user = {}

RunningOK ==
    /\ Running \in allocProcessTable
    /\ sched.state[Running] = RUNNING

\* Where the loop of wakeExpiredProcess stands: the node it looks at next is on
\* the sleep list, and every node before it still has time to sleep.
LoopOK ==
    /\ ~isr => cur = NULL
    /\ isr /\ cur = NULL => \A p \in Sleeping : sched.wakeupTick[p] > 0
    /\ cur # NULL =>
         \E i \in 1 .. Len(sched.sleepList) :
            /\ sched.sleepList[i] = cur
            /\ \A j \in 1 .. i - 1 : sched.wakeupTick[sched.sleepList[j]] > 0

MutexOK ==
    /\ mutex.pid = NULL => mutex.waitList = <<>>
    /\ mutex.pid # NULL => /\ mutex.count > 0
                           /\ mutex.pid \in allocProcessTable \ {Collector, Idle}
                           /\ at[mutex.pid] # "dead"
                           /\ mutex.pid \notin Waiting
    /\ \A p \in allocProcessTable :
         at[p] = "lock" /\ sched.state[p] # BLOCKED => mutex.pid = p /\ mutex.count = 1

\* The inductive invariant of the scheduler.
SchedInv ==
    /\ TypeOK /\ Injective /\ Placed /\ PointsOK /\ Residents /\ RunningOK
    /\ LoopOK /\ MutexOK /\ WaitersOK
    /\ WorkConserving /\ CollectorAwake /\ TrapStackIsOwn /\ UserPagesOwned

-----------------------------------------------------------------------------
(***************************************************************************)
(* Liveness. The PIC keeps a timer request until IF is 1, so a tick that is *)
(* possible again and again is taken: strong fairness. A function that was *)
(* dispatched behind its switch and the interrupt handler run with IF=0:   *)
(* weak fairness. The collector gets whole time slices, so it is not       *)
(* interrupted for ever before its next instruction, and a process that    *)
(* owns the mutex comes to its last releaseLock (every function of Disk.c  *)
(* does on every path): strong fairness. Nothing else is assumed: a        *)
(* process may compute for ever without calling the kernel, and a device   *)
(* may never raise its interrupt.                                          *)
(***************************************************************************)
lastRelease == \E p \in Pids : releaseLock(p) /\ mutex.count = 1

Fairness ==
    /\ SF_vars(TimerInterrupt)
    /\ WF_vars(WakeExpired \/ TimeoutSchedule)
    /\ WF_vars(\E p \in Pids : resume(p) \/ waitEnds(p) \/ waitAgain(p))
    /\ SF_vars(CollectorStep)
    /\ SF_vars(lastRelease)

FairSpec == Spec /\ Fairness

\* Round robin starves nobody: a ready process runs, whatever the others do.
ReadyRuns == \A p \in Watched : p \in Ready ~> Running = p

\* sleepProcess returns.
SleeperReturns == \A p \in Watched : p \in Sleeping ~> Running = p /\ at[p] = "run"

\* acquireLock returns as long as owners release.
WaiterGetsLock == \A p \in Watched : p \in Waiting ~> Running = p /\ mutex.pid = p

\* The slot of a process that exits is given back by the collector.
ExitReclaimed ==
    \A p \in Watched :
        p \in allocProcessTable /\ sched.state[p] = EXITED ~> p \notin allocProcessTable
=============================================================================
