------------------------------ MODULE Process ------------------------------
(***************************************************************************)
(* The ProcessScheduler of kernel/proc/Process.c as a record, and the      *)
(* functions of that file that change it as operators from record to       *)
(* record. The callers (Scheduler, Keyboard, Disk) compose them into       *)
(* actions the way the C code composes the calls: every one of them runs   *)
(* with IF=0 on the only core, so a chain of calls up to a switchContext   *)
(* or a return from the interrupt is one step.                             *)
(*                                                                         *)
(* A process is its pid, the index of its PCB. wakeupTick is kept relative *)
(* to tickCount (the number of ticks still to come, 0 once it is reached), *)
(* which is all wakeExpiredProcess tells apart.                            *)
(***************************************************************************)
EXTENDS Lists

CONSTANTS PROCESS_MAXCOUNT,  \* number of PCB slots
          SLOT_TIME,         \* milliseconds per timer tick
          QWORD_RANGE        \* number of values of a QWORD (2^64 in the build)

ASSUME ProcessAssumption ==
    /\ PROCESS_MAXCOUNT \in Nat /\ PROCESS_MAXCOUNT >= 4
    /\ SLOT_TIME \in Nat \ {0}
    /\ QWORD_RANGE \in Nat \ {0} /\ QWORD_RANGE >= SLOT_TIME

Pids == 0 .. PROCESS_MAXCOUNT - 1

\* initScheduler hands out the first three pids in this order.
Shell     == 0   \* the boot context, which runs startShell and never exits
Collector == 1   \* collectorProcess
Idle      == 2   \* scheduler.idleProcess

READY   == "READY"
RUNNING == "RUNNING"
BLOCKED == "BLOCKED"
EXITED  == "EXIT"
States  == {READY, RUNNING, BLOCKED, EXITED}

\* The scheduler structure, the PCB fields it works on, and TSS.rsp0 (whose
\* kernel stack a trap from ring 3 will use).
SchedType ==
    [ runningProcess : Pids,
      processList    : Seq(Pids),
      sleepList      : Seq(Pids),
      state          : [Pids -> States],
      wakeupTick     : [Pids -> Nat],
      rsp0           : Pids \cup {NULL} ]

\* Mutant of dispatch: updateTSSRsp0 is forgotten.
dispatchKeepsRsp0(s, next) ==
    [s EXCEPT !.state[next] = RUNNING, !.runningProcess = next]

\* next becomes the running process: its state, the pointer and TSS.rsp0.
dispatch(s, next) ==
    [s EXCEPT !.state[next]   = RUNNING,
              !.runningProcess = next,
              !.rsp0           = next]

\* The head of the ready list, or the idle process when it is empty.
headOrIdle(s) == IF s.processList = <<>> THEN Idle ELSE HeadOf(s.processList)

\* Switch away from a process that stays out of the ready list.
scheduleBlocked(s) ==
    dispatch([s EXCEPT !.processList = HeadRemove(s.processList)], headOrIdle(s))

blockRunningProcess(s) ==
    scheduleBlocked([s EXCEPT !.state[s.runningProcess] = BLOCKED])

\* ticks is relative to tickCount.
sleepUntilTick(s, ticks) ==
    blockRunningProcess(
        [s EXCEPT !.wakeupTick[s.runningProcess] = ticks,
                  !.sleepList = insertList(s.sleepList, s.runningProcess)])

\* Mutant of ticksOf: the division rounds down.
ticksRoundedDown(ms) == ms \div SLOT_TIME

\* Milliseconds rounded up to ticks; the sum is a QWORD and wraps.
ticksOf(ms) == ((ms + SLOT_TIME - 1) % QWORD_RANGE) \div SLOT_TIME

\* Mutant of wakeupProcess: the node stays on the sleep list.
wakeupKeepsSleeping(s, pcb) ==
    IF pcb = NULL \/ s.state[pcb] # BLOCKED
    THEN s
    ELSE [s EXCEPT !.state[pcb]  = READY,
                   !.processList = insertList(s.processList, pcb)]

\* A process (or NULL) that is not BLOCKED is left alone.
wakeupProcess(s, pcb) ==
    IF pcb = NULL \/ s.state[pcb] # BLOCKED
    THEN s
    ELSE [s EXCEPT !.sleepList   = removeList(s.sleepList, pcb),
                   !.state[pcb]  = READY,
                   !.processList = insertList(s.processList, pcb)]

\* Mutant of timeoutSchedule: the preempted process is not put back.
timeoutScheduleDrops(s) ==
    IF s.processList = <<>> THEN s
    ELSE dispatch([s EXCEPT !.state[s.runningProcess] = READY,
                            !.processList = HeadRemove(s.processList)],
                  HeadOf(s.processList))

\* Mutant of timeoutSchedule: the preempted process is put in front.
timeoutScheduleAtHead(s) ==
    IF s.processList = <<>> THEN s
    ELSE dispatch([s EXCEPT !.state[s.runningProcess] = READY,
                            !.processList =
                                IF s.runningProcess = Idle THEN HeadRemove(s.processList)
                                ELSE <<s.runningProcess>> \o HeadRemove(s.processList)],
                  HeadOf(s.processList))

\* Mutant of timeoutSchedule: the idle process is never preempted.
timeoutScheduleKeepsIdle(s) ==
    IF s.processList = <<>> \/ s.runningProcess = Idle THEN s
    ELSE dispatch([s EXCEPT !.state[s.runningProcess] = READY,
                            !.processList = insertList(HeadRemove(s.processList),
                                                       s.runningProcess)],
                  HeadOf(s.processList))

\* Round robin at the end of an interrupt. The idle process is not queued and
\* keeps its state.
timeoutSchedule(s) ==
    LET cur  == s.runningProcess
        next == HeadOf(s.processList)
        rest == HeadRemove(s.processList)
    IN  IF s.processList = <<>> THEN s
        ELSE dispatch(IF cur = Idle
                      THEN [s EXCEPT !.processList = rest]
                      ELSE [s EXCEPT !.state[cur]  = READY,
                                     !.processList = insertList(rest, cur)],
                      next)

\* From an interrupt handler: wake, and preempt the idle process at once.
wakeupProcessInInterrupt(s, pcb) ==
    LET woken == wakeupProcess(s, pcb)
    IN  IF pcb # NULL /\ s.state[pcb] = BLOCKED /\ s.runningProcess = Idle
        THEN timeoutSchedule(woken)
        ELSE woken

\* The voluntary switch: nothing happens when no process is ready.
schedule(s) ==
    LET cur == s.runningProcess
    IN  IF s.processList = <<>> THEN s
        ELSE dispatch([s EXCEPT !.state[cur]  = READY,
                                !.processList =
                                    insertList(HeadRemove(s.processList), cur)],
                      HeadOf(s.processList))

\* tickCount++: every wakeupTick comes one tick nearer.
tickCount(s) ==
    [s EXCEPT !.wakeupTick =
        [p \in Pids |-> IF s.wakeupTick[p] = 0 THEN 0 ELSE s.wakeupTick[p] - 1]]

\* The body of the loop of wakeExpiredProcess, for the node pcb.
wakeIfExpired(s, pcb) ==
    IF s.wakeupTick[pcb] = 0 THEN wakeupProcess(s, pcb) ELSE s

\* The loop: every node of the sleep list, in list order; after[i] is the scheduler
\* behind its i-th round. The node after a woken one is read before it is unlinked.
wakeExpiredProcess(s) ==
    LET after[i \in 0 .. Len(s.sleepList)] ==
            IF i = 0 THEN s ELSE wakeIfExpired(after[i - 1], s.sleepList[i])
    IN  after[Len(s.sleepList)]

\* The PCB of a created process, put at the end of the ready list.
makeReady(s, pid) ==
    [s EXCEPT !.state[pid]  = READY,
              !.processList = insertList(s.processList, pid)]

\* After initScheduler: the boot context runs, the collector is ready, the
\* idle process was created and taken off the ready list. PCB memory is zero
\* (state READY) and the TSS has no rsp0 yet.
initScheduler ==
    [ runningProcess |-> Shell,
      processList    |-> removeList(<<Collector, Idle>>, Idle),
      sleepList      |-> <<>>,
      state          |-> [p \in Pids |-> IF p = Shell THEN RUNNING ELSE READY],
      wakeupTick     |-> [p \in Pids |-> 0],
      rsp0           |-> NULL ]
=============================================================================
