----------------------------- MODULE TrapProofs -----------------------------
(***************************************************************************)
(* The entries to the kernel and the context switches of Trap, for every   *)
(* number of processes, every set of lines without a handler and every     *)
(* length of the key queue. TrapInv is the inductive invariant:            *)
(*   - the scheduler is consistent and schedules live processes only,      *)
(*   - every live process has one context, where Saved says, and inside a  *)
(*     kernel function its caller's registers are on its own stack,        *)
(*   - in service are lines without a handler, and while a handler runs    *)
(*     its own line, which no other in service has priority over.          *)
(***************************************************************************)
EXTENDS Trap, ProcessProofs

\* The processes that never exit; all of them run in ring 0.
Residents == {Shell, Collector, Idle}

Scheduled == LiveProcesses \ {Idle}

\* Who may be scheduled, which stack a trap from ring 3 takes, and who waits for
\* the collector.
ProcessInv ==
    /\ Consistent(sched, Scheduled)
    /\ allocProcessTable \subseteq Pids
    /\ Residents \subseteq LiveProcesses
    /\ sched.rsp0 = Running \/ Running = Shell
    /\ exitProcessQueue \in Seq(Pids)
    /\ IsInjectiveList(exitProcessQueue)
    /\ \A p \in Elems(exitProcessQueue) :
         p \in allocProcessTable /\ sched.state[p] = EXITED

\* u is a context of p's program, outside the kernel.
Caller(p, u) ==
    /\ u.own = p /\ ~u.kernel
    /\ p \in Residents => u.ring = 0

\* c is p's context; where it is inside a kernel function that will return a value
\* of a program, u is its caller's.
Owned(p, c, u) ==
    /\ c.kernel => c.stk = p /\ c.reg \in Values /\ Caller(p, u)
    /\ ~c.kernel => Caller(p, c)

ContextsTyped ==
    cpu \in Contexts /\ pcb \in [Pids -> Contexts] /\ stack \in [Stacks -> Contexts]

ContextInv ==
    /\ ContextsTyped
    /\ \A p \in LiveProcesses : Owned(p, Saved(p), stack[p])

KeyInv ==
    /\ keyQueue \in 0 .. MaxKeys
    /\ keyWaiter \in {NULL, Shell}
    /\ occurFlag \in [DiskLines -> BOOLEAN]

StrayBits == UNION {bits(line) : line \in Strays}

\* line is in service together with bits of strays that it has priority over.
Serving(line) ==
    /\ bits(line) \subseteq service
    /\ service \subseteq StrayBits \cup bits(line)
    /\ \A b \in service : b < 8 => onMaster(line) <= b
    /\ line >= 8 => \A b \in service : b >= 8 => line <= b

ServiceInv ==
    /\ phase \in {RUN, HALT} \cup Lines
    /\ phase \in Lines => Serving(phase)
    /\ phase \notin Lines => service \subseteq StrayBits

HaltInv == phase = HALT => ~stack[IST].kernel /\ stack[IST].ring = 0

TrapInv == ProcessInv /\ ContextInv /\ KeyInv /\ ServiceInv /\ HaltInv

-----------------------------------------------------------------------------
(* What the scheduler's functions leave alone besides the lists: who has   *)
(* exited, and that TSS.rsp0 belongs to the process that was switched to.  *)

Keeps(s, t) ==
    /\ \A p \in Pids : t.state[p] = EXITED <=> s.state[p] = EXITED
    /\ \/ t.rsp0 = t.runningProcess
       \/ t.rsp0 = s.rsp0 /\ t.runningProcess = s.runningProcess

\* timeoutSchedule, where nobody who exited is scheduled.
LEMMA KeepsTimeout ==
    ASSUME NEW s \in SchedType, IsInjectiveList(s.processList),
           s.state[s.runningProcess] # EXITED,
           \A p \in Elems(s.processList) : s.state[p] # EXITED,
           NEW t, t = timeoutSchedule(s)
    PROVE  Keeps(s, t)
<1>1. /\ s.processList \in Seq(Pids) /\ s.runningProcess \in Pids
      /\ s.state \in [Pids -> States]
  BY SchedFields
<1>2. CASE s.processList = <<>>
  <2>1. t = s
    BY <1>2, TimeoutScheduleEffect
  <2> QED BY <2>1 DEF Keeps
<1>3. CASE s.processList # <<>>
  <2>1. PICK next : next = HeadOf(s.processList)
    OBVIOUS
  <2>2. next \in Pids /\ next \in Elems(s.processList)
    BY <1>1, <1>3, <2>1, HeadProperties
  <2>3. t.runningProcess = next /\ t.rsp0 = next
    BY <1>3, <2>1, TimeoutScheduleEffect
  <2>4. \/ t.state = [s.state EXCEPT ![next] = RUNNING]
        \/ t.state = [s.state EXCEPT ![s.runningProcess] = READY, ![next] = RUNNING]
    BY <1>3, <2>1, TimeoutScheduleEffect
  <2>5. s.state[next] # EXITED
    BY <2>2
  <2>6. \A p \in Pids : t.state[p] = EXITED <=> s.state[p] = EXITED
    BY <1>1, <2>2, <2>4, <2>5, StateFacts
  <2> QED BY <2>3, <2>6 DEF Keeps
<1> QED BY <1>2, <1>3

\* The timer interrupt.
LEMMA KeepsTimer ==
    ASSUME NEW Q \in SUBSET (Pids \ {Idle}), NEW s, Consistent(s, Q),
           NEW t, t = timeoutSchedule(wakeExpiredProcess(tickCount(s)))
    PROVE  Keeps(s, t)
<1> DEFINE r == tickCount(s)
           W == {p \in Elems(r.sleepList) : r.wakeupTick[p] = 0 /\ r.state[p] = BLOCKED}
           u == wakeExpiredProcess(r)
<1>1. /\ s \in SchedType /\ Listed(s, Q) /\ s.state \in [Pids -> States]
      /\ s.runningProcess \in Pids
      /\ \A p \in Elems(s.sleepList) : p \notin Elems(s.processList)
  BY ListedFields DEF Consistent
<1>2. /\ r \in SchedType /\ r.runningProcess = s.runningProcess
      /\ r.processList = s.processList /\ r.sleepList = s.sleepList
      /\ r.state = s.state /\ r.rsp0 = s.rsp0
  BY <1>1, TickEffect
<1> HIDE DEF r
<1>3. Woken(r, u, W)
  BY <1>1, <1>2, WakeExpiredEffect DEF Listed
<1>4. /\ \A p \in W : s.state[p] = BLOCKED
      /\ \A p \in Elems(s.processList) : s.state[p] = READY
      /\ s.state[s.runningProcess] = RUNNING
  BY <1>1, <1>2 DEF Listed
<1> HIDE DEF W, u
<1>5. /\ u \in SchedType /\ IsInjectiveList(u.processList)
      /\ u.runningProcess = s.runningProcess /\ u.rsp0 = s.rsp0
      /\ u.state = [p \in Pids |-> IF p \in W THEN READY ELSE s.state[p]]
      /\ Elems(u.processList) = Elems(s.processList) \cup W
  BY <1>2, <1>3 DEF Woken
<1>6. u.processList \in Seq(Pids) /\ Elems(u.processList) \subseteq Pids
  BY <1>5, SchedFields, ElemsInSet
<1>7. /\ u.state[u.runningProcess] # EXITED
      /\ \A p \in Elems(u.processList) : u.state[p] # EXITED
  BY <1>1, <1>4, <1>5, <1>6, StateFacts
<1>8. Keeps(u, t)
  BY <1>5, <1>7, KeepsTimeout DEF u, r
<1>9. \A p \in Pids : u.state[p] = EXITED <=> s.state[p] = EXITED
  BY <1>4, <1>5, StateFacts
<1> QED BY <1>5, <1>8, <1>9 DEF Keeps

\* wakeupProcess from a handler.
LEMMA KeepsWakeInInterrupt ==
    ASSUME NEW Q \in SUBSET (Pids \ {Idle}), NEW s, Consistent(s, Q),
           NEW who, who \in Q \cup {NULL}, NEW t, t = wakeupProcessInInterrupt(s, who)
    PROVE  Keeps(s, t)
<1>1. PICK u : u = wakeupProcess(s, who)
  OBVIOUS
<1>2. /\ s \in SchedType /\ Listed(s, Q) /\ s.state \in [Pids -> States]
      /\ who \in Pids \cup {NULL}
  BY ListedFields DEF Consistent
<1>3. u.rsp0 = s.rsp0 /\ u.runningProcess = s.runningProcess
  BY <1>1, <1>2, WakeupEffect DEF Listed
<1>4. Listed(u, Q)
  BY <1>1, ConsistentWakeup
<1>5. \/ u = s
      \/ s.state[who] = BLOCKED /\ who \in Pids /\ u.state = [s.state EXCEPT ![who] = READY]
  BY <1>1, <1>2, WakeupEffect DEF Listed
<1>6. \A p \in Pids : u.state[p] = EXITED <=> s.state[p] = EXITED
  BY <1>2, <1>5, StateFacts
<1>7. t = u \/ t = timeoutSchedule(u)
  BY <1>1 DEF wakeupProcessInInterrupt
<1>8. Keeps(s, u)
  BY <1>3, <1>6 DEF Keeps
<1>9. Keeps(u, timeoutSchedule(u))
  BY <1>4, KeepsTimeout, StateFacts DEF Listed
<1> QED BY <1>7, <1>8, <1>9 DEF Keeps

\* Blocking, and blocking on the sleep list.
LEMMA KeepsBlock ==
    ASSUME NEW Q \in SUBSET (Pids \ {Idle}), NEW s, Consistent(s, Q),
           s.state[Idle] # EXITED, NEW ticks \in Nat,
           NEW t, t = blockRunningProcess(s) \/ t = sleepUntilTick(s, ticks)
    PROVE  Keeps(s, t)
<1>1. /\ s \in SchedType /\ Listed(s, Q) /\ s.state \in [Pids -> States]
      /\ s.runningProcess \in Pids /\ s.processList \in Seq(Pids)
  BY ListedFields DEF Consistent
<1>2. PICK next : next = headOrIdle(s)
  OBVIOUS
<1>3. /\ next \in Pids /\ t.runningProcess = next /\ t.rsp0 = next
      /\ t.state = [s.state EXCEPT ![s.runningProcess] = BLOCKED, ![next] = RUNNING]
  <2>1. CASE t = blockRunningProcess(s)
    BY <1>1, <1>2, <2>1, BlockRunningEffect DEF Listed
  <2>2. CASE t = sleepUntilTick(s, ticks)
    BY <1>1, <1>2, <2>2, SleepUntilTickEffect DEF Listed
  <2> QED BY <2>1, <2>2
<1>4. s.state[next] # EXITED
  BY <1>1, <1>2, HeadProperties, StateFacts DEF headOrIdle, Listed
<1>5. s.state[s.runningProcess] = RUNNING
  BY <1>1 DEF Listed
<1> QED BY <1>1, <1>3, <1>4, <1>5, StateFacts DEF Keeps

-----------------------------------------------------------------------------
(* A process is created, and a process ends: both change who may be        *)
(* scheduled.                                                              *)

LEMMA ConsistentCreate ==
    ASSUME NEW Q \in SUBSET (Pids \ {Idle}), NEW s, Consistent(s, Q),
           s.runningProcess # Idle, NEW pid \in Pids \ {Idle}, pid \notin Q,
           NEW t, t = makeReady(s, pid)
    PROVE  /\ Consistent(t, Q \cup {pid})
           /\ t.runningProcess = s.runningProcess /\ t.rsp0 = s.rsp0
           /\ t.state = [s.state EXCEPT ![pid] = READY]
<1>1. /\ s \in SchedType /\ Listed(s, Q) /\ s.state \in [Pids -> States]
      /\ s.runningProcess \in Q /\ Idle \notin Q
      /\ s.processList \in Seq(Pids)
  BY ListedFields DEF Consistent, Listed
<1>2. /\ t \in SchedType /\ t.sleepList = s.sleepList
      /\ t.processList = insertList(s.processList, pid)
      /\ t.runningProcess = s.runningProcess /\ t.rsp0 = s.rsp0
      /\ t.state = [s.state EXCEPT ![pid] = READY]
  BY <1>1, MakeReadyEffect
<1>3. /\ IsInjectiveList(t.processList)
      /\ Elems(t.processList) = Elems(s.processList) \cup {pid}
  BY <1>1, <1>2, FreshInsert DEF Listed
<1>4. /\ \A p \in Elems(t.processList) : t.state[p] = READY
      /\ \A p \in Elems(t.sleepList) : t.state[p] = BLOCKED
      /\ t.state[t.runningProcess] = RUNNING
  BY <1>1, <1>2, <1>3 DEF Listed
<1>5. Listed(t, Q \cup {pid})
  BY <1>1, <1>2, <1>3, <1>4 DEF Listed
<1> QED BY <1>1, <1>2, <1>5 DEF Consistent

\* cur has exited, and nobody else.
Ends(s, t, cur) ==
    \A p \in Pids : t.state[p] = EXITED <=> s.state[p] = EXITED \/ p = cur

\* What exitProcess makes of the scheduler.
LEMMA ConsistentExit ==
    ASSUME NEW Q \in SUBSET (Pids \ {Idle}), NEW s, Consistent(s, Q), Collector \in Q,
           s.runningProcess # Idle, NEW cur, cur = s.runningProcess, cur # Collector,
           s.state[Idle] # EXITED,
           NEW t, t = scheduleBlocked([wakeupProcess(s, Collector)
                                          EXCEPT !.state[cur] = EXITED])
    PROVE  /\ Consistent(t, Q \ {cur})
           /\ t.rsp0 = t.runningProcess
           /\ Ends(s, t, cur)
<1>1. PICK u : u = wakeupProcess(s, Collector)
  OBVIOUS
<1>2. Consistent(u, Q) /\ Listed(u, Q)
  BY <1>1, ConsistentWakeup DEF Consistent
<1>3. /\ s \in SchedType /\ Listed(s, Q) /\ s.state \in [Pids -> States]
      /\ cur \in Pids /\ cur \in Q /\ Idle \in Pids /\ Idle \notin Q
      /\ Collector \in Pids \cup {NULL} /\ Collector # NULL
  BY ListedFields, PidFacts DEF Consistent, Listed
<1>4. u.runningProcess = cur
  BY <1>1, <1>3, WakeupEffect DEF Listed
<1>5. \/ u = s
      \/ s.state[Collector] = BLOCKED /\ u.state = [s.state EXCEPT ![Collector] = READY]
  BY <1>1, <1>3, WakeupEffect DEF Listed
<1>6. \A p \in Pids : u.state[p] = EXITED <=> s.state[p] = EXITED
  BY <1>3, <1>5, StateFacts
<1>7. /\ u \in SchedType /\ u.state \in [Pids -> States]
      /\ u.processList \in Seq(Pids) /\ IsInjectiveList(u.processList)
      /\ cur \notin Elems(u.processList) /\ cur \notin Elems(u.sleepList)
  BY <1>2, <1>4, ListedFields DEF Listed
<1>8. PICK v : v = [u EXCEPT !.state[cur] = EXITED]
  OBVIOUS
<1>9. /\ v \in SchedType /\ v.processList = u.processList /\ v.sleepList = u.sleepList
      /\ v.state = [u.state EXCEPT ![cur] = EXITED]
  BY <1>3, <1>7, <1>8, StateFacts DEF SchedType
<1>10. PICK next : next = headOrIdle(v)
  OBVIOUS
<1>11. t = scheduleBlocked(v)
  BY <1>1, <1>8
<1>12. /\ next \in Pids /\ t \in SchedType /\ t.runningProcess = next /\ t.rsp0 = next
       /\ t.state = [v.state EXCEPT ![next] = RUNNING]
       /\ t.processList = HeadRemove(u.processList) /\ t.sleepList = u.sleepList
  BY <1>7, <1>9, <1>10, <1>11, ScheduleBlockedEffect
<1>13. /\ u.processList = <<>> => next = Idle
       /\ u.processList # <<>> => /\ next = HeadOf(u.processList)
                                  /\ next \in Elems(u.processList)
  BY <1>7, <1>9, <1>10, HeadProperties DEF headOrIdle
<1>14. /\ IsInjectiveList(t.processList)
       /\ Elems(t.processList) = Elems(u.processList) \ {HeadOf(u.processList)}
  BY <1>7, <1>12, HeadProperties
<1>15. next # cur /\ next \in Q \cup {Idle} /\ u.state[next] # EXITED
  BY <1>2, <1>3, <1>6, <1>7, <1>13, StateFacts DEF Listed
<1>16. u.processList = <<>> => t.processList = <<>>
  BY <1>12, EmptyProperties
<1>17. next \notin Elems(t.processList) /\ next \notin Elems(t.sleepList)
  BY <1>2, <1>3, <1>12, <1>13, <1>14, <1>16, EmptyProperties, StateFacts DEF Listed
<1>18. /\ \A p \in Elems(t.processList) : t.state[p] = READY
       /\ \A p \in Elems(t.sleepList) : t.state[p] = BLOCKED
       /\ t.state[t.runningProcess] = RUNNING
  <2>1. \A p \in Pids : p # cur /\ p # next => t.state[p] = u.state[p]
    BY <1>7, <1>9, <1>12
  <2>2. t.state[next] = RUNNING
    BY <1>3, <1>7, <1>9, <1>12
  <2>3. /\ Elems(u.processList) \subseteq Pids /\ Elems(u.sleepList) \subseteq Pids
        /\ \A p \in Elems(u.processList) : u.state[p] = READY
        /\ \A p \in Elems(u.sleepList) : u.state[p] = BLOCKED
    BY <1>2, <1>7, ElemsInSet, ListedFields DEF Listed
  <2>4. ASSUME NEW p \in Elems(t.processList) PROVE t.state[p] = READY
    <3>1. p \in Elems(u.processList) /\ p # cur /\ p # next
      BY <1>7, <1>14, <1>17
    <3> QED BY <2>1, <2>3, <3>1
  <2>5. ASSUME NEW p \in Elems(t.sleepList) PROVE t.state[p] = BLOCKED
    <3>1. p \in Elems(u.sleepList) /\ p # cur /\ p # next
      BY <1>7, <1>12, <1>17
    <3> QED BY <2>1, <2>3, <3>1
  <2> QED BY <1>12, <2>2, <2>4, <2>5
<1>19. Listed(t, Q \ {cur})
  BY <1>2, <1>7, <1>12, <1>14, <1>15, <1>18 DEF Listed
<1>20. next = Idle => t.processList = <<>>
  BY <1>2, <1>3, <1>13, <1>16 DEF Listed
<1>21. Consistent(t, Q \ {cur})
  BY <1>12, <1>19, <1>20 DEF Consistent
<1>22. Ends(s, t, cur)
  BY <1>3, <1>6, <1>7, <1>9, <1>12, <1>15, StateFacts DEF Ends
<1> QED BY <1>12, <1>21, <1>22

-----------------------------------------------------------------------------
(* Who is alive, and where the program of each has its registers.          *)

LEMMA LiveFacts ==
    ASSUME ProcessInv
    PROVE  /\ LiveProcesses \subseteq Pids /\ Scheduled \in SUBSET (Pids \ {Idle})
           /\ Running \in LiveProcesses /\ Running \in Pids
           /\ Shell \in Scheduled /\ Collector \in Scheduled /\ Idle \in Pids
           /\ sched.state[Idle] # EXITED /\ sched.state \in [Pids -> States]
           /\ Running # Idle => Running \in Scheduled
<1>1. /\ Consistent(sched, Scheduled) /\ allocProcessTable \subseteq Pids
      /\ Shell \in LiveProcesses /\ Collector \in LiveProcesses /\ Idle \in LiveProcesses
  BY DEF ProcessInv, Residents
<1>2. LiveProcesses \subseteq Pids /\ \A p \in LiveProcesses : sched.state[p] # EXITED
  BY <1>1 DEF LiveProcesses
<1>3. Scheduled \in SUBSET (Pids \ {Idle})
  BY <1>2 DEF Scheduled
<1>4. Shell # Idle /\ Collector # Idle
  BY DEF Shell, Collector, Idle
<1>5. /\ sched.runningProcess \in Scheduled \cup {Idle}
      /\ sched.state \in [Pids -> States]
  BY <1>1, <1>3, ListedFields DEF Consistent, Listed
<1> QED BY <1>1, <1>2, <1>3, <1>4, <1>5 DEF Scheduled, Running

\* A call of the scheduler after which the same processes are alive.
LEMMA ProcessKept ==
    ASSUME ProcessInv, Consistent(sched', Scheduled), Keeps(sched, sched'),
           UNCHANGED <<allocProcessTable, exitProcessQueue>>
    PROVE  ProcessInv' /\ LiveProcesses' = LiveProcesses
<1>1. LiveProcesses' = LiveProcesses /\ Scheduled' = Scheduled
  <2>1. allocProcessTable \subseteq Pids
    BY DEF ProcessInv
  <2>2. LiveProcesses' = LiveProcesses
    BY <2>1 DEF LiveProcesses, Keeps
  <2> QED BY <2>2 DEF Scheduled
<1>2. sched'.rsp0 = Running' \/ Running' = Shell
  BY DEF ProcessInv, Keeps, Running
<1>3. \A p \in Elems(exitProcessQueue)' :
        p \in allocProcessTable' /\ sched'.state[p] = EXITED
  BY DEF ProcessInv, Keeps
<1> QED BY <1>1, <1>2, <1>3 DEF ProcessInv

LEMMA ProcessSame ==
    ASSUME ProcessInv, UNCHANGED <<sched, allocProcessTable, exitProcessQueue>>
    PROVE  ProcessInv' /\ LiveProcesses' = LiveProcesses
<1>1. Consistent(sched', Scheduled) /\ Keeps(sched, sched')
  BY DEF ProcessInv, Keeps
<1> QED BY <1>1, ProcessKept

\* The processor a program believes to have, from its context and its caller's.
ViewOf(c, u) ==
    IF c.kernel THEN [own |-> u.own, ring |-> u.ring, reg |-> u.reg]
    ELSE [own |-> c.own, ring |-> c.ring, reg |-> c.reg]

LEMMA ViewIs ==
    ASSUME NEW p, Owned(p, Saved(p), stack[p])
    PROVE  View(p) = ViewOf(Saved(p), stack[p])
BY DEF View, ViewOf, Owned

\* Nobody's registers moved, or they moved with their place.
LEMMA ViewKept ==
    ASSUME NEW p, Owned(p, Saved(p), stack[p]), Saved(p)' = Saved(p), stack'[p] = stack[p]
    PROVE  Owned(p, Saved(p), stack[p])' /\ View(p)' = View(p)
<1>1. Owned(p, Saved(p)', stack'[p])
  OBVIOUS
<1>2. Owned(p, Saved(p), stack[p])'
  BY <1>1 DEF Owned, Caller
<1> QED BY <1>2 DEF View, Owned

\* switchContext in a state without interrupts, away from the running process.
LEMMA SwitchEffect ==
    ASSUME NEW c, NEW cur \in Pids, cur = Running, NEW next \in Pids, next # cur,
           switchContext(next, c), sched'.runningProcess = next,
           pcb \in [Pids -> Contexts], phase = RUN, phase' = RUN
    PROVE  /\ Saved(cur)' = c
           /\ \A p \in Pids \ {cur} : Saved(p)' = Saved(p)
<1>1. /\ cpu' = pcb[next] /\ pcb' = [pcb EXCEPT ![cur] = c, ![next] = None]
      /\ Running' = next
  BY DEF switchContext, Running
<1>2. Saved(cur)' = c
  BY <1>1 DEF Saved
<1>3. ASSUME NEW p \in Pids, p # cur PROVE Saved(p)' = Saved(p)
  <2>1. CASE p = next
    BY <1>1, <1>3, <2>1 DEF Saved
  <2>2. CASE p # next
    BY <1>1, <1>3, <2>2 DEF Saved
  <2> QED BY <2>1, <2>2
<1> QED BY <1>2, <1>3

-----------------------------------------------------------------------------
(* What the ways to leave a program, and to come back to it, do to the     *)
(* contexts and to what the programs see of them.                          *)

\* The views of all live processes stay.
ViewsStay == LiveProcesses' = LiveProcesses /\ \A p \in LiveProcesses : View(p)' = View(p)

LEMMA ContextTypes ==
    /\ \A p \in Pids, ring \in {0, 3}, v \in Values : Program(p, ring, v) \in Contexts
    /\ \A p \in Pids, v \in Values : InKernel(p, p, v) \in Contexts
    /\ None \in Contexts /\ None.own = NULL
    /\ \A p \in Pids : p \in Stacks /\ p # IST
    /\ IST \in Stacks
<1>1. \A p \in Pids : p \in Stacks /\ p # IST
  BY PidFacts DEF Stacks, IST
<1> QED BY <1>1 DEF Contexts, Program, InKernel, None, Stacks, Values

LEMMA FieldTypes ==
    ASSUME NEW c \in Contexts
    PROVE  /\ c.ring \in {0, 3} /\ c.kernel \in BOOLEAN
           /\ c.reg \in Values \cup Pids \cup {FAIL}
           /\ \A v \in Values \cup Pids \cup {FAIL} : [c EXCEPT !.reg = v] \in Contexts
BY DEF Contexts

\* Who runs, where interrupts are on or the collector is at its loop head.
LEMMA RunningOwns ==
    ASSUME ProcessInv, ContextInv, phase = RUN, NEW cur, cur = Running
    PROVE  /\ cur \in LiveProcesses /\ cur \in Pids
           /\ Saved(cur) = cpu /\ Owned(cur, cpu, stack[cur])
           /\ ~cpu.kernel => Caller(cur, cpu) /\ entryStack = cur /\ cpu.own = cur
<1>1. cur \in LiveProcesses /\ cur \in Pids
  BY LiveFacts
<1>2. Saved(cur) = cpu
  BY DEF Saved
<1>3. Owned(cur, cpu, stack[cur])
  BY <1>1, <1>2 DEF ContextInv
<1>4. ~cpu.kernel => Caller(cur, cpu)
  BY <1>3 DEF Owned
<1>5. sched.rsp0 = cur \/ cur = Shell
  BY DEF ProcessInv
<1>6. ~cpu.kernel => entryStack = cur
  BY <1>4, <1>5 DEF Caller, Residents, entryStack
<1> QED BY <1>1, <1>2, <1>3, <1>4, <1>6 DEF Caller

\* A blocking call: the caller's registers stay on the stack it runs on.
LEMMA SwitchFromEffect ==
    ASSUME ProcessInv, ContextInv, phase = RUN, phase' = RUN, ~cpu.kernel,
           NEW cur, cur = Running, NEW s, s.runningProcess \in Pids, s.runningProcess # cur,
           NEW v \in Values, switchFrom(s, v), LiveProcesses' = LiveProcesses
    PROVE  ContextInv' /\ ViewsStay
<1>1. /\ cur \in LiveProcesses /\ cur \in Pids /\ Saved(cur) = cpu
      /\ Caller(cur, cpu) /\ entryStack = cur /\ cpu.own = cur /\ LiveProcesses \subseteq Pids
      /\ Owned(cur, Saved(cur), stack[cur])
  BY RunningOwns, LiveFacts
<1>2. PICK next : next = s.runningProcess
  OBVIOUS
<1>3. PICK c : c = InKernel(cur, cur, v)
  OBVIOUS
<1>4. /\ switchContext(next, c) /\ sched' = s /\ stack' = [stack EXCEPT ![cur] = cpu]
      /\ next \in Pids /\ next # cur
  BY <1>1, <1>2, <1>3 DEF switchFrom
<1>5. ContextsTyped /\ c \in Contexts
  BY <1>1, <1>3, ContextTypes DEF ContextInv
<1>6. /\ Saved(cur)' = c
      /\ \A p \in Pids \ {cur} : Saved(p)' = Saved(p)
  BY <1>1, <1>2, <1>4, <1>5, SwitchEffect DEF ContextsTyped
<1>7. stack'[cur] = cpu /\ \A p \in Pids \ {cur} : stack'[p] = stack[p]
  BY <1>1, <1>4, <1>5, ContextTypes DEF ContextsTyped
<1>8. ContextsTyped'
  BY <1>1, <1>4, <1>5, ContextTypes DEF ContextsTyped, switchContext
<1>9. Owned(cur, Saved(cur), stack[cur])' /\ View(cur)' = View(cur)
  <2>1. c.kernel /\ c.stk = cur /\ c.reg = v
    BY <1>3 DEF InKernel
  <2>2. Owned(cur, Saved(cur)', stack'[cur])
    BY <1>1, <1>6, <1>7, <2>1 DEF Owned
  <2>3. Owned(cur, Saved(cur), stack[cur])'
    BY <2>2 DEF Owned, Caller
  <2>4. View(cur)' = [own |-> cpu.own, ring |-> cpu.ring, reg |-> cpu.reg]
    BY <1>6, <1>7, <2>1 DEF View
  <2>5. View(cur) = [own |-> cpu.own, ring |-> cpu.ring, reg |-> cpu.reg]
    BY <1>1 DEF View
  <2> QED BY <2>3, <2>4, <2>5
<1>10. ASSUME NEW p \in LiveProcesses, p # cur
       PROVE  Owned(p, Saved(p), stack[p])' /\ View(p)' = View(p)
  <2>1. Owned(p, Saved(p), stack[p])
    BY DEF ContextInv
  <2>2. Saved(p)' = Saved(p) /\ stack'[p] = stack[p]
    BY <1>1, <1>6, <1>7, <1>10
  <2> QED BY <2>1, <2>2, ViewKept
<1> QED BY <1>8, <1>9, <1>10 DEF ContextInv, ViewsStay

\* Every place of every live process is as it was, or moved as a whole.
LEMMA PlacesKept ==
    ASSUME ContextInv, ContextsTyped', LiveProcesses' = LiveProcesses,
           \A p \in LiveProcesses : Saved(p)' = Saved(p) /\ stack'[p] = stack[p]
    PROVE  ContextInv' /\ ViewsStay
<1>1. ASSUME NEW p \in LiveProcesses
      PROVE  Owned(p, Saved(p), stack[p])' /\ View(p)' = View(p)
  <2>1. Owned(p, Saved(p), stack[p])
    BY DEF ContextInv
  <2> QED BY <2>1, ViewKept
<1> QED BY <1>1 DEF ContextInv, ViewsStay

\* A kernel function that blocks again.
LEMMA SwitchAgainEffect ==
    ASSUME ProcessInv, ContextInv, phase = RUN, phase' = RUN, NEW cur, cur = Running,
           NEW next \in Pids, next # cur, sched'.runningProcess = next,
           switchContext(next, cpu), stack' = stack, LiveProcesses' = LiveProcesses
    PROVE  ContextInv' /\ ViewsStay
<1>1. cur \in Pids /\ Saved(cur) = cpu /\ LiveProcesses \subseteq Pids
  BY RunningOwns, LiveFacts
<1>2. ContextsTyped
  BY DEF ContextInv
<1>3. \A p \in Pids : Saved(p)' = Saved(p)
  <2>1. PICK c : c = cpu
    OBVIOUS
  <2>2. /\ Saved(cur)' = c
        /\ \A p \in Pids \ {cur} : Saved(p)' = Saved(p)
    BY <1>1, <1>2, <2>1, SwitchEffect DEF ContextsTyped
  <2> QED BY <1>1, <2>1, <2>2
<1>4. ContextsTyped'
  BY <1>1, <1>2, ContextTypes DEF ContextsTyped, switchContext
<1> QED BY <1>1, <1>3, <1>4, PlacesKept

\* The running program goes on with v in its register.
Answers(cur, v) ==
    /\ LiveProcesses' = LiveProcesses
    /\ \A p \in LiveProcesses : p # cur => View(p)' = View(p)
    /\ View(cur)' = [View(cur) EXCEPT !.reg = v]

\* A kernel function returns to its caller, with its result.
LEMMA PopEffect ==
    ASSUME ProcessInv, ContextInv, phase = RUN, phase' = RUN, cpu.kernel,
           NEW cur, cur = Running, pop, UNCHANGED <<sched, pcb>>,
           LiveProcesses' = LiveProcesses
    PROVE  ContextInv' /\ \E v \in Values : Answers(cur, v)
<1>1. /\ cur \in LiveProcesses /\ cur \in Pids /\ Saved(cur) = cpu
      /\ Owned(cur, cpu, stack[cur]) /\ LiveProcesses \subseteq Pids
  BY RunningOwns, LiveFacts
<1>2. ContextsTyped
  BY DEF ContextInv
<1>3. cpu.stk = cur /\ cpu.reg \in Values /\ Caller(cur, stack[cur])
  BY <1>1 DEF Owned
<1>4. PICK u, v : u = stack[cur] /\ v = cpu.reg
  OBVIOUS
<1>5. u \in Contexts /\ v \in Values /\ Caller(cur, u) /\ cur \in Stacks /\ cur # IST
  BY <1>1, <1>2, <1>3, <1>4, ContextTypes DEF ContextsTyped
<1>6. cpu' = [u EXCEPT !.reg = v] /\ stack' = [stack EXCEPT ![cur] = None]
  BY <1>3, <1>4 DEF pop
<1>7. /\ cpu' \in Contexts /\ cpu'.own = u.own /\ cpu'.ring = u.ring /\ cpu'.reg = v
      /\ cpu'.kernel = u.kernel
  BY <1>5, <1>6 DEF Contexts
<1>8. ContextsTyped'
  BY <1>2, <1>5, <1>6, <1>7, ContextTypes DEF ContextsTyped
<1>9. /\ Saved(cur)' = cpu'
      /\ \A p \in Pids \ {cur} : Saved(p)' = Saved(p) /\ stack'[p] = stack[p]
  BY <1>2, <1>5, <1>6, ContextTypes DEF Saved, Running, ContextsTyped
<1>10. Owned(cur, Saved(cur), stack[cur])'
  <2>1. Caller(cur, cpu') /\ ~cpu'.kernel
    BY <1>5, <1>7 DEF Caller
  <2>2. Owned(cur, Saved(cur)', stack'[cur])
    BY <1>9, <2>1 DEF Owned
  <2> QED BY <2>2 DEF Owned, Caller
<1>11. View(cur)' = [View(cur) EXCEPT !.reg = v]
  <2>1. View(cur) = [own |-> u.own, ring |-> u.ring, reg |-> u.reg]
    BY <1>1, <1>3, <1>4 DEF View
  <2>2. View(cur)' = [own |-> u.own, ring |-> u.ring, reg |-> v]
    BY <1>5, <1>7, <1>9 DEF View, Caller
  <2> QED BY <2>1, <2>2
<1>12. ASSUME NEW p \in LiveProcesses, p # cur
       PROVE  Owned(p, Saved(p), stack[p])' /\ View(p)' = View(p)
  <2>1. Owned(p, Saved(p), stack[p])
    BY DEF ContextInv
  <2>2. Saved(p)' = Saved(p) /\ stack'[p] = stack[p]
    BY <1>1, <1>9, <1>12
  <2> QED BY <2>1, <2>2, ViewKept
<1>13. ContextInv'
  BY <1>8, <1>10, <1>12 DEF ContextInv
<1>14. Answers(cur, v)
  BY <1>11, <1>12 DEF Answers
<1> QED BY <1>5, <1>13, <1>14

\* A program computes, or has the result of a system call that does not switch.
LEMMA AnswerEffect ==
    ASSUME ProcessInv, ContextInv, phase = RUN, phase' = RUN, ~cpu.kernel,
           NEW cur, cur = Running, NEW v \in Values \cup Pids \cup {FAIL},
           cpu' = [cpu EXCEPT !.reg = v], UNCHANGED <<sched, pcb, stack>>,
           LiveProcesses' = LiveProcesses
    PROVE  ContextInv' /\ Answers(cur, v)
<1>1. /\ cur \in LiveProcesses /\ cur \in Pids /\ Saved(cur) = cpu
      /\ Caller(cur, cpu) /\ LiveProcesses \subseteq Pids
  BY RunningOwns, LiveFacts
<1>2. ContextsTyped
  BY DEF ContextInv
<1>3. PICK c : c = [cpu EXCEPT !.reg = v]
  OBVIOUS
<1>4. /\ c \in Contexts /\ c.own = cpu.own /\ c.ring = cpu.ring /\ c.reg = v
      /\ c.kernel = cpu.kernel
  BY <1>2, <1>3 DEF Contexts, ContextsTyped
<1>5. ContextsTyped'
  BY <1>2, <1>3, <1>4 DEF ContextsTyped
<1>6. /\ Saved(cur)' = c
      /\ \A p \in Pids \ {cur} : Saved(p)' = Saved(p) /\ stack'[p] = stack[p]
  BY <1>3 DEF Saved, Running
<1>7. Owned(cur, Saved(cur), stack[cur])'
  <2>1. Caller(cur, c) /\ ~c.kernel
    BY <1>1, <1>4 DEF Caller
  <2>2. Owned(cur, Saved(cur)', stack'[cur])
    BY <1>6, <2>1 DEF Owned
  <2> QED BY <2>2 DEF Owned, Caller
<1>8. View(cur)' = [View(cur) EXCEPT !.reg = v]
  <2>1. View(cur) = [own |-> cpu.own, ring |-> cpu.ring, reg |-> cpu.reg]
    BY <1>1 DEF View
  <2>2. View(cur)' = [own |-> cpu.own, ring |-> cpu.ring, reg |-> v]
    BY <1>4, <1>6 DEF View
  <2> QED BY <2>1, <2>2
<1>9. ASSUME NEW p \in LiveProcesses, p # cur
      PROVE  Owned(p, Saved(p), stack[p])' /\ View(p)' = View(p)
  <2>1. Owned(p, Saved(p), stack[p])
    BY DEF ContextInv
  <2>2. Saved(p)' = Saved(p) /\ stack'[p] = stack[p]
    BY <1>1, <1>6, <1>9
  <2> QED BY <2>1, <2>2, ViewKept
<1>10. ContextInv'
  BY <1>5, <1>7, <1>9 DEF ContextInv
<1> QED BY <1>8, <1>9, <1>10 DEF Answers

\* The end of a handler: the registers come from the IST or from a PCB.
LEMMA ExchangeEffect ==
    ASSUME ProcessInv, ContextInv, phase # RUN, phase' = RUN,
           NEW s, s.runningProcess \in Pids, exchange(s), sched' = s,
           LiveProcesses' = LiveProcesses
    PROVE  ContextInv' /\ ViewsStay
<1>1. ContextsTyped /\ LiveProcesses \subseteq Pids
  BY LiveFacts DEF ContextInv
<1>2. PICK cur, next : cur = Running /\ next = s.runningProcess
  OBVIOUS
<1>3. cur \in Pids /\ next \in Pids /\ Running' = next /\ Saved(cur) = stack[IST]
  BY <1>2, LiveFacts DEF Running, Saved
<1>4. CASE next = cur
  <2>1. cpu' = stack[IST] /\ stack' = [stack EXCEPT ![IST] = None] /\ pcb' = pcb
    BY <1>2, <1>4 DEF exchange, iretq
  <2>2. ContextsTyped'
    BY <1>1, <2>1, ContextTypes DEF ContextsTyped
  <2>3. \A p \in Pids : Saved(p)' = Saved(p) /\ stack'[p] = stack[p]
    BY <1>1, <1>2, <1>3, <1>4, <2>1, ContextTypes DEF Saved, ContextsTyped
  <2> QED BY <1>1, <2>2, <2>3, PlacesKept
<1>5. CASE next # cur
  <2>1. /\ cpu' = pcb[next] /\ stack' = [stack EXCEPT ![IST] = None]
        /\ pcb' = [pcb EXCEPT ![cur] = stack[IST], ![next] = None]
    BY <1>2, <1>5 DEF exchange, iretq
  <2>2. ContextsTyped'
    BY <1>1, <1>3, <2>1, ContextTypes DEF ContextsTyped
  <2>3. ASSUME NEW p \in Pids PROVE Saved(p)' = Saved(p) /\ stack'[p] = stack[p]
    <3>1. stack'[p] = stack[p]
      BY <1>1, <2>1, ContextTypes DEF ContextsTyped
    <3>2. CASE p = cur
      BY <1>1, <1>3, <1>5, <2>1, <3>1, <3>2 DEF Saved, ContextsTyped
    <3>3. CASE p = next
      BY <1>2, <1>3, <1>5, <2>1, <3>1, <3>3 DEF Saved
    <3>4. CASE p # cur /\ p # next
      BY <1>1, <1>2, <1>3, <2>1, <3>1, <3>4 DEF Saved, ContextsTyped
    <3> QED BY <3>2, <3>3, <3>4
  <2> QED BY <1>1, <2>2, <2>3, PlacesKept
<1> QED BY <1>4, <1>5

-----------------------------------------------------------------------------
(* The steps of PrivateCPUs.                                               *)

LEMMA AnswersIsStep ==
    ASSUME NEW cur \in LiveProcesses, NEW v \in Values \cup {cur, FAIL}, Answers(cur, v)
    PROVE  Private!Next
<1>1. Private!Step(cur)
  <2>1. [p \in LiveProcesses |-> View(p)]'
          = [[p \in LiveProcesses |-> View(p)] EXCEPT ![cur].reg = v]
    BY DEF Answers
  <2>2. v \in Values \cup {cur, Private!FAIL}
    BY DEF FAIL, Private!FAIL
  <2> QED BY <2>1, <2>2 DEF Private!Step
<1>2. cur \in Private!Live
  BY DEF Private!Live
<1> QED BY <1>1, <1>2 DEF Private!Next

LEMMA EndIsStep ==
    ASSUME NEW cur \in LiveProcesses, LiveProcesses' = LiveProcesses \ {cur},
           \A p \in LiveProcesses : p # cur => View(p)' = View(p)
    PROVE  Private!Next
<1>1. Private!Live = LiveProcesses
  BY DEF Private!Live
<1>2. Private!End(cur)
  <2>1. [p \in LiveProcesses |-> View(p)]'
          = [p \in LiveProcesses \ {cur} |-> [q \in LiveProcesses |-> View(q)][p]]
    OBVIOUS
  <2> QED BY <1>1, <2>1 DEF Private!End
<1> QED BY <1>1, <1>2 DEF Private!Next

LEMMA StartIsStep ==
    ASSUME NEW new \in Pids, new \notin LiveProcesses, NEW ring \in {0, 3}, NEW v \in Values,
           LiveProcesses' = LiveProcesses \cup {new},
           View(new)' = [own |-> new, ring |-> ring, reg |-> v],
           \A p \in LiveProcesses : View(p)' = View(p)
    PROVE  Private!Next
<1>1. Private!Live = LiveProcesses
  BY DEF Private!Live
<1>2. Private!Start(new, ring)
  <2>1. [p \in LiveProcesses |-> View(p)]'
          = [p \in LiveProcesses \cup {new} |->
               IF p = new THEN [own |-> new, ring |-> ring, reg |-> v]
               ELSE [q \in LiveProcesses |-> View(q)][p]]
    OBVIOUS
  <2> QED BY <1>1, <2>1 DEF Private!Start
<1> QED BY <1>1, <1>2 DEF Private!Next

\* What a program may see of a step of the kernel.
Invisible == ViewsStay \/ Private!Next

-----------------------------------------------------------------------------
(* The two PICs.                                                           *)

LEMMA LineFacts ==
    /\ Strays \subseteq Lines /\ Lines \subseteq 0 .. 15
    /\ IRQ_TIMER \in Lines /\ IRQ_KEYBOARD \in Lines /\ DiskLines \subseteq Lines
    /\ RUN \notin Lines /\ HALT \notin Lines /\ RUN # HALT
    /\ \A line \in Lines : /\ bits(line) \subseteq Lines \cup {IRQ_SLAVE_PIC}
                           /\ line >= 8 => bits(line) = {line, IRQ_SLAVE_PIC}
                           /\ line < 8 => bits(line) = {line}
    /\ StrayBits \subseteq Lines \cup {IRQ_SLAVE_PIC}
<1>1. /\ Strays \subseteq Lines /\ Lines \subseteq 0 .. 15
      /\ IRQ_TIMER \in Lines /\ IRQ_KEYBOARD \in Lines /\ DiskLines \subseteq Lines
  BY TrapAssumption
  DEF Lines, Handled, IRQ_TIMER, IRQ_KEYBOARD, DiskLines, IRQ_DISK1, IRQ_DISK2
<1>2. RUN \notin Lines /\ HALT \notin Lines /\ RUN # HALT
  BY <1>1 DEF RUN, HALT
<1>3. \A line \in Lines : /\ bits(line) \subseteq Lines \cup {IRQ_SLAVE_PIC}
                          /\ line >= 8 => bits(line) = {line, IRQ_SLAVE_PIC}
                          /\ line < 8 => bits(line) = {line}
  BY <1>1 DEF bits
<1>4. StrayBits \subseteq Lines \cup {IRQ_SLAVE_PIC}
  BY <1>1, <1>3 DEF StrayBits
<1> QED BY <1>1, <1>2, <1>3, <1>4

\* The lowest bit of a set is the only one that is not above another.
LEMMA LowestIs ==
    ASSUME NEW S \in SUBSET Int, NEW b \in S, \A c \in S : b <= c
    PROVE  Lowest(S) = b
<1>1. \A d \in S : (\A c \in S : d <= c) => d = b
  OBVIOUS
<1> QED BY <1>1 DEF Lowest

LEMMA AcceptService ==
    ASSUME ServiceInv, phase = RUN, NEW line \in Lines, deliverable(line),
           service' = service \cup bits(line), phase' = line
    PROVE  ServiceInv'
<1>1. service \subseteq StrayBits
  BY LineFacts DEF ServiceInv
<1>2. Serving(line)'
  <2>1. \A b \in service' : b < 8 => onMaster(line) <= b
    BY <1>1, LineFacts DEF deliverable, onMaster, IRQ_SLAVE_PIC
  <2>2. line >= 8 => \A b \in service' : b >= 8 => line <= b
    BY <1>1, LineFacts DEF deliverable, IRQ_SLAVE_PIC
  <2> QED BY <1>1, <2>1, <2>2 DEF Serving
<1> QED BY <1>2 DEF ServiceInv

\* The EOI clears the bits of the line whose handler sends it.
LEMMA EOIService ==
    ASSUME ServiceInv, NEW line \in Handled, phase = line,
           service' = sendEOI(line), phase' = RUN
    PROVE  ServiceInv'
<1> DEFINE master == {b \in service : b < 8}
           slave  == {b \in service : b >= 8}
<1>1. /\ line \in Lines /\ Serving(line) /\ line \in 0 .. 15 /\ service \subseteq Int
      /\ IRQ_SLAVE_PIC = 2
  BY LineFacts DEF ServiceInv, Serving, Lines, IRQ_SLAVE_PIC
<1>2. onMaster(line) \in bits(line) /\ onMaster(line) < 8 /\ onMaster(line) \in Int
  BY <1>1, LineFacts DEF onMaster
<1>3. onMaster(line) \in master /\ \A b \in master : onMaster(line) <= b
  BY <1>1, <1>2 DEF Serving
<1>4. Lowest(master) = onMaster(line) /\ master # {}
  BY <1>1, <1>3, LowestIs
<1>5. line >= 8 => Lowest(slave) = line /\ slave # {}
  <2> SUFFICES ASSUME line >= 8 PROVE Lowest(slave) = line /\ slave # {}
    OBVIOUS
  <2>1. line \in slave /\ \A b \in slave : line <= b
    BY <1>1, LineFacts DEF Serving
  <2> QED BY <1>1, <2>1, LowestIs
<1>6. service' = service \ ( (IF master = {} THEN {} ELSE {Lowest(master)})
                   \cup (IF line < 8 \/ slave = {} THEN {} ELSE {Lowest(slave)}) )
  BY DEF sendEOI
<1> HIDE DEF master, slave
<1>7. service' \subseteq service \ bits(line)
  <2>1. CASE line < 8
    BY <1>1, <1>4, <1>6, <2>1, LineFacts DEF onMaster
  <2>2. CASE line >= 8
    BY <1>1, <1>4, <1>5, <1>6, <2>2, LineFacts DEF onMaster
  <2> QED BY <1>1, <2>1, <2>2
<1>8. service' \subseteq StrayBits
  BY <1>1, <1>7 DEF Serving
<1> QED BY <1>8, LineFacts DEF ServiceInv

\* A line without a handler stays in service.
LEMMA StrayService ==
    ASSUME ServiceInv, NEW line \in Strays, phase = line, service' = service, phase' = RUN
    PROVE  ServiceInv'
<1>1. bits(line) \subseteq StrayBits
  BY DEF StrayBits
<1>2. service \subseteq StrayBits
  BY <1>1, LineFacts DEF ServiceInv, Serving
<1> QED BY <1>2, LineFacts DEF ServiceInv

-----------------------------------------------------------------------------
(* The initial state, and one lemma per operation.                         *)

\* A step that ends with a program or the kernel running, in no handler.
LEMMA RunningInv ==
    ASSUME ProcessInv', ContextInv', KeyInv', ServiceInv', phase' = RUN
    PROVE  TrapInv'
BY LineFacts DEF TrapInv, HaltInv

LEMMA PhaseStays ==
    ASSUME ServiceInv, UNCHANGED <<phase, service>>
    PROVE  ServiceInv'
BY DEF ServiceInv, Serving

LEMMA InitTrap == Init => TrapInv /\ Private!Init
<1> SUFFICES ASSUME Init PROVE TrapInv /\ Private!Init
  OBVIOUS
<1>1. PICK start : start = removeList(<<Collector, Idle>>, Idle)
  OBVIOUS
<1>2. /\ start \in Seq(Pids) /\ IsInjectiveList(start) /\ Elems(start) = {Collector}
  <2>1. PICK two : two = <<Collector, Idle>>
    OBVIOUS
  <2>2. two \in Seq(Pids) /\ Len(two) = 2 /\ two[1] = Collector /\ two[2] = Idle
    BY <2>1, PidFacts
  <2>3. Collector # Idle
    BY DEF Collector, Idle
  <2>4. IsInjectiveList(two) /\ Elems(two) = {Collector, Idle}
    BY <2>2, <2>3 DEF IsInjectiveList, Elems
  <2>5. start = removeList(two, Idle)
    BY <1>1, <2>1
  <2> QED BY <2>2, <2>3, <2>4, <2>5, RemoveProperties
<1>3. Shell # Collector /\ Shell # Idle /\ Collector # Idle
  BY DEF Shell, Collector, Idle
<1>4. /\ sched.runningProcess = Shell /\ sched.processList = start
      /\ sched.sleepList = <<>> /\ sched.rsp0 = NULL
      /\ sched.state = [p \in Pids |-> IF p = Shell THEN RUNNING ELSE READY]
  BY <1>1 DEF Init, initScheduler
<1>5. sched \in SchedType
  <2>1. PICK st, wake : /\ st = [p \in Pids |-> IF p = Shell THEN RUNNING ELSE READY]
                        /\ wake = [p \in Pids |-> 0]
    OBVIOUS
  <2>2. st \in [Pids -> States] /\ wake \in [Pids -> Nat]
    BY <2>1, StateFacts
  <2>3. sched = [runningProcess |-> Shell, processList |-> start, sleepList |-> <<>>,
                 state |-> st, wakeupTick |-> wake, rsp0 |-> NULL]
    BY <1>1, <2>1 DEF Init, initScheduler
  <2>4. Shell \in Pids /\ <<>> \in Seq(Pids)
    BY PidFacts
  <2> QED BY <1>2, <2>2, <2>3, <2>4 DEF SchedType
<1>6. LiveProcesses = {Shell, Collector, Idle} /\ Scheduled = {Shell, Collector}
  BY <1>3, <1>4, PidFacts, StateFacts DEF Init, LiveProcesses, Scheduled
<1>7. ProcessInv
  <2>1. Listed(sched, Scheduled)
    BY <1>2, <1>3, <1>4, <1>5, <1>6, PidFacts, EmptyProperties DEF Listed
  <2>2. Consistent(sched, Scheduled)
    BY <1>3, <1>4, <2>1 DEF Consistent
  <2> QED BY <1>4, <1>6, <2>2, PidFacts, EmptyProperties
          DEF Init, ProcessInv, Residents, Running
<1>8. /\ cpu = Program(Shell, 0, 0) /\ phase = RUN
      /\ pcb = [p \in Pids |-> IF p \in {Collector, Idle} THEN Program(p, 0, 0) ELSE None]
      /\ stack = [k \in Stacks |-> None]
  BY DEF Init
<1>9. ContextsTyped
  <2>1. \A p \in Pids : Program(p, 0, 0) \in Contexts
    BY ContextTypes DEF Values
  <2> QED BY <1>8, <2>1, ContextTypes, PidFacts DEF ContextsTyped
<1>10. \A p \in LiveProcesses : Saved(p) = Program(p, 0, 0)
  BY <1>3, <1>4, <1>6, <1>8, PidFacts DEF Saved, Running
<1>11. ContextInv
  BY <1>9, <1>10 DEF ContextInv, Owned, Caller, Program
<1>12. KeyInv /\ ServiceInv /\ HaltInv
  <2>1. KeyInv
    <3>1. keyQueue = 0 /\ keyWaiter = NULL
      BY Zenon DEF Init
    <3>2. occurFlag \in [DiskLines -> BOOLEAN]
      BY DEF Init
    <3>3. keyQueue \in 0 .. MaxKeys
      BY <3>1, TrapAssumption
    <3> QED BY <3>1, <3>2, <3>3, Zenon DEF KeyInv
  <2>2. service = {} /\ phase \notin Lines /\ phase # HALT
    BY <1>8, LineFacts DEF Init
  <2> QED BY <1>8, <2>1, <2>2 DEF ServiceInv, HaltInv
<1>13. Private!Init
  <2>1. \A p \in LiveProcesses : View(p) = [own |-> p, ring |-> 0, reg |-> 0]
    BY <1>10 DEF View, Program
  <2>2. Private!Live = LiveProcesses /\ LiveProcesses = {0, 1, 2} /\ {0, 1, 2} \subseteq Pids
    BY <1>6, PidFacts DEF Private!Live, Shell, Collector, Idle
  <2>3. [p \in LiveProcesses |-> View(p)] \in [{0, 1, 2} -> Private!Processor]
    BY <2>1, <2>2 DEF Private!Processor, Values
  <2> QED BY <2>1, <2>2, <2>3 DEF Private!Init
<1> QED BY <1>7, <1>11, <1>12, <1>13 DEF TrapInv

LEMMA AcceptInv ==
    ASSUME TrapInv, NEW line \in Lines, acceptInterrupt(line)
    PROVE  TrapInv' /\ ViewsStay
<1>1. /\ ProcessInv /\ ContextInv /\ KeyInv /\ ServiceInv
      /\ phase = RUN /\ deliverable(line) /\ service' = service \cup bits(line)
      /\ stack' = [stack EXCEPT ![IST] = cpu] /\ phase' = line
      /\ UNCHANGED <<kernelVars, cpu>>
  BY DEF TrapInv, acceptInterrupt, InterruptsOn
<1>2. /\ UNCHANGED <<sched, allocProcessTable, exitProcessQueue, pcb, keyQueue,
                     keyWaiter, occurFlag, cpu>>
  BY <1>1 DEF kernelVars
<1>3. ProcessInv' /\ LiveProcesses' = LiveProcesses
  BY <1>1, <1>2, ProcessSame
<1>4. ServiceInv'
  BY <1>1, AcceptService
<1>5. ContextsTyped /\ ContextsTyped' /\ LiveProcesses \subseteq Pids
  BY <1>1, <1>2, LiveFacts, ContextTypes DEF ContextInv, ContextsTyped
<1>6. line # RUN /\ line # HALT
  BY LineFacts
<1>7. \A p \in LiveProcesses : Saved(p)' = Saved(p) /\ stack'[p] = stack[p]
  BY <1>1, <1>2, <1>5, <1>6, ContextTypes DEF Saved, Running, ContextsTyped
<1>8. ContextInv' /\ ViewsStay
  BY <1>1, <1>3, <1>5, <1>7, PlacesKept
<1>9. KeyInv' /\ HaltInv'
  BY <1>1, <1>2, <1>6 DEF KeyInv, HaltInv
<1> QED BY <1>3, <1>4, <1>8, <1>9 DEF TrapInv

\* A handler that leaves the scheduler as s.
LEMMA HandlerEffect ==
    ASSUME ProcessInv, ContextInv, phase # RUN, phase' = RUN, NEW s, sched' = s,
           Consistent(s, Scheduled), Keeps(sched, s), exchange(s),
           UNCHANGED <<allocProcessTable, exitProcessQueue>>
    PROVE  ProcessInv' /\ ContextInv' /\ ViewsStay
<1>1. ProcessInv' /\ LiveProcesses' = LiveProcesses
  BY ProcessKept
<1>2. s.runningProcess \in Pids
  BY LiveFacts, ListedFields DEF Consistent
<1> QED BY <1>1, <1>2, ExchangeEffect

LEMMA DispatchInv ==
    ASSUME TrapInv, NEW line \in Lines, dispatchInterrupt(line)
    PROVE  TrapInv' /\ ViewsStay
<1>1. /\ ProcessInv /\ ContextInv /\ KeyInv /\ ServiceInv
      /\ phase = line /\ phase # RUN /\ phase' = RUN
      /\ UNCHANGED <<allocProcessTable, exitProcessQueue, keyWaiter>>
  BY LineFacts DEF TrapInv, dispatchInterrupt
<1>2. /\ Consistent(sched, Scheduled) /\ Scheduled \in SUBSET (Pids \ {Idle})
      /\ keyWaiter \in Scheduled \cup {NULL}
  BY <1>1, LiveFacts DEF ProcessInv, KeyInv
<1>3. Keeps(sched, sched)
  BY DEF Keeps
<1>4. ASSUME line = IRQ_TIMER, timerInterruptHandler
      PROVE  ProcessInv' /\ ContextInv' /\ ViewsStay /\ KeyInv' /\ ServiceInv'
  <2>1. PICK s : s = timeoutSchedule(wakeExpiredProcess(tickCount(sched)))
    OBVIOUS
  <2>2. sched' = s /\ exchange(s)
    BY <1>4, <2>1 DEF timerInterruptHandler
  <2>3. Consistent(s, Scheduled) /\ Keeps(sched, s)
    BY <1>2, <2>1, ConsistentTimer, KeepsTimer
  <2>4. ServiceInv'
    BY <1>1, <1>4, EOIService DEF timerInterruptHandler, Handled
  <2>5. KeyInv'
    BY <1>1, <1>4 DEF timerInterruptHandler, KeyInv
  <2> QED BY <1>1, <2>2, <2>3, <2>4, <2>5, HandlerEffect
<1>5. ASSUME line = IRQ_KEYBOARD, keyboardInterruptHandler
      PROVE  ProcessInv' /\ ContextInv' /\ ViewsStay /\ KeyInv' /\ ServiceInv'
  <2>1. PICK s : s = sched'
    OBVIOUS
  <2>2. s = wakeupProcessInInterrupt(sched, keyWaiter) \/ s = sched
    BY <1>5, <2>1 DEF keyboardInterruptHandler
  <2>3. Consistent(s, Scheduled) /\ Keeps(sched, s)
    BY <1>2, <1>3, <2>2, ConsistentWakeInInterrupt, KeepsWakeInInterrupt
  <2>4. exchange(s)
    BY <1>5, <2>1 DEF keyboardInterruptHandler
  <2>5. ServiceInv'
    BY <1>1, <1>5, EOIService DEF keyboardInterruptHandler, Handled
  <2>6. KeyInv'
    BY <1>1, <1>5, TrapAssumption DEF keyboardInterruptHandler, KeyInv
  <2> QED BY <1>1, <2>1, <2>3, <2>4, <2>5, <2>6, HandlerEffect
<1>6. ASSUME line \in DiskLines, diskInterruptHandler(line)
      PROVE  ProcessInv' /\ ContextInv' /\ ViewsStay /\ KeyInv' /\ ServiceInv'
  <2>1. sched' = sched /\ exchange(sched)
    BY <1>6 DEF diskInterruptHandler
  <2>2. ServiceInv'
    BY <1>1, <1>6, EOIService DEF diskInterruptHandler, Handled
  <2>3. KeyInv'
    BY <1>1, <1>6 DEF diskInterruptHandler, KeyInv
  <2> QED BY <1>1, <1>2, <1>3, <2>1, <2>2, <2>3, HandlerEffect
<1>7. ASSUME line \in Strays, unhandled
      PROVE  ProcessInv' /\ ContextInv' /\ ViewsStay /\ KeyInv' /\ ServiceInv'
  <2>1. sched' = sched /\ exchange(sched) /\ service' = service
    BY <1>7 DEF unhandled
  <2>2. ServiceInv'
    BY <1>1, <1>7, <2>1, StrayService
  <2>3. KeyInv'
    BY <1>1, <1>7 DEF unhandled, KeyInv
  <2> QED BY <1>1, <1>2, <1>3, <2>1, <2>2, <2>3, HandlerEffect
<1>8. ProcessInv' /\ ContextInv' /\ ViewsStay /\ KeyInv' /\ ServiceInv'
  BY <1>4, <1>5, <1>6, <1>7 DEF dispatchInterrupt
<1> QED BY <1>1, <1>8, RunningInv

LEMMA CallFacts ==
    ASSUME TrapInv, NEW p, Calls(p)
    PROVE  /\ ProcessInv /\ ContextInv /\ KeyInv /\ ServiceInv
           /\ phase = RUN /\ ~cpu.kernel /\ Running = p /\ p # Idle /\ p # Collector
           /\ p \in LiveProcesses /\ p \in Scheduled
BY LiveFacts DEF TrapInv, Calls, InterruptsOn

\* The running process blocks, in a call of its program or again.
LEMMA BlockEffect ==
    ASSUME ProcessInv, ContextInv, phase = RUN, phase' = RUN, Running # Idle,
           NEW ticks \in Nat, NEW s,
           s = blockRunningProcess(sched) \/ s = sleepUntilTick(sched, ticks),
           NEW v \in Values,
           \/ ~cpu.kernel /\ switchFrom(s, v)
           \/ sched' = s /\ switchContext(s.runningProcess, cpu) /\ stack' = stack,
           UNCHANGED <<allocProcessTable, exitProcessQueue>>
    PROVE  ProcessInv' /\ ContextInv' /\ ViewsStay
<1>1. /\ Consistent(sched, Scheduled) /\ Scheduled \in SUBSET (Pids \ {Idle})
      /\ sched.state[Idle] # EXITED /\ sched.runningProcess # Idle
  BY LiveFacts DEF ProcessInv, Running
<1>2. Keeps(sched, s)
  BY <1>1, KeepsBlock
<1>3. Consistent(s, Scheduled) /\ s.runningProcess # Running
  BY <1>1, ConsistentBlock, ConsistentSleep DEF Sleeps, Blocks, Running
<1>4. sched' = s
  BY DEF switchFrom
<1>5. ProcessInv' /\ LiveProcesses' = LiveProcesses
  BY <1>2, <1>3, <1>4, ProcessKept
<1>6. PICK cur, next : cur = Running /\ next = s.runningProcess
  OBVIOUS
<1>7. next \in Pids /\ next # cur
  BY <1>1, <1>3, <1>6, ListedFields DEF Consistent
<1>8. CASE ~cpu.kernel /\ switchFrom(s, v)
  BY <1>5, <1>6, <1>7, <1>8, SwitchFromEffect
<1>9. CASE switchContext(s.runningProcess, cpu) /\ stack' = stack
  <2>1. switchContext(next, cpu) /\ sched'.runningProcess = next
    BY <1>4, <1>6, <1>9
  <2> QED BY <1>5, <1>6, <1>7, <1>9, <2>1, SwitchAgainEffect
<1> QED BY <1>5, <1>8, <1>9

LEMMA ComputeInv ==
    ASSUME TrapInv, NEW p, compute(p) \/ syscallReturns(p)
    PROVE  TrapInv' /\ Private!Next
<1>1. Calls(p)
  BY DEF compute, syscallReturns
<1>2. PICK v \in Values \cup {p, FAIL} : cpu' = [cpu EXCEPT !.reg = v]
  BY <1>1 DEF compute, syscallReturns, Values, Calls
<1>3. UNCHANGED <<kernelVars, stack, phase, service>>
  BY DEF compute, syscallReturns
<1>4. UNCHANGED <<sched, allocProcessTable, exitProcessQueue, pcb, keyQueue,
                  keyWaiter, occurFlag, stack, phase, service>>
  BY <1>3 DEF kernelVars
<1>5. /\ ProcessInv /\ ContextInv /\ KeyInv /\ ServiceInv
      /\ phase = RUN /\ ~cpu.kernel /\ Running = p /\ p \in LiveProcesses
  BY <1>1, CallFacts
<1>6. ProcessInv' /\ LiveProcesses' = LiveProcesses
  BY <1>4, <1>5, ProcessSame
<1>7. v \in Values \cup Pids \cup {FAIL}
  BY <1>5, LiveFacts
<1>8. ContextInv' /\ Answers(p, v)
  BY <1>2, <1>4, <1>5, <1>6, <1>7, AnswerEffect
<1>9. Private!Next
  BY <1>5, <1>8, AnswersIsStep
<1>10. KeyInv' /\ ServiceInv'
  BY <1>4, <1>5, PhaseStays DEF KeyInv
<1> QED BY <1>4, <1>5, <1>6, <1>8, <1>9, <1>10, RunningInv

LEMMA SleepInv ==
    ASSUME TrapInv, NEW p, sleepProcess(p)
    PROVE  TrapInv' /\ ViewsStay
<1>1. PICK ms \in Millis : switchFrom(sleepUntilTick(sched, ticksOf(ms)), 0)
  BY DEF sleepProcess
<1>2. PICK ticks : ticks = ticksOf(ms)
  OBVIOUS
<1>3. ticks \in Nat
  BY <1>2, TrapAssumption, TicksInNat
<1>4. PICK s : s = sleepUntilTick(sched, ticks)
  OBVIOUS
<1>5. /\ ProcessInv /\ ContextInv /\ KeyInv /\ ServiceInv
      /\ phase = RUN /\ ~cpu.kernel /\ Running # Idle
      /\ UNCHANGED <<allocProcessTable, exitProcessQueue, phase, service,
                     keyQueue, keyWaiter, occurFlag>>
  BY CallFacts DEF sleepProcess
<1>6. switchFrom(s, 0) /\ 0 \in Values
  BY <1>1, <1>2, <1>4 DEF Values
<1>7. ProcessInv' /\ ContextInv' /\ ViewsStay
  BY <1>3, <1>4, <1>5, <1>6, BlockEffect
<1>8. KeyInv' /\ ServiceInv'
  BY <1>5, PhaseStays DEF KeyInv
<1> QED BY <1>5, <1>7, <1>8, RunningInv

LEMMA GetKeyInv ==
    ASSUME TrapInv, NEW p, getKey(p)
    PROVE  TrapInv' /\ ViewsStay
<1>1. /\ ProcessInv /\ ContextInv /\ KeyInv /\ ServiceInv /\ phase = RUN
      /\ keyQueue > 0 /\ keyQueue' = keyQueue - 1
      /\ UNCHANGED <<sched, allocProcessTable, exitProcessQueue, cpu, pcb, stack, phase,
                     service, keyWaiter, occurFlag>>
  BY CallFacts DEF getKey
<1>2. ProcessInv' /\ LiveProcesses' = LiveProcesses
  BY <1>1, ProcessSame
<1>3. ContextsTyped' /\ \A q \in LiveProcesses : Saved(q)' = Saved(q) /\ stack'[q] = stack[q]
  BY <1>1 DEF ContextInv, ContextsTyped, Saved, Running
<1>4. ContextInv' /\ ViewsStay
  BY <1>1, <1>2, <1>3, PlacesKept
<1>5. KeyInv' /\ ServiceInv'
  BY <1>1, PhaseStays, TrapAssumption DEF KeyInv
<1> QED BY <1>1, <1>2, <1>4, <1>5, RunningInv

LEMMA GetKeyBlocksInv ==
    ASSUME TrapInv, NEW p, getKeyBlocks(p)
    PROVE  TrapInv' /\ ViewsStay
<1>1. PICK s : s = blockRunningProcess(sched)
  OBVIOUS
<1>2. /\ ProcessInv /\ ContextInv /\ KeyInv /\ ServiceInv
      /\ phase = RUN /\ ~cpu.kernel /\ Running # Idle
      /\ p = Shell /\ keyWaiter' = p /\ switchFrom(s, 1)
      /\ UNCHANGED <<allocProcessTable, exitProcessQueue, phase, service,
                     keyQueue, occurFlag>>
  BY <1>1, CallFacts DEF getKeyBlocks
<1>3. 1 \in Values /\ 0 \in Nat
  BY DEF Values
<1>4. ProcessInv' /\ ContextInv' /\ ViewsStay
  BY <1>1, <1>2, <1>3, BlockEffect
<1>5. KeyInv' /\ ServiceInv'
  BY <1>2, PhaseStays DEF KeyInv
<1> QED BY <1>2, <1>4, <1>5, RunningInv

LEMMA ResumeInv ==
    ASSUME TrapInv, resume
    PROVE  TrapInv' /\ Invisible
<1>1. /\ ProcessInv /\ ContextInv /\ KeyInv /\ ServiceInv
      /\ phase = RUN /\ cpu.kernel
      /\ UNCHANGED <<allocProcessTable, exitProcessQueue, phase, service, occurFlag>>
  BY DEF TrapInv, resume
<1>2. ServiceInv'
  BY <1>1, PhaseStays
<1>3. CASE keyWaiter = Running /\ getKeyAgain
  <2>1. PICK s : s = blockRunningProcess(sched)
    OBVIOUS
  <2>2. Running = Shell /\ Running # Idle
    BY <1>1, <1>3, LiveFacts, PidFacts DEF KeyInv, Shell, Idle
  <2>3. /\ sched' = s /\ switchContext(s.runningProcess, cpu) /\ stack' = stack
        /\ keyQueue' = keyQueue /\ keyWaiter' = Running
    BY <1>3, <2>1 DEF getKeyAgain
  <2>4. 0 \in Values /\ 0 \in Nat
    BY DEF Values
  <2>5. ProcessInv' /\ ContextInv' /\ ViewsStay
    BY <1>1, <2>1, <2>2, <2>3, <2>4, BlockEffect
  <2>6. KeyInv'
    BY <1>1, <2>2, <2>3 DEF KeyInv
  <2> QED BY <1>1, <1>2, <2>5, <2>6, RunningInv DEF Invisible
<1>4. CASE returnToCaller
  <2>1. PICK cur : cur = Running
    OBVIOUS
  <2>2. /\ pop /\ UNCHANGED <<sched, pcb>>
        /\ keyQueue' = keyQueue \/ (keyQueue > 0 /\ keyQueue' = keyQueue - 1)
        /\ keyWaiter' \in {NULL, keyWaiter}
    BY <1>4 DEF returnToCaller
  <2>3. ProcessInv' /\ LiveProcesses' = LiveProcesses /\ cur \in LiveProcesses
    BY <1>1, <2>1, <2>2, ProcessSame, LiveFacts
  <2>4. ContextInv' /\ \E v \in Values : Answers(cur, v)
    BY <1>1, <2>1, <2>2, <2>3, PopEffect
  <2>5. Private!Next
    BY <2>3, <2>4, AnswersIsStep
  <2>6. KeyInv'
    BY <1>1, <2>2, TrapAssumption DEF KeyInv
  <2> QED BY <1>1, <1>2, <2>3, <2>4, <2>5, <2>6, RunningInv DEF Invisible
<1> QED BY <1>3, <1>4 DEF resume

LEMMA CollectorBlocksInv ==
    ASSUME TrapInv, collectorBlocks
    PROVE  TrapInv' /\ ViewsStay
<1>1. PICK s : s = blockRunningProcess(sched)
  OBVIOUS
<1>2. /\ ProcessInv /\ ContextInv /\ KeyInv /\ ServiceInv
      /\ phase = RUN /\ Running = Collector
      /\ UNCHANGED <<allocProcessTable, exitProcessQueue, phase, service,
                     keyQueue, keyWaiter, occurFlag>>
  BY DEF TrapInv, collectorBlocks, collectorTurn
<1>3. \/ ~cpu.kernel /\ switchFrom(s, 0)
      \/ sched' = s /\ switchContext(s.runningProcess, cpu) /\ stack' = stack
  BY <1>1 DEF collectorBlocks
<1>4. Running # Idle /\ 0 \in Values /\ 0 \in Nat
  BY <1>2 DEF Collector, Idle, Values
<1>5. ProcessInv' /\ ContextInv' /\ ViewsStay
  BY <1>1, <1>2, <1>3, <1>4, BlockEffect
<1>6. KeyInv' /\ ServiceInv'
  BY <1>2, PhaseStays DEF KeyInv
<1> QED BY <1>2, <1>5, <1>6, RunningInv

\* The pid that becomes free belongs to a process that has ended, and its other
\* copies are not in the queue.
LEMMA CollectorReclaimsInv ==
    ASSUME TrapInv, collectorReclaims
    PROVE  TrapInv' /\ Invisible
<1>1. /\ ProcessInv /\ ContextInv /\ KeyInv /\ ServiceInv
      /\ phase = RUN /\ Running = Collector /\ exitProcessQueue # <<>>
      /\ exitProcessQueue' = Tail(exitProcessQueue)
      /\ allocProcessTable' = allocProcessTable \ {Head(exitProcessQueue)}
      /\ UNCHANGED <<sched, pcb, phase, service, keyQueue, keyWaiter, occurFlag>>
  BY DEF TrapInv, collectorReclaims, collectorTurn
<1>2. PICK dead, rest : dead = Head(exitProcessQueue) /\ rest = Tail(exitProcessQueue)
  OBVIOUS
<1>3. exitProcessQueue \in Seq(Pids) /\ IsInjectiveList(exitProcessQueue)
  BY <1>1 DEF ProcessInv
<1>4. /\ rest \in Seq(Pids) /\ IsInjectiveList(rest) /\ dead \in Elems(exitProcessQueue)
      /\ Elems(rest) = Elems(exitProcessQueue) \ {dead}
  <2>1. rest = HeadRemove(exitProcessQueue) /\ dead = HeadOf(exitProcessQueue)
    BY <1>1, <1>2, <1>3, HeadRemoveIsTail DEF HeadOf
  <2> QED BY <1>1, <1>3, <2>1, HeadProperties
<1>5. sched.state[dead] = EXITED
  BY <1>1, <1>4 DEF ProcessInv
<1>6. LiveProcesses' = LiveProcesses /\ Scheduled' = Scheduled
  <2>1. LiveProcesses' = LiveProcesses
    BY <1>1, <1>2, <1>5 DEF LiveProcesses
  <2> QED BY <2>1 DEF Scheduled
<1>7. ProcessInv'
  <2>1. allocProcessTable' \subseteq Pids
    BY <1>1 DEF ProcessInv
  <2>2. \A p \in Elems(rest) : p \in allocProcessTable' /\ sched'.state[p] = EXITED
    BY <1>1, <1>2, <1>4 DEF ProcessInv
  <2> QED BY <1>1, <1>2, <1>4, <1>6, <2>1, <2>2 DEF ProcessInv, Running
<1>8. KeyInv' /\ ServiceInv'
  BY <1>1, PhaseStays DEF KeyInv
<1>9. CASE cpu.kernel
  <2>1. PICK cur : cur = Running
    OBVIOUS
  <2>2. pop
    BY <1>9 DEF collectorReclaims
  <2>3. ContextInv' /\ \E v \in Values : Answers(cur, v)
    BY <1>1, <1>6, <1>9, <2>1, <2>2, PopEffect
  <2>4. Private!Next
    BY <1>1, <2>1, <2>3, LiveFacts, AnswersIsStep
  <2> QED BY <1>1, <1>7, <1>8, <2>3, <2>4, RunningInv DEF Invisible
<1>10. CASE ~cpu.kernel
  <2>1. UNCHANGED <<cpu, stack>>
    BY <1>10 DEF collectorReclaims
  <2>2. ContextsTyped' /\ \A q \in LiveProcesses : Saved(q)' = Saved(q) /\ stack'[q] = stack[q]
    BY <1>1, <2>1 DEF ContextInv, ContextsTyped, Saved, Running
  <2>3. ContextInv' /\ ViewsStay
    BY <1>1, <1>6, <2>2, PlacesKept
  <2> QED BY <1>1, <1>7, <1>8, <2>3, RunningInv DEF Invisible
<1> QED BY <1>9, <1>10

LEMMA CreateInv ==
    ASSUME TrapInv, NEW p, createProcess(p)
    PROVE  TrapInv' /\ Private!Next
<1>1. /\ ProcessInv /\ ContextInv /\ KeyInv /\ ServiceInv
      /\ phase = RUN /\ Running # Idle
      /\ UNCHANGED <<exitProcessQueue, cpu, stack, phase, service, keyQueue,
                     keyWaiter, occurFlag>>
  BY CallFacts DEF createProcess
<1>2. PICK new \in Pids \ allocProcessTable, ring \in CreateRings, arg \in Values :
        /\ sched' = makeReady(sched, new)
        /\ allocProcessTable' = allocProcessTable \cup {new}
        /\ pcb' = [pcb EXCEPT ![new] = Program(new, ring, arg)]
  BY DEF createProcess
<1>3. /\ Consistent(sched, Scheduled) /\ Scheduled \in SUBSET (Pids \ {Idle})
      /\ LiveProcesses \subseteq Pids /\ Running \in LiveProcesses
      /\ Residents \subseteq LiveProcesses /\ sched.runningProcess # Idle
      /\ sched.state \in [Pids -> States]
  BY <1>1, LiveFacts DEF ProcessInv, Running
<1>4. new \notin LiveProcesses /\ new # Idle /\ new # Running /\ new \notin Residents
  BY <1>2, <1>3 DEF LiveProcesses, Residents
<1>5. /\ Consistent(sched', Scheduled \cup {new})
      /\ Running' = Running /\ sched'.rsp0 = sched.rsp0
      /\ sched'.state = [sched.state EXCEPT ![new] = READY]
  <2>1. PICK t : t = makeReady(sched, new)
    OBVIOUS
  <2>2. /\ Consistent(t, Scheduled \cup {new})
        /\ t.runningProcess = sched.runningProcess /\ t.rsp0 = sched.rsp0
        /\ t.state = [sched.state EXCEPT ![new] = READY]
    BY <1>3, <1>4, <2>1, ConsistentCreate DEF Scheduled
  <2> QED BY <1>2, <2>1, <2>2 DEF Running
<1>6. LiveProcesses' = LiveProcesses \cup {new} /\ Scheduled' = Scheduled \cup {new}
  <2>1. LiveProcesses' = LiveProcesses \cup {new}
    BY <1>1, <1>2, <1>3, <1>5, StateFacts DEF LiveProcesses, ProcessInv
  <2> QED BY <1>4, <2>1 DEF Scheduled
<1>7. ProcessInv'
  <2>1. \A q \in Elems(exitProcessQueue) : q \in allocProcessTable' /\ sched'.state[q] = EXITED
    BY <1>1, <1>2, <1>3, <1>5 DEF ProcessInv
  <2> QED BY <1>1, <1>2, <1>3, <1>5, <1>6, <2>1 DEF ProcessInv
<1>8. PICK c : c = Program(new, ring, arg)
  OBVIOUS
<1>9. /\ c \in Contexts /\ Caller(new, c) /\ ~c.kernel /\ ring \in {0, 3}
      /\ c.own = new /\ c.ring = ring /\ c.reg = arg
  BY <1>2, <1>4, <1>8, ContextTypes, TrapAssumption DEF Caller, Program
<1>10. ContextsTyped /\ ContextsTyped' /\ pcb' = [pcb EXCEPT ![new] = c]
  BY <1>1, <1>2, <1>8, <1>9 DEF ContextInv, ContextsTyped
<1>11. Saved(new)' = c /\ Owned(new, Saved(new), stack[new])'
  <2>1. Saved(new)' = c
    BY <1>4, <1>5, <1>10 DEF Saved, ContextsTyped
  <2> QED BY <1>9, <2>1 DEF Owned, Caller
<1>12. ASSUME NEW q \in LiveProcesses
       PROVE  Owned(q, Saved(q), stack[q])' /\ View(q)' = View(q)
  <2>1. Saved(q)' = Saved(q) /\ stack'[q] = stack[q]
    BY <1>1, <1>3, <1>4, <1>5, <1>10 DEF Saved, ContextsTyped
  <2>2. Owned(q, Saved(q), stack[q])
    BY <1>1 DEF ContextInv
  <2> QED BY <2>1, <2>2, ViewKept
<1>13. ContextInv'
  BY <1>6, <1>10, <1>11, <1>12 DEF ContextInv
<1>14. View(new)' = [own |-> new, ring |-> ring, reg |-> arg]
  BY <1>9, <1>11 DEF View
<1>15. Private!Next
  BY <1>4, <1>6, <1>9, <1>12, <1>14, StartIsStep
<1>16. KeyInv' /\ ServiceInv'
  BY <1>1, PhaseStays DEF KeyInv
<1> QED BY <1>1, <1>7, <1>13, <1>15, <1>16, RunningInv

\* exitProcess of a process that is no resident, on its own stack or on the IST.
LEMMA ExitInv ==
    ASSUME TrapInv, NEW cur, Calls(cur), cur \notin Residents,
           NEW k \in {cur, IST}, exitProcess(k)
    PROVE  TrapInv' /\ Private!Next
<1>1. /\ ProcessInv /\ ContextInv /\ KeyInv /\ ServiceInv /\ phase = RUN
      /\ Running = cur /\ cur # Idle /\ cur # Collector
      /\ cur \in LiveProcesses /\ cur \in Scheduled
  BY CallFacts
<1>2. PICK s : s = sched'
  OBVIOUS
<1>3. /\ exitProcessQueue' = Append(exitProcessQueue, cur)
      /\ s = scheduleBlocked([wakeupProcess(sched, Collector) EXCEPT !.state[cur] = EXITED])
      /\ stack' = [stack EXCEPT ![k] = None]
      /\ switchContext(s.runningProcess, None)
      /\ UNCHANGED <<allocProcessTable, phase, service, keyQueue, keyWaiter, occurFlag>>
  BY <1>1, <1>2 DEF exitProcess
<1>4. /\ Consistent(sched, Scheduled) /\ Scheduled \in SUBSET (Pids \ {Idle})
      /\ sched.state[Idle] # EXITED /\ Collector \in Scheduled
      /\ cur = sched.runningProcess /\ LiveProcesses \subseteq Pids
      /\ Residents \subseteq LiveProcesses /\ allocProcessTable \subseteq Pids
  BY <1>1, LiveFacts DEF ProcessInv, Running
<1>5. /\ Consistent(s, Scheduled \ {cur}) /\ s.rsp0 = s.runningProcess
      /\ \A p \in Pids : s.state[p] = EXITED <=> sched.state[p] = EXITED \/ p = cur
  <2>1. PICK w : w = sched
    OBVIOUS
  <2>2. /\ Consistent(w, Scheduled) /\ w.runningProcess # Idle /\ cur = w.runningProcess
        /\ cur # Collector /\ w.state[Idle] # EXITED
        /\ s = scheduleBlocked([wakeupProcess(w, Collector) EXCEPT !.state[cur] = EXITED])
    BY <1>1, <1>3, <1>4, <2>1
  <2>3. Consistent(s, Scheduled \ {cur}) /\ s.rsp0 = s.runningProcess
    BY <1>4, <2>2, ConsistentExit
  <2>4. Ends(w, s, cur)
    BY <1>4, <2>2, ConsistentExit
  <2> QED BY <2>1, <2>3, <2>4 DEF Ends
<1>6. LiveProcesses' = LiveProcesses \ {cur} /\ Scheduled' = Scheduled \ {cur}
  <2>1. LiveProcesses' = LiveProcesses \ {cur}
    BY <1>2, <1>3, <1>4, <1>5 DEF LiveProcesses
  <2> QED BY <2>1 DEF Scheduled
<1>7. sched.state[cur] # EXITED
  BY <1>1 DEF LiveProcesses
<1>8. PICK q : q = exitProcessQueue
  OBVIOUS
<1>9. /\ q \in Seq(Pids) /\ IsInjectiveList(q)
      /\ \A p \in Elems(q) : p \in allocProcessTable /\ sched.state[p] = EXITED
  BY <1>1, <1>8 DEF ProcessInv
<1>10. /\ insertList(q, cur) \in Seq(Pids) /\ IsInjectiveList(insertList(q, cur))
       /\ Elems(insertList(q, cur)) = Elems(q) \cup {cur}
  BY <1>1, <1>4, <1>7, <1>9, FreshInsert
<1>11. exitProcessQueue' = insertList(q, cur)
  BY <1>3, <1>8 DEF insertList
<1>12. ProcessInv'
  <2>1. \A p \in Elems(insertList(q, cur)) : p \in allocProcessTable' /\ s.state[p] = EXITED
    BY <1>1, <1>3, <1>4, <1>5, <1>9, <1>10 DEF LiveProcesses
  <2>2. Residents \subseteq LiveProcesses'
    BY <1>4, <1>6
  <2> QED BY <1>2, <1>3, <1>4, <1>5, <1>6, <1>10, <1>11, <2>1, <2>2
          DEF ProcessInv, Running
<1>13. PICK next, c : next = s.runningProcess /\ c = None
  OBVIOUS
<1>14. next \in Pids /\ next # cur
  <2>1. next \in (Scheduled \ {cur}) \cup {Idle}
    BY <1>5, <1>13 DEF Consistent, Listed
  <2> QED BY <1>1, <1>4, <2>1, PidFacts
<1>15. ContextsTyped /\ k \in Stacks /\ cur \in Pids
  BY <1>1, <1>4, ContextTypes DEF ContextInv
<1>16. \A p \in Pids \ {cur} : Saved(p)' = Saved(p)
  <2>1. switchContext(next, c) /\ sched'.runningProcess = next
    BY <1>2, <1>3, <1>13
  <2> QED BY <1>1, <1>3, <1>14, <1>15, <2>1, SwitchEffect DEF ContextsTyped
<1>17. \A p \in Pids \ {cur} : stack'[p] = stack[p]
  BY <1>3, <1>15, ContextTypes DEF ContextsTyped
<1>18. ContextsTyped'
  BY <1>1, <1>3, <1>13, <1>14, <1>15, ContextTypes DEF ContextsTyped, switchContext
<1>19. ASSUME NEW p \in LiveProcesses, p # cur
       PROVE  Owned(p, Saved(p), stack[p])' /\ View(p)' = View(p)
  <2>1. Saved(p)' = Saved(p) /\ stack'[p] = stack[p]
    BY <1>4, <1>16, <1>17, <1>19
  <2>2. Owned(p, Saved(p), stack[p])
    BY <1>1 DEF ContextInv
  <2> QED BY <2>1, <2>2, ViewKept
<1>20. ContextInv'
  BY <1>6, <1>18, <1>19 DEF ContextInv
<1>21. Private!Next
  BY <1>1, <1>6, <1>19, EndIsStep
<1>22. KeyInv' /\ ServiceInv'
  BY <1>1, <1>3, PhaseStays DEF KeyInv
<1> QED BY <1>1, <1>3, <1>12, <1>20, <1>21, <1>22, RunningInv

\* The stub of a vector with an error code and the one of a vector without find
\* the privilege level of the faulting program.
LEMMA SavedCSIsTheProgram ==
    ASSUME NEW vector \in Vectors, NEW ring \in {0, 3}, NEW rip
    PROVE  savedCS(vector, Frame(vector, ring, rip)) % 4 = RPL_USER <=> ring = 3
<1>1. savedCS(vector, Frame(vector, ring, rip))
        = IF ring = 3 THEN USER_CODE_DESCRIPTOR + RPL_USER ELSE CODE_DESCRIPTOR
  BY DEF savedCS, Frame, Vectors, EXC_ERRCODE, ErrorCodes
<1> QED BY <1>1 DEF USER_CODE_DESCRIPTOR, RPL_USER, CODE_DESCRIPTOR

LEMMA ExceptionInv ==
    ASSUME TrapInv, NEW p, exceptionHandler(p)
    PROVE  TrapInv' /\ Invisible
<1>1. Calls(p)
  BY DEF exceptionHandler
<1>2. /\ ProcessInv /\ ContextInv /\ KeyInv /\ ServiceInv /\ phase = RUN
      /\ ~cpu.kernel /\ Running = p /\ p \in LiveProcesses /\ p # Idle /\ p # Collector
  BY <1>1, CallFacts
<1>3. Caller(p, cpu) /\ ContextsTyped /\ cpu.ring \in {0, 3}
  BY <1>2, RunningOwns, FieldTypes DEF ContextInv, ContextsTyped
<1>4. PICK vector \in Vectors, rip \in 0 .. 3 :
        IF savedCS(vector, Frame(vector, cpu.ring, rip)) % 4 = RPL_USER
        THEN exitProcess(IST)
        ELSE /\ phase' = HALT
             /\ stack' = [stack EXCEPT ![IST] = cpu]
             /\ UNCHANGED <<kernelVars, cpu, service>>
  BY DEF exceptionHandler
<1>5. PICK ring : ring = cpu.ring
  OBVIOUS
<1>6. savedCS(vector, Frame(vector, cpu.ring, rip)) % 4 = RPL_USER <=> cpu.ring = 3
  BY <1>3, <1>5, SavedCSIsTheProgram
<1>7. CASE cpu.ring = 3
  <2>1. exitProcess(IST)
    BY <1>4, <1>6, <1>7
  <2>2. p \notin Residents
    BY <1>3, <1>7 DEF Caller
  <2> QED BY <1>1, <2>1, <2>2, ExitInv DEF Invisible
<1>8. CASE cpu.ring # 3
  <2>1. /\ phase' = HALT /\ stack' = [stack EXCEPT ![IST] = cpu]
        /\ UNCHANGED <<sched, allocProcessTable, exitProcessQueue, pcb, keyQueue,
                       keyWaiter, occurFlag, cpu, service>>
    BY <1>4, <1>6, <1>8 DEF kernelVars
  <2>2. ProcessInv' /\ LiveProcesses' = LiveProcesses /\ LiveProcesses \subseteq Pids
    BY <1>2, <2>1, ProcessSame, LiveFacts
  <2>3. ContextsTyped'
    BY <1>3, <2>1, ContextTypes DEF ContextsTyped
  <2>4. stack'[IST] = cpu /\ \A q \in LiveProcesses : stack'[q] = stack[q]
    BY <1>3, <2>1, <2>2, ContextTypes DEF ContextsTyped
  <2>5. \A q \in LiveProcesses : Saved(q)' = Saved(q)
    BY <1>2, <2>1, <2>4, LineFacts DEF Saved, Running
  <2>6. ContextInv' /\ ViewsStay
    BY <1>2, <2>2, <2>3, <2>4, <2>5, PlacesKept
  <2>7. HaltInv'
    BY <1>2, <1>3, <1>8, <2>1, <2>4 DEF HaltInv
  <2>8. ServiceInv' /\ KeyInv'
    BY <1>2, <2>1, LineFacts DEF ServiceInv, KeyInv
  <2> QED BY <2>2, <2>6, <2>7, <2>8 DEF TrapInv, Invisible
<1> QED BY <1>7, <1>8

LEMMA StutterInv ==
    ASSUME TrapInv, UNCHANGED vars
    PROVE  TrapInv' /\ ViewsStay
<1>1. /\ UNCHANGED <<sched, allocProcessTable, exitProcessQueue, cpu, pcb, stack>>
      /\ UNCHANGED <<phase, service, keyQueue, keyWaiter, occurFlag>>
  BY DEF vars
<1>2. ProcessInv /\ ContextInv /\ KeyInv /\ ServiceInv /\ HaltInv
  BY DEF TrapInv
<1>3. ProcessInv' /\ LiveProcesses' = LiveProcesses
  BY <1>1, <1>2, ProcessSame
<1>4. ContextsTyped' /\ \A q \in LiveProcesses : Saved(q)' = Saved(q) /\ stack'[q] = stack[q]
  BY <1>1, <1>2 DEF ContextInv, ContextsTyped, Saved, Running
<1>5. ContextInv' /\ ViewsStay
  BY <1>2, <1>3, <1>4, PlacesKept
<1>6. KeyInv' /\ ServiceInv' /\ HaltInv'
  BY <1>1, <1>2, PhaseStays DEF KeyInv, HaltInv
<1> QED BY <1>3, <1>5, <1>6 DEF TrapInv

LEMMA NextInv == TrapInv /\ [Next]_vars => TrapInv' /\ Invisible
<1> DEFINE Goal == TrapInv' /\ Invisible
<1> SUFFICES ASSUME TrapInv, [Next]_vars PROVE Goal
  OBVIOUS
<1>1. ASSUME UNCHANGED vars PROVE Goal
  BY <1>1, StutterInv DEF Invisible
<1>2. ASSUME NEW line \in Lines, acceptInterrupt(line) PROVE Goal
  BY <1>2, AcceptInv DEF Invisible
<1>3. ASSUME NEW line \in Lines, dispatchInterrupt(line) PROVE Goal
  BY <1>3, DispatchInv DEF Invisible
<1>4. ASSUME NEW p \in Pids, compute(p) \/ syscallReturns(p) PROVE Goal
  BY <1>4, ComputeInv DEF Invisible
<1>5. ASSUME NEW p \in Pids, sleepProcess(p) PROVE Goal
  BY <1>5, SleepInv DEF Invisible
<1>6. ASSUME NEW p \in Pids, getKey(p) PROVE Goal
  BY <1>6, GetKeyInv DEF Invisible
<1>7. ASSUME NEW p \in Pids, getKeyBlocks(p) PROVE Goal
  BY <1>7, GetKeyBlocksInv DEF Invisible
<1>8. ASSUME NEW p \in Pids, createProcess(p) PROVE Goal
  BY <1>8, CreateInv DEF Invisible
<1>9. ASSUME NEW p \in Pids, exit(p) PROVE Goal
  <2>1. Calls(p) /\ p # Shell /\ exitProcess(entryStack)
    BY <1>9 DEF exit
  <2>2. p \notin Residents
    BY <2>1 DEF Calls, Residents
  <2>3. PICK k : k = entryStack
    OBVIOUS
  <2>4. k = p
    BY <2>1, <2>3, CallFacts, RunningOwns
  <2> QED BY <2>1, <2>2, <2>3, <2>4, ExitInv DEF Invisible
<1>10. ASSUME NEW p \in Pids, exceptionHandler(p) PROVE Goal
  BY <1>10, ExceptionInv
<1>11. ASSUME resume PROVE Goal
  BY <1>11, ResumeInv
<1>12. ASSUME Collecting PROVE Goal
  BY <1>12, CollectorBlocksInv, CollectorReclaimsInv DEF Collecting, Invisible
<1>13. ASSUME halted PROVE Goal
  BY <1>13, <1>1 DEF halted
<1> HIDE DEF Goal
<1> QED BY <1>1, <1>2, <1>3, <1>4, <1>5, <1>6, <1>7, <1>8, <1>9, <1>10, <1>11, <1>12,
           <1>13 DEF Next

-----------------------------------------------------------------------------
(* The theorems.                                                           *)

LEMMA TrapInvariant == Spec => []TrapInv
<1>1. Init => TrapInv
  BY InitTrap
<1>2. TrapInv /\ [Next]_vars => TrapInv'
  BY NextInv
<1> QED BY <1>1, <1>2, PTL DEF Spec

\* The in-service bits: whatever lines without a handler interrupt, and whoever
\* is switched to by a handler, a line that has a handler never stays in service.
THEOREM AcknowledgedAlways == Spec => []Acknowledged
<1>1. TrapInv => Acknowledged
  <2> SUFFICES ASSUME TrapInv PROVE Acknowledged
    OBVIOUS
  <2>1. ProcessInv /\ ContextInv /\ KeyInv /\ ServiceInv
    BY DEF TrapInv
  <2>2. sched \in SchedType
    BY <2>1, LiveFacts, ListedFields DEF ProcessInv, Consistent
  <2>3. service \subseteq Lines \cup {IRQ_SLAVE_PIC}
    BY <2>1, LineFacts DEF ServiceInv, Serving
  <2>4. TypeOK
    BY <2>1, <2>2, <2>3, Zenon
       DEF TypeOK, ProcessInv, ContextInv, ContextsTyped, KeyInv, ServiceInv
  <2>5. phase = RUN => service \subseteq StrayBits
    BY <2>1, LineFacts DEF ServiceInv
  <2> QED BY <2>4, <2>5 DEF Acknowledged, StrayBits
<1> QED BY <1>1, TrapInvariant, PTL

\* The exception handler halts the machine for a program of ring 0 only: the
\* frame of every vector gives it the ring of the program that faulted.
THEOREM RingThreeCannotHaltAlways == Spec => []RingThreeCannotHalt
<1>1. TrapInv => RingThreeCannotHalt
  BY LineFacts DEF TrapInv, HaltInv, RingThreeCannotHalt, View, Saved
<1> QED BY <1>1, TrapInvariant, PTL

\* The two context switches, the one stack of all interrupts and TSS.rsp0 give
\* every program a processor of its own.
THEOREM TrapImplementsPrivateCPUs == Spec => ContextsPrivate
<1>1. Init => Private!Init
  BY InitTrap
<1>2. TrapInv /\ [Next]_vars => [Private!Next]_[p \in LiveProcesses |-> View(p)]
  <2>1. ViewsStay => UNCHANGED [p \in LiveProcesses |-> View(p)]
    BY DEF ViewsStay
  <2> QED BY <2>1, NextInv DEF Invisible
<1> QED BY <1>1, <1>2, TrapInvariant, PTL DEF Spec, ContextsPrivate, Private!Spec
=============================================================================
