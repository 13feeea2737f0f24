-------------------------- MODULE SchedulerProofs --------------------------
(***************************************************************************)
(* SchedInv is an inductive invariant of Scheduler, for every size of the  *)
(* process table and of the exit queue, and it implies the safety          *)
(* properties the runs check.                                              *)
(***************************************************************************)
EXTENDS Scheduler, ProcessProofs, WellFoundedInduction

\* The user code pages belong to no single process.
LEMMA UserCodeIsNoPid == UserCode \notin Pids
BY ProcessAssumption DEF UserCode, Pids

\* The types of the variables, field by field.
LEMMA TypeFacts ==
    ASSUME TypeOK
    PROVE  /\ sched \in SchedType
           /\ Running \in Pids
           /\ sched.state \in [Pids -> States]
           /\ sched.processList \in Seq(Pids) /\ sched.sleepList \in Seq(Pids)
           /\ mutex.waitList \in Seq(Pids) /\ mutex.count \in Nat
           /\ mutex.pid \in Pids \cup {NULL}
           /\ Ready \subseteq Pids /\ Sleeping \subseteq Pids /\ Waiting \subseteq Pids
           /\ Elems(exitProcessQueue) \subseteq Pids
<1>1. /\ sched \in SchedType
      /\ mutex \in [pid : Pids \cup {NULL}, count : Nat, waitList : Seq(Pids)]
      /\ exitProcessQueue \in Seq(Pids)
  BY DEF TypeOK
<1>2. /\ mutex.waitList \in Seq(Pids) /\ mutex.count \in Nat
      /\ mutex.pid \in Pids \cup {NULL}
  BY <1>1
<1>3. /\ sched.processList \in Seq(Pids) /\ sched.sleepList \in Seq(Pids)
      /\ sched.state \in [Pids -> States] /\ Running \in Pids
  BY <1>1, SchedFields DEF Running
<1>4. /\ Ready \subseteq Pids /\ Sleeping \subseteq Pids /\ Waiting \subseteq Pids
      /\ Elems(exitProcessQueue) \subseteq Pids
  BY <1>1, <1>2, <1>3, ElemsInSet DEF Ready, Sleeping, Waiting
<1> QED BY <1>1, <1>2, <1>3, <1>4

\* What the invariant says of the running process.
LEMMA RunningFacts ==
    ASSUME SchedInv
    PROVE  /\ Running \in allocProcessTable
           /\ sched.state[Running] = RUNNING
           /\ Running \notin Ready /\ Running \notin Sleeping /\ Running \notin Waiting
           /\ Running \notin Elems(exitProcessQueue)
           /\ Idle \notin Ready /\ Idle \notin Sleeping /\ Idle \notin Waiting
           /\ at[Running] # "dead"
<1>1. TypeOK /\ Placed /\ PointsOK /\ RunningOK /\ Residents
  BY DEF SchedInv
<1>2. Running \in Pids /\ allocProcessTable \subseteq Pids
  BY <1>1, TypeFacts DEF TypeOK
<1> QED BY <1>1, <1>2, PidFacts, StateFacts DEF Placed, PointsOK, PointOK, RunningOK, Residents

\* What initScheduler leaves satisfies the inductive invariant.
THEOREM InitInv == Init => SchedInv
<1> SUFFICES ASSUME Init PROVE SchedInv
  OBVIOUS
<1>1. removeList(<<Collector, Idle>>, Idle) = <<Collector>>
  <2> DEFINE l == <<Collector, Idle>>
  <2>1. l \in Seq(Pids) /\ Len(l) = 2 /\ l[1] = Collector /\ l[2] = Idle
    BY PidFacts
  <2>2. IsInjectiveList(l)
    BY <2>1 DEF IsInjectiveList, Collector, Idle
  <2>3. Idle \in Elems(l)
    BY <2>1 DEF Elems
  <2> HIDE DEF l
  <2>4. FirstAt(l, Idle) = 2
    <3>1. FirstAt(l, Idle) \in 1 .. 2 /\ l[FirstAt(l, Idle)] = Idle
      BY <2>1, <2>2, <2>3, FirstAtProperties
    <3> QED BY <2>1, <3>1 DEF Collector, Idle
  <2>5. removeList(l, Idle) = SubSeq(l, 1, 1) \o SubSeq(l, 3, 2)
    <3>1. removeList(l, Idle) = RemoveAt(l, 2)
      BY <2>3, <2>4 DEF removeList
    <3>2. 2 - 1 = 1 /\ 2 + 1 = 3
      OBVIOUS
    <3> QED BY <2>1, <3>1, <3>2, Zenon DEF RemoveAt
  <2>6. /\ SubSeq(l, 1, 1) \in Seq(Pids) /\ Len(SubSeq(l, 1, 1)) = 1
        /\ SubSeq(l, 1, 1)[1] = Collector
    BY <2>1
  <2>7. SubSeq(l, 3, 2) = <<>>
    BY <2>1
  <2>8. SubSeq(l, 1, 1) \o SubSeq(l, 3, 2) = SubSeq(l, 1, 1)
    BY <2>6, <2>7
  <2>9. SubSeq(l, 1, 1) = <<Collector>>
    <3> DEFINE s1 == SubSeq(l, 1, 1)
               s2 == <<Collector>>
    <3>1. s2 \in Seq(Pids) /\ Len(s2) = 1 /\ s2[1] = Collector
      BY PidFacts
    <3>2. s1 \in Seq(Pids) /\ Len(s1) = 1 /\ s1[1] = Collector
      BY <2>6
    <3> HIDE DEF s1, s2
    <3>3. \A i \in 1 .. Len(s1) : s1[i] = s2[i]
      BY <3>1, <3>2
    <3>4. s1 = s2
      BY <3>1, <3>2, <3>3, SeqEqual
    <3> QED BY <3>4 DEF s1, s2
  <2> QED BY <2>5, <2>8, <2>9 DEF l
<1>2. /\ sched.runningProcess = Shell /\ sched.processList = <<Collector>>
      /\ sched.sleepList = <<>> /\ sched.rsp0 = NULL
      /\ sched.state = [p \in Pids |-> IF p = Shell THEN RUNNING ELSE READY]
      /\ sched.wakeupTick = [p \in Pids |-> 0]
  BY <1>1 DEF Init, initScheduler
<1>3. sched \in SchedType
  <2>1. <<Collector>> \in Seq(Pids) /\ <<>> \in Seq(Pids)
    BY PidFacts
  <2>2. [p \in Pids |-> IF p = Shell THEN RUNNING ELSE READY] \in [Pids -> States]
    BY StateFacts
  <2> QED BY <1>1, <2>1, <2>2, PidFacts DEF Init, initScheduler, SchedType
<1>4. /\ mutex.pid = NULL /\ mutex.count = 0 /\ mutex.waitList = <<>>
      /\ mutex \in [pid : Pids \cup {NULL}, count : Nat, waitList : Seq(Pids)]
  BY DEF Init, initMutex
<1>5. TypeOK
  <2>1. allocProcessTable \subseteq Pids
    BY PidFacts DEF Init
  <2>2. pidCountIdx \in 0 .. PROCESS_MAXCOUNT
    BY ProcessAssumption DEF Init
  <2>3. exitProcessQueue \in Seq(Pids) /\ Len(exitProcessQueue) < EXIT_QUEUE_COUNT
    BY SchedulerAssumption DEF Init
  <2> QED BY <1>3, <1>4, <2>1, <2>2, <2>3 DEF Init, TypeOK, Points
<1>6. /\ Ready = {Collector} /\ Sleeping = {} /\ Waiting = {}
      /\ Elems(exitProcessQueue) = {}
  <2>1. Elems(<<Collector>>) = {Collector}
    BY DEF Elems
  <2> QED BY <1>2, <1>4, <2>1, EmptyProperties DEF Init, Ready, Sleeping, Waiting
<1>7. Injective
  <2>1. IsInjectiveList(<<Collector>>)
    BY DEF IsInjectiveList
  <2> QED BY <1>2, <1>4, <2>1, EmptyProperties DEF Init, Injective
<1>8. allocProcessTable = {Shell, Collector, Idle} /\ at = [p \in Pids |-> "run"]
  BY DEF Init, initMutex
<1>9. Placed
  BY <1>2, <1>6, <1>8, PidFacts, StateFacts DEF Placed, Shell, Collector, Idle
<1>10. PointsOK /\ RunningOK /\ Residents
  BY <1>2, <1>8, PidFacts, StateFacts
  DEF Init, PointsOK, PointOK, RunningOK, Residents, Running, Shell, Collector, Idle
<1>11. LoopOK /\ MutexOK
  BY <1>4, <1>8, PidFacts DEF Init, LoopOK, MutexOK
<1>12. WorkConserving /\ CollectorAwake /\ TrapStackIsOwn /\ UserPagesOwned
  BY <1>2, PidFacts DEF Init, WorkConserving, CollectorAwake, TrapStackIsOwn,
                        UserPagesOwned, Running, Shell, Idle
<1>13. WaitersOK
  <2>1. \A d \in Devices : waiter[d] = NULL /\ d # "run"
    BY DEF Init, Devices
  <2> QED BY <1>8, <2>1, PidFacts DEF WaitersOK
<1> QED BY <1>5, <1>7, <1>9, <1>10, <1>11, <1>12, <1>13 DEF SchedInv

-----------------------------------------------------------------------------
(* The timer interrupt.                                                    *)

\* Counting a tick and loading the head of the sleep list keeps the invariant.
LEMMA TimerInterruptInv == ASSUME SchedInv, TimerInterrupt PROVE SchedInv'
<1>0. /\ TypeOK /\ Injective /\ Placed /\ PointsOK /\ Residents /\ RunningOK /\ MutexOK /\ WaitersOK
      /\ WorkConserving /\ CollectorAwake /\ TrapStackIsOwn /\ UserPagesOwned
  BY DEF SchedInv
<1>1. /\ sched' \in SchedType
      /\ sched'.runningProcess = sched.runningProcess
      /\ sched'.processList = sched.processList
      /\ sched'.sleepList = sched.sleepList
      /\ sched'.state = sched.state
      /\ sched'.rsp0 = sched.rsp0
  BY <1>0, TypeFacts, TickEffect DEF TimerInterrupt
<1>2. /\ Running' = Running /\ Ready' = Ready /\ Sleeping' = Sleeping
      /\ Waiting' = Waiting
  BY <1>1 DEF TimerInterrupt, Running, Ready, Sleeping, Waiting
<1>3. /\ isr' = TRUE /\ cur' = HeadOf(sched.sleepList)
      /\ UNCHANGED <<allocProcessTable, pidCountIdx, exitProcessQueue, mutex, at,
                     user, userAccess, waiter>>
  BY DEF TimerInterrupt
<1>4. HeadOf(sched.sleepList) \in Pids \cup {NULL}
  BY <1>0, TypeFacts, HeadProperties DEF Injective
<1>5. TypeOK'
  BY <1>0, <1>1, <1>3, <1>4 DEF TypeOK
<1>6. Injective' /\ Placed'
  BY <1>0, <1>1, <1>2, <1>3 DEF Injective, Placed
<1>7. PointsOK' /\ Residents' /\ RunningOK'
  BY <1>0, <1>1, <1>2, <1>3 DEF PointsOK, PointOK, Residents, RunningOK
<1>8. MutexOK'
  BY <1>0, <1>1, <1>2, <1>3 DEF MutexOK
<1>9. WorkConserving' /\ CollectorAwake' /\ TrapStackIsOwn' /\ UserPagesOwned'
  BY <1>0, <1>1, <1>2, <1>3
  DEF WorkConserving, CollectorAwake, TrapStackIsOwn, UserPagesOwned
<1>10. LoopOK'
  <2>1. CASE sched.sleepList = <<>>
    <3>1. cur' = NULL /\ Sleeping' = {}
      BY <1>0, <1>2, <1>3, <2>1, TypeFacts, EmptyProperties DEF Sleeping
    <3> QED BY <1>3, <3>1 DEF LoopOK
  <2>2. CASE sched.sleepList # <<>>
    <3>1. cur' = sched.sleepList[1] /\ 1 \in 1 .. Len(sched.sleepList)
      BY <1>0, <1>3, <2>2, TypeFacts DEF HeadOf
    <3>2. cur' # NULL
      BY <1>0, <1>3, <2>2, TypeFacts, HeadProperties, PidFacts DEF Injective
    <3>3. \A j \in 1 .. 1 - 1 : FALSE
      OBVIOUS
    <3> QED BY <1>1, <1>3, <3>1, <3>2, <3>3 DEF LoopOK
  <2> QED BY <2>1, <2>2
<1>11. WaitersOK'
  BY <1>0, <1>3 DEF WaitersOK
<1> QED BY <1>5, <1>6, <1>7, <1>8, <1>9, <1>10, <1>11 DEF SchedInv

\* A node that still has time to sleep is passed over.
LEMMA WakePassInv ==
    ASSUME SchedInv, WakeExpired, sched.wakeupTick[cur] # 0 PROVE SchedInv'
<1>0. /\ TypeOK /\ Injective /\ LoopOK
      /\ isr /\ cur # NULL
  BY DEF SchedInv, WakeExpired
<1>1. /\ sched' = sched /\ cur' = NextOf(sched.sleepList, cur)
      /\ UNCHANGED <<allocProcessTable, pidCountIdx, exitProcessQueue, mutex, at,
                     user, userAccess, waiter, isr>>
  BY DEF WakeExpired, wakeIfExpired
<1>2. PICK k \in 1 .. Len(sched.sleepList) :
            /\ sched.sleepList[k] = cur
            /\ \A j \in 1 .. k - 1 : sched.wakeupTick[sched.sleepList[j]] > 0
  BY <1>0 DEF LoopOK
<1> DEFINE l == sched.sleepList
<1>3. /\ l \in Seq(Pids) /\ IsInjectiveList(l) /\ Len(l) \in Nat
      /\ sched.wakeupTick \in [Pids -> Nat]
  BY <1>0, TypeFacts, SchedFields DEF Injective
<1>4. cur' = IF k = Len(l) THEN NULL ELSE l[k + 1]
  BY <1>1, <1>2, <1>3, FirstAtIndex
<1>5. sched.wakeupTick[l[k]] > 0
  BY <1>0, <1>2, <1>3
<1>6. \A j \in 1 .. k : sched.wakeupTick[l[j]] > 0
  BY <1>2, <1>3, <1>5
<1>7. cur' \in Pids \cup {NULL} /\ (k = Len(l) <=> cur' = NULL)
  BY <1>2, <1>3, <1>4, PidFacts
<1>8. LoopOK'
  <2>1. CASE k = Len(l)
    <3>1. \A p \in Elems(l) : sched.wakeupTick[p] > 0
      BY <1>6, <2>1 DEF Elems
    <3> QED BY <1>0, <1>1, <1>7, <2>1, <3>1 DEF LoopOK, Sleeping
  <2>2. CASE k # Len(l)
    <3>1. k + 1 \in 1 .. Len(l) /\ (k + 1) - 1 = k
      BY <1>2, <1>3, <2>2
    <3>2. l[k + 1] = cur' /\ \A j \in 1 .. (k + 1) - 1 : sched.wakeupTick[l[j]] > 0
      BY <1>4, <1>6, <2>2, <3>1
    <3> QED BY <1>0, <1>1, <1>7, <2>2, <3>1, <3>2 DEF LoopOK, Sleeping
  <2> QED BY <2>1, <2>2
<1>9. TypeOK'
  BY <1>0, <1>1, <1>7 DEF TypeOK
<1> HIDE DEF l
<1>10. /\ Injective' /\ Placed' /\ PointsOK' /\ Residents' /\ RunningOK' /\ MutexOK'
       /\ WaitersOK'
  BY <1>1 DEF SchedInv, Injective, Placed, PointsOK, PointOK, Residents, RunningOK,
              MutexOK, WaitersOK, Running, Ready, Sleeping, Waiting
<1>11. WorkConserving' /\ CollectorAwake' /\ TrapStackIsOwn' /\ UserPagesOwned'
  BY <1>1 DEF SchedInv, WorkConserving, CollectorAwake, TrapStackIsOwn,
              UserPagesOwned, Running
<1> QED BY <1>8, <1>9, <1>10, <1>11 DEF SchedInv

\* A node whose time has come moves to the ready list.
LEMMA WakeExpiredInv ==
    ASSUME SchedInv, WakeExpired, sched.wakeupTick[cur] = 0 PROVE SchedInv'
<1>0. /\ TypeOK /\ Injective /\ Placed /\ PointsOK /\ Residents /\ RunningOK
      /\ LoopOK /\ MutexOK /\ WaitersOK /\ CollectorAwake /\ TrapStackIsOwn /\ UserPagesOwned
      /\ isr /\ cur # NULL
  BY DEF SchedInv, WakeExpired
<1>1. /\ sched' = wakeupProcess(sched, cur) /\ cur' = NextOf(sched.sleepList, cur)
      /\ UNCHANGED <<allocProcessTable, pidCountIdx, exitProcessQueue, mutex, at,
                     user, userAccess, waiter, isr>>
  BY DEF WakeExpired, wakeIfExpired
<1>2. PICK k \in 1 .. Len(sched.sleepList) :
            /\ sched.sleepList[k] = cur
            /\ \A j \in 1 .. k - 1 : sched.wakeupTick[sched.sleepList[j]] > 0
  BY <1>0 DEF LoopOK
<1> DEFINE l == sched.sleepList
           new == removeList(l, cur)
<1>3. /\ l \in Seq(Pids) /\ IsInjectiveList(l) /\ Len(l) \in Nat
  BY <1>0, TypeFacts DEF Injective
<1>4. /\ cur' = IF k = Len(l) THEN NULL ELSE l[k + 1]
      /\ cur \in Sleeping
  BY <1>1, <1>2, <1>3, FirstAtIndex DEF Sleeping
<1>5. /\ cur \in Pids /\ cur \in allocProcessTable
      /\ sched.state[cur] = BLOCKED /\ at[cur] \in {"sleep", "disk"}
      /\ cur \notin Ready /\ cur # Idle /\ cur # Running
      /\ cur \notin Waiting
  BY <1>0, <1>4, TypeFacts, RunningFacts, StateFacts DEF Placed
<1>6. /\ sched' \in SchedType
      /\ sched'.runningProcess = sched.runningProcess
      /\ sched'.rsp0 = sched.rsp0
      /\ sched'.wakeupTick = sched.wakeupTick
      /\ sched'.state = [sched.state EXCEPT ![cur] = READY]
      /\ sched'.processList = insertList(sched.processList, cur)
      /\ sched'.sleepList = new
  BY <1>0, <1>1, <1>5, TypeFacts, PidFacts, WakeupEffect DEF Injective
<1>7. cur' \in Pids \cup {NULL} /\ (k = Len(l) <=> cur' = NULL)
  BY <1>2, <1>3, <1>4, PidFacts
<1>8. /\ new \in Seq(Pids) /\ Len(new) = Len(l) - 1
      /\ \A i \in 1 .. Len(l) - 1 : new[i] = IF i < k THEN l[i] ELSE l[i + 1]
  <2>1. new = removeList(l, l[k]) /\ k \in 1 .. Len(l)
    BY <1>2
  <2> HIDE DEF l, new
  <2> QED BY <1>3, <2>1, RemoveShifts
<1>9. IsInjectiveList(new) /\ Elems(new) = Elems(l) \ {cur}
  BY <1>3, RemoveProperties
<1> HIDE DEF new
<1>10. \A j \in 1 .. k - 1 : sched.wakeupTick[new[j]] > 0
  BY <1>2, <1>3, <1>8
<1>11. LoopOK'
  <2>1. CASE k = Len(l)
    <3>1. \A p \in Elems(new) : sched.wakeupTick[p] > 0
      BY <1>3, <1>8, <1>10, <2>1 DEF Elems
    <3> QED BY <1>0, <1>1, <1>6, <1>7, <2>1, <3>1 DEF LoopOK, Sleeping
  <2>2. CASE k # Len(l)
    <3>1. k \in 1 .. Len(new) /\ new[k] = cur'
      BY <1>2, <1>3, <1>4, <1>8, <2>2
    <3> QED BY <1>0, <1>1, <1>6, <1>7, <1>10, <2>2, <3>1 DEF LoopOK, Sleeping
  <2> QED BY <2>1, <2>2
<1>12. TypeOK'
  BY <1>0, <1>1, <1>6, <1>7 DEF TypeOK
<1>13. /\ IsInjectiveList(insertList(sched.processList, cur))
       /\ Elems(insertList(sched.processList, cur)) = Ready \cup {cur}
  <2> DEFINE r == sched.processList
  <2>1. /\ r \in Seq(Pids) /\ IsInjectiveList(r) /\ Ready = Elems(r)
        /\ cur \in Pids /\ cur \notin Elems(r)
    BY <1>0, <1>5, TypeFacts DEF Injective, Ready
  <2> HIDE DEF r
  <2>2. /\ IsInjectiveList(insertList(r, cur))
        /\ Elems(insertList(r, cur)) = Elems(r) \cup {cur}
    BY <2>1, InsertProperties
  <2> QED BY <2>1, <2>2 DEF r
<1>14. /\ Ready' = Ready \cup {cur} /\ Sleeping' = Sleeping \ {cur}
       /\ Waiting' = Waiting /\ Running' = Running
  BY <1>1, <1>6, <1>9, <1>13 DEF Ready, Sleeping, Waiting, Running
<1>15. Injective'
  BY <1>0, <1>1, <1>6, <1>9, <1>13 DEF Injective
<1>16. \A p \in Pids : sched'.state[p] = IF p = cur THEN READY ELSE sched.state[p]
  BY <1>0, <1>5, <1>6, TypeFacts
<1>17. Placed'
  BY <1>0, <1>1, <1>5, <1>14, <1>16, StateFacts DEF Placed
<1>18. allocProcessTable \subseteq Pids
  BY <1>0 DEF TypeOK
<1>19. PointsOK'
  BY <1>0, <1>1, <1>5, <1>14, <1>16, <1>18, StateFacts DEF PointsOK, PointOK
<1>20. Residents' /\ RunningOK'
  BY <1>0, <1>1, <1>5, <1>14, <1>16, <1>18, PidFacts, StateFacts, TypeFacts
  DEF Residents, RunningOK
<1>21. MutexOK'
  BY <1>0, <1>1, <1>5, <1>14, <1>16, <1>18, StateFacts DEF MutexOK
<1>22. WorkConserving' /\ TrapStackIsOwn' /\ UserPagesOwned'
  BY <1>0, <1>1, <1>6, <1>14 DEF WorkConserving, TrapStackIsOwn, UserPagesOwned
<1>23. CollectorAwake'
  BY <1>0, <1>1, <1>16, PidFacts, StateFacts DEF CollectorAwake
<1>24. WaitersOK'
  BY <1>0, <1>1 DEF WaitersOK
<1> QED BY <1>11, <1>12, <1>15, <1>17, <1>19, <1>20, <1>21, <1>22, <1>23, <1>24 DEF SchedInv

\* The process a switch dispatches: the head of the ready list or idle.
LEMMA HeadOrIdleFacts ==
    ASSUME SchedInv
    PROVE  LET next == headOrIdle(sched)
               rest == HeadRemove(sched.processList)
           IN  /\ next \in Pids /\ next \in allocProcessTable
               /\ next \in Ready \/ next = Idle
               /\ next = Idle <=> sched.processList = <<>>
               /\ next = Running => Running = Idle
               /\ next \notin Sleeping /\ next \notin Waiting
               /\ next \notin Elems(exitProcessQueue)
               /\ at[next] # "dead"
               /\ sched.state[next] \in {READY, RUNNING}
               /\ rest \in Seq(Pids) /\ IsInjectiveList(rest)
               /\ Elems(rest) = Ready \ {next}
               /\ next = Idle => rest = <<>>
<1> DEFINE next == headOrIdle(sched)
           l == sched.processList
           rest == HeadRemove(l)
<1>0. TypeOK /\ Injective /\ Placed /\ PointsOK /\ Residents
  BY DEF SchedInv
<1>1. l \in Seq(Pids) /\ IsInjectiveList(l) /\ Elems(l) = Ready
  BY <1>0, TypeFacts DEF Injective, Ready
<1> HIDE DEF l
<1>2. rest \in Seq(Pids) /\ IsInjectiveList(rest)
  BY <1>1, HeadProperties
<1>3. CASE l = <<>>
  <2>1. next = Idle
    BY <1>3 DEF headOrIdle, l
  <2>2. rest = <<>> /\ Ready = {} /\ Elems(rest) = {}
    BY <1>1, <1>3, EmptyProperties
  <2> HIDE DEF next
  <2>3. /\ next \in Pids /\ next \in allocProcessTable /\ at[next] # "dead"
        /\ sched.state[next] \in {READY, RUNNING}
    BY <1>0, <2>1, PidFacts DEF Residents
  <2>4. next \notin Sleeping /\ next \notin Waiting /\ next \notin Elems(exitProcessQueue)
    BY <1>0, <2>1, <2>3, StateFacts DEF Placed
  <2> HIDE DEF rest
  <2> QED BY <1>2, <1>3, <2>1, <2>2, <2>3, <2>4 DEF next, rest, l
<1>4. CASE l # <<>>
  <2>1. next = HeadOf(l)
    BY <1>4 DEF headOrIdle, l
  <2>2. next \in Ready /\ Elems(rest) = Ready \ {next}
    BY <1>1, <1>4, <2>1, HeadProperties
  <2> HIDE DEF next
  <2>3. /\ next \in Pids /\ next \in allocProcessTable /\ next # Idle
        /\ sched.state[next] = READY
    BY <1>0, <2>2, TypeFacts DEF Placed
  <2>4. /\ next \notin Sleeping /\ next \notin Waiting
        /\ next \notin Elems(exitProcessQueue) /\ at[next] # "dead"
    BY <1>0, <2>3, StateFacts DEF Placed, PointsOK, PointOK
  <2>5. next # Running
    BY <2>3, RunningFacts, StateFacts
  <2> HIDE DEF rest
  <2> QED BY <1>2, <1>4, <2>2, <2>3, <2>4, <2>5 DEF next, rest, l
<1> QED BY <1>3, <1>4

\* The round robin switch at the end of the timer interrupt keeps the invariant.
LEMMA TimeoutScheduleInv == ASSUME SchedInv, TimeoutSchedule PROVE SchedInv'
<1>0. /\ TypeOK /\ Injective /\ Placed /\ PointsOK /\ Residents /\ RunningOK
      /\ LoopOK /\ MutexOK /\ WaitersOK /\ CollectorAwake /\ TrapStackIsOwn /\ UserPagesOwned
      /\ isr /\ cur = NULL
  BY DEF SchedInv, TimeoutSchedule
<1>1. /\ sched' = timeoutSchedule(sched) /\ isr' = FALSE /\ cur' = NULL
      /\ UNCHANGED <<allocProcessTable, pidCountIdx, exitProcessQueue, mutex, at,
                     user, userAccess, waiter>>
  BY <1>0 DEF TimeoutSchedule
<1>2. sched' \in SchedType /\ sched'.sleepList = sched.sleepList
  BY <1>0, <1>1, TypeFacts, TimeoutScheduleEffect DEF Injective
<1>3. TypeOK'
  BY <1>0, <1>1, <1>2 DEF TypeOK
<1>4. LoopOK' /\ UserPagesOwned' /\ WaitersOK'
  BY <1>0, <1>1 DEF LoopOK, UserPagesOwned, WaitersOK
<1>5. CASE sched.processList = <<>>
  <2>1. sched' = sched
    BY <1>0, <1>1, <1>5, TypeFacts, TimeoutScheduleEffect DEF Injective
  <2>2. /\ Injective' /\ Placed' /\ PointsOK' /\ Residents' /\ RunningOK' /\ MutexOK'
        /\ CollectorAwake' /\ TrapStackIsOwn'
    BY <1>0, <1>1, <2>1
    DEF Injective, Placed, PointsOK, PointOK, Residents, RunningOK, MutexOK,
        CollectorAwake, TrapStackIsOwn, Running, Ready, Sleeping, Waiting
  <2>3. WorkConserving'
    BY <1>5, <2>1 DEF WorkConserving
  <2> QED BY <1>3, <1>4, <2>2, <2>3 DEF SchedInv
<1>6. CASE sched.processList # <<>>
  <2> DEFINE next == headOrIdle(sched)
             rest == HeadRemove(sched.processList)
  <2>1. next = HeadOf(sched.processList)
    BY <1>6 DEF headOrIdle
  <2>2. /\ next \in Pids /\ next \in allocProcessTable /\ next \in Ready /\ next # Idle
        /\ next # Running /\ at[next] # "dead" /\ sched.state[next] # BLOCKED
        /\ next \notin Sleeping /\ next \notin Waiting
        /\ next \notin Elems(exitProcessQueue)
    BY <1>6, HeadOrIdleFacts, StateFacts
  <2>3. rest \in Seq(Pids) /\ IsInjectiveList(rest) /\ Elems(rest) = Ready \ {next}
    BY HeadOrIdleFacts
  <2>4. Running \in Pids /\ Running \notin Elems(rest)
    BY <1>0, <2>3, TypeFacts, RunningFacts
  <2>5. /\ sched'.runningProcess = next /\ sched'.rsp0 = next
        /\ Running = Idle =>
             /\ sched'.state = [sched.state EXCEPT ![next] = RUNNING]
             /\ sched'.processList = rest
        /\ Running # Idle =>
             /\ sched'.state = [sched.state EXCEPT ![Running] = READY, ![next] = RUNNING]
             /\ sched'.processList = insertList(rest, Running)
    BY <1>0, <1>1, <1>6, <2>1, TypeFacts, TimeoutScheduleEffect DEF Injective, Running
  <2> HIDE DEF next, rest
  <2>6. \A p \in Pids : sched'.state[p] =
            IF p = next THEN RUNNING
            ELSE IF p = Running /\ p # Idle THEN READY ELSE sched.state[p]
    BY <1>0, <2>2, <2>4, <2>5, TypeFacts
  <2>7. /\ IsInjectiveList(insertList(rest, Running))
        /\ Elems(insertList(rest, Running)) = Elems(rest) \cup {Running}
    BY <2>3, <2>4, FreshInsert
  <2>8. /\ IsInjectiveList(sched'.processList)
        /\ Ready' = (Ready \ {next}) \cup ({Running} \ {Idle})
    BY <2>3, <2>5, <2>7 DEF Ready
  <2>9. /\ Sleeping' = Sleeping /\ Waiting' = Waiting /\ Running' = next
    BY <1>1, <1>2, <2>5 DEF Sleeping, Waiting, Running
  <2>10. Injective'
    BY <1>0, <1>1, <1>2, <2>8 DEF Injective
  <2>11. allocProcessTable \subseteq Pids
    BY <1>0 DEF TypeOK
  <2>12. /\ Running \in allocProcessTable /\ sched.state[Running] = RUNNING
         /\ Running \notin Sleeping /\ Running \notin Waiting
         /\ Running \notin Elems(exitProcessQueue) /\ at[Running] # "dead"
    BY RunningFacts
  <2>13. Placed'
    BY <1>0, <1>1, <2>2, <2>4, <2>6, <2>8, <2>9, <2>12, StateFacts DEF Placed
  <2>14. PointsOK'
    BY <1>0, <1>1, <2>2, <2>4, <2>6, <2>9, <2>11, <2>12, StateFacts DEF PointsOK, PointOK
  <2>15. Residents' /\ RunningOK'
    BY <1>0, <1>1, <2>2, <2>4, <2>6, <2>9, <2>11, PidFacts, StateFacts
    DEF Residents, RunningOK
  <2>16. MutexOK'
    BY <1>0, <1>1, <2>2, <2>4, <2>6, <2>9, <2>11, <2>12, StateFacts DEF MutexOK
  <2>17. WorkConserving' /\ TrapStackIsOwn'
    BY <2>2, <2>5, <2>9 DEF WorkConserving, TrapStackIsOwn
  <2>18. CollectorAwake'
    BY <1>0, <1>1, <2>6, PidFacts, StateFacts DEF CollectorAwake
  <2> QED BY <1>3, <1>4, <2>10, <2>13, <2>14, <2>15, <2>16, <2>17, <2>18 DEF SchedInv
<1> QED BY <1>5, <1>6

\* A step that changes no variable keeps the invariant.
LEMMA StutterInv == ASSUME SchedInv, UNCHANGED vars PROVE SchedInv'
<1>1. UNCHANGED <<sched, allocProcessTable, pidCountIdx, exitProcessQueue, mutex, at,
                  user, userAccess, waiter, isr, cur>>
  BY DEF vars
<1>2. UNCHANGED <<Running, Ready, Sleeping, Waiting>>
  BY <1>1 DEF Running, Ready, Sleeping, Waiting
<1>3. /\ TypeOK /\ Injective /\ Placed /\ PointsOK /\ Residents /\ RunningOK
      /\ LoopOK /\ MutexOK /\ WaitersOK
      /\ WorkConserving /\ CollectorAwake /\ TrapStackIsOwn /\ UserPagesOwned
  BY DEF SchedInv
<1>4. TypeOK' /\ Injective' /\ Placed' /\ PointsOK' /\ Residents' /\ RunningOK'
  BY <1>1, <1>2, <1>3
  DEF TypeOK, Injective, Placed, PointsOK, PointOK, Residents, RunningOK
<1>5. LoopOK' /\ MutexOK' /\ WaitersOK'
  BY <1>1, <1>2, <1>3 DEF LoopOK, MutexOK, WaitersOK
<1>6. WorkConserving' /\ CollectorAwake' /\ TrapStackIsOwn' /\ UserPagesOwned'
  BY <1>1, <1>2, <1>3 DEF WorkConserving, CollectorAwake, TrapStackIsOwn, UserPagesOwned
<1> QED BY <1>4, <1>5, <1>6 DEF SchedInv

-----------------------------------------------------------------------------
(* The disk and the keyboard interrupt.                                     *)

\* The process a device has registered and that still sleeps or blocks.
LEMMA RegisteredFacts ==
    ASSUME SchedInv, NEW d \in Devices, NEW w, w = waiter[d], w # NULL,
           sched.state[w] = BLOCKED
    PROVE  /\ w \in Pids /\ w \in allocProcessTable /\ at[w] = d
           /\ w # Idle /\ w # Running /\ w # Collector
           /\ w \notin Ready /\ w \notin Waiting
           /\ w \in Sleeping <=> d = "disk"
<1>1. TypeOK /\ Placed /\ Residents /\ RunningOK /\ WaitersOK
  BY DEF SchedInv
<1>2. w \in Pids
  BY <1>1 DEF TypeOK
<1>3. w \in allocProcessTable /\ at[w] = d
  BY <1>1, <1>2 DEF WaitersOK
<1>4. w # Idle /\ w # Running /\ w # Collector
  BY <1>1, <1>3, StateFacts DEF Residents, RunningOK, Devices
<1>5. /\ w \notin Ready /\ w \notin Waiting
      /\ w \in Sleeping <=> d = "disk"
  BY <1>1, <1>2, <1>3, StateFacts DEF Placed, Devices
<1> QED BY <1>2, <1>3, <1>4, <1>5

\* wakeupProcessInInterrupt while a process other than idle runs.
LEMMA WakeBesideOthers ==
    ASSUME SchedInv, NEW w \in Pids, sched.state[w] = BLOCKED, Running # Idle
    PROVE  LET t == wakeupProcessInInterrupt(sched, w)
           IN  /\ t \in SchedType
               /\ t.runningProcess = Running /\ t.rsp0 = sched.rsp0
               /\ t.state = [sched.state EXCEPT ![w] = READY]
               /\ t.processList = insertList(sched.processList, w)
               /\ t.sleepList = removeList(sched.sleepList, w)
<1>1. /\ sched \in SchedType /\ IsInjectiveList(sched.sleepList) /\ w # NULL
      /\ w \in Pids \cup {NULL}
  BY TypeFacts, PidFacts DEF SchedInv, Injective
<1>2. wakeupProcessInInterrupt(sched, w) = wakeupProcess(sched, w)
  BY DEF wakeupProcessInInterrupt, Running
<1> QED BY <1>1, <1>2, WakeupEffect DEF Running

\* wakeupProcessInInterrupt while idle runs: nobody is ready, so that the woken
\* process is dispatched before the interrupt returns.
LEMMA WakeBesideIdle ==
    ASSUME SchedInv, NEW w \in Pids, sched.state[w] = BLOCKED, Running = Idle, ~isr
    PROVE  LET t == wakeupProcessInInterrupt(sched, w)
           IN  /\ t \in SchedType /\ sched.processList = <<>>
               /\ t.runningProcess = w /\ t.rsp0 = w
               /\ t.state = [sched.state EXCEPT ![w] = RUNNING]
               /\ t.processList = <<>>
               /\ t.sleepList = removeList(sched.sleepList, w)
<1> DEFINE s1 == wakeupProcess(sched, w)
           t == wakeupProcessInInterrupt(sched, w)
<1>1. /\ sched \in SchedType /\ IsInjectiveList(sched.sleepList) /\ w # NULL
      /\ w \in Pids \cup {NULL} /\ sched.state \in [Pids -> States]
  BY TypeFacts, PidFacts DEF SchedInv, Injective
<1>2. sched.processList = <<>>
  BY DEF SchedInv, WorkConserving
<1>3. /\ s1 \in SchedType /\ s1.runningProcess = Idle
      /\ s1.state = [sched.state EXCEPT ![w] = READY]
      /\ s1.processList = insertList(<<>>, w)
      /\ s1.sleepList = removeList(sched.sleepList, w)
  BY <1>1, <1>2, WakeupEffect DEF Running
<1>4. t = timeoutSchedule(s1)
  BY <1>1 DEF wakeupProcessInInterrupt, Running
<1> HIDE DEF s1
<1>5. /\ insertList(<<>>, w) = <<w>> /\ <<w>> # <<>> /\ HeadOf(<<w>>) = w
      /\ IsInjectiveList(<<w>>) /\ <<w>> \in Seq(Pids)
  BY DEF insertList, HeadOf, IsInjectiveList
<1>6. HeadRemove(<<w>>) = <<>>
  <2>1. HeadRemove(<<w>>) = Tail(<<w>>)
    BY <1>5, HeadRemoveIsTail
  <2>2. Tail(<<w>>) = <<>>
    OBVIOUS
  <2> QED BY <2>1, <2>2
<1>7. /\ t \in SchedType /\ t.sleepList = s1.sleepList
      /\ t.runningProcess = w /\ t.rsp0 = w
      /\ t.state = [s1.state EXCEPT ![w] = RUNNING]
      /\ t.processList = <<>>
  <2> HIDE DEF t
  <2>1. s1.processList = <<w>> /\ IsInjectiveList(s1.processList)
    BY <1>3, <1>5
  <2>2. HeadOf(s1.processList) = w /\ HeadRemove(s1.processList) = <<>>
    BY <1>5, <1>6, <2>1
  <2> QED BY <1>3, <1>4, <1>5, <2>1, <2>2, TimeoutScheduleEffect
<1>8. t.state = [sched.state EXCEPT ![w] = RUNNING]
  BY <1>1, <1>3, <1>7
<1> QED BY <1>2, <1>3, <1>7, <1>8

\* The interrupt of a device keeps the invariant.
LEMMA DeviceInterruptInv ==
    ASSUME SchedInv, NEW d \in Devices, deviceInterrupt(d)
    PROVE  SchedInv'
<1> DEFINE w == waiter[d]
<1>0. /\ TypeOK /\ Injective /\ Placed /\ PointsOK /\ Residents /\ RunningOK
      /\ LoopOK /\ MutexOK /\ WaitersOK
      /\ WorkConserving /\ CollectorAwake /\ TrapStackIsOwn /\ UserPagesOwned
  BY DEF SchedInv
<1>1. /\ sched' = wakeupProcessInInterrupt(sched, w) /\ ~isr
      /\ UNCHANGED <<allocProcessTable, pidCountIdx, exitProcessQueue, mutex, at,
                     user, userAccess, waiter, isr, cur>>
  BY DEF deviceInterrupt, InterruptsOn
<1>2. w \in Pids \cup {NULL}
  BY <1>0 DEF TypeOK
<1>3. CASE w = NULL \/ sched.state[w] # BLOCKED
  <2>1. sched' = sched
    BY <1>1, <1>3 DEF wakeupProcessInInterrupt, wakeupProcess
  <2> QED BY <1>1, <2>1, StutterInv DEF vars
<1> HIDE DEF w
<1>4. CASE w # NULL /\ sched.state[w] = BLOCKED
  <2>1. /\ w \in Pids /\ w \in allocProcessTable /\ at[w] = d
        /\ w # Idle /\ w # Running /\ w # Collector
        /\ w \notin Ready /\ w \notin Waiting
    BY <1>4, RegisteredFacts DEF w
  <2>2. /\ sched' \in SchedType
        /\ sched'.sleepList = removeList(sched.sleepList, w)
        /\ \/ /\ Running # Idle /\ sched'.runningProcess = Running
              /\ sched'.rsp0 = sched.rsp0
              /\ sched'.state = [sched.state EXCEPT ![w] = READY]
              /\ sched'.processList = insertList(sched.processList, w)
           \/ /\ Running = Idle /\ sched'.runningProcess = w /\ sched'.rsp0 = w
              /\ sched'.state = [sched.state EXCEPT ![w] = RUNNING]
              /\ sched'.processList = <<>> /\ sched.processList = <<>>
    BY <1>1, <1>4, <2>1, WakeBesideOthers, WakeBesideIdle
  <2>3. /\ IsInjectiveList(sched'.sleepList)
        /\ Sleeping' = Sleeping \ {w}
    <3> DEFINE l == sched.sleepList
    <3>1. l \in Seq(Pids) /\ IsInjectiveList(l)
      BY <1>0, TypeFacts DEF Injective
    <3> HIDE DEF l
    <3>2. /\ IsInjectiveList(removeList(l, w))
          /\ Elems(removeList(l, w)) = Elems(l) \ {w}
      BY <3>1, RemoveProperties
    <3> QED BY <2>2, <3>2 DEF l, Sleeping
  <2>4. /\ IsInjectiveList(insertList(sched.processList, w))
        /\ Elems(insertList(sched.processList, w)) = Ready \cup {w}
    <3> DEFINE r == sched.processList
    <3>1. r \in Seq(Pids) /\ IsInjectiveList(r) /\ Ready = Elems(r)
      BY <1>0, TypeFacts DEF Injective, Ready
    <3> HIDE DEF r
    <3>2. w \notin Elems(r)
      BY <2>1, <3>1
    <3>3. /\ IsInjectiveList(insertList(r, w))
          /\ Elems(insertList(r, w)) = Elems(r) \cup {w}
      BY <2>1, <3>1, <3>2, FreshInsert
    <3> QED BY <3>1, <3>3 DEF r
  <2>5. IsInjectiveList(<<>>) /\ Elems(<<>>) = {}
    BY EmptyProperties
  <2>6. /\ IsInjectiveList(sched'.processList)
        /\ Running # Idle => Running' = Running /\ Ready' = Ready \cup {w}
        /\ Running = Idle => Running' = w /\ Ready' = Ready /\ Ready = {}
    BY <2>2, <2>4, <2>5 DEF Running, Ready
  <2>7. Waiting' = Waiting
    BY <1>1 DEF Waiting
  <2>8. /\ sched.state \in [Pids -> States] /\ Running \in Pids
        /\ allocProcessTable \subseteq Pids
    BY <1>0, TypeFacts DEF TypeOK
  <2>9. \A q \in Pids : sched'.state[q] =
          IF q = w THEN (IF Running = Idle THEN RUNNING ELSE READY) ELSE sched.state[q]
    BY <2>1, <2>2, <2>8
  <2>10. TypeOK'
    BY <1>0, <1>1, <2>2 DEF TypeOK
  <2>11. Injective'
    BY <1>0, <1>1, <2>3, <2>6 DEF Injective
  <2>12. Placed'
    BY <1>0, <1>1, <1>4, <2>1, <2>3, <2>6, <2>7, <2>9, StateFacts DEF Placed
  <2>13. PointsOK'
    BY <1>0, <1>1, <1>4, <2>1, <2>6, <2>8, <2>9, StateFacts DEF PointsOK, PointOK
  <2>14. Residents' /\ RunningOK'
    BY <1>0, <1>1, <2>1, <2>6, <2>8, <2>9, PidFacts, StateFacts DEF Residents, RunningOK
  <2>15. LoopOK' /\ UserPagesOwned' /\ WaitersOK'
    BY <1>0, <1>1 DEF LoopOK, UserPagesOwned, WaitersOK
  <2>16. MutexOK'
    BY <1>0, <1>1, <2>1, <2>7, <2>8, <2>9 DEF MutexOK, Devices
  <2>17. WorkConserving' /\ TrapStackIsOwn'
    BY <1>0, <2>1, <1>1, <2>2, <2>6 DEF WorkConserving, TrapStackIsOwn
  <2>18. CollectorAwake'
    BY <1>0, <1>1, <2>1, <2>9, PidFacts DEF CollectorAwake
  <2> QED BY <2>10, <2>11, <2>12, <2>13, <2>14, <2>15, <2>16, <2>17, <2>18 DEF SchedInv
<1> QED BY <1>2, <1>3, <1>4

-----------------------------------------------------------------------------
(* The calls of a process.                                                 *)

\* What the guard of every call says.
LEMMA ClientFacts ==
    ASSUME SchedInv, NEW p, Client(p)
    PROVE  /\ isr = FALSE /\ cur = NULL /\ p = Running /\ at[Running] = "run"
           /\ p \in Pids /\ p # Collector /\ p # Idle
<1>1. TypeOK /\ LoopOK
  BY DEF SchedInv
<1>2. ~isr /\ at[Running] = "run" /\ p = Running /\ p # Collector /\ p # Idle
  BY DEF Client, InterruptsOn
<1> QED BY <1>1, <1>2, TypeFacts DEF LoopOK, TypeOK

\* The running process puts itself on the sleep list, for t ticks and to continue
\* behind the switch of x.
SleepsAt(p, t, x) ==
    /\ isr = FALSE /\ cur = NULL /\ p = Running /\ p # Collector /\ p # Idle
    /\ t \in Nat /\ x \in {"sleep", "disk"}
    /\ sched' = sleepUntilTick(sched, t)
    /\ at' = [at EXCEPT ![p] = x]
    /\ waiter' \in [Devices -> Pids \cup {NULL}] /\ WaitersOK'
    /\ UNCHANGED <<allocProcessTable, pidCountIdx, exitProcessQueue, mutex,
                   user, userAccess, isr, cur>>

\* sleepUntilTick keeps the invariant, whoever calls it.
LEMMA SleepsAtInv ==
    ASSUME SchedInv, NEW p, NEW t, NEW x, SleepsAt(p, t, x)
    PROVE  SchedInv'
<1> DEFINE next == headOrIdle(sched)
           rest == HeadRemove(sched.processList)
<1>0. /\ TypeOK /\ Injective /\ Placed /\ PointsOK /\ Residents /\ RunningOK
      /\ MutexOK /\ WaitersOK /\ CollectorAwake /\ TrapStackIsOwn /\ UserPagesOwned
  BY DEF SchedInv
<1>1. /\ sched' = sleepUntilTick(sched, t) /\ at' = [at EXCEPT ![p] = x]
      /\ x \in {"sleep", "disk"}
      /\ UNCHANGED <<allocProcessTable, pidCountIdx, exitProcessQueue, mutex,
                     user, userAccess, isr, cur>>
      /\ waiter' \in [Devices -> Pids \cup {NULL}] /\ WaitersOK'
  BY DEF SleepsAt
<1>2. /\ isr = FALSE /\ cur = NULL /\ p = Running /\ p \in Pids
      /\ p # Collector /\ p # Idle
  BY <1>0, TypeFacts DEF SleepsAt
<1>3. /\ next \in Pids /\ next \in allocProcessTable /\ (next \in Ready \/ next = Idle)
      /\ next # p /\ at[next] # "dead" /\ sched.state[next] # BLOCKED
      /\ next \notin Sleeping /\ next \notin Waiting
      /\ next \notin Elems(exitProcessQueue)
  BY <1>2, HeadOrIdleFacts, StateFacts
<1>4. /\ IsInjectiveList(rest) /\ Elems(rest) = Ready \ {next}
      /\ next = Idle => rest = <<>>
  BY HeadOrIdleFacts
<1>5. t \in Nat
  BY DEF SleepsAt
<1>6. /\ sched' \in SchedType /\ sched'.runningProcess = next /\ sched'.rsp0 = next
      /\ sched'.state = [sched.state EXCEPT ![p] = BLOCKED, ![next] = RUNNING]
      /\ sched'.processList = rest
      /\ sched'.sleepList = insertList(sched.sleepList, p)
  BY <1>0, <1>1, <1>2, <1>5, TypeFacts, SleepUntilTickEffect DEF Injective, Running
<1> HIDE DEF next, rest
<1>7. \A q \in Pids : sched'.state[q] =
          IF q = next THEN RUNNING ELSE IF q = p THEN BLOCKED ELSE sched.state[q]
  BY <1>0, <1>3, <1>6, TypeFacts
<1>8. /\ p \in allocProcessTable /\ sched.state[p] = RUNNING
      /\ p \notin Ready /\ p \notin Sleeping /\ p \notin Waiting
      /\ p \notin Elems(exitProcessQueue)
  BY <1>2, RunningFacts
<1>9. /\ IsInjectiveList(insertList(sched.sleepList, p))
      /\ Elems(insertList(sched.sleepList, p)) = Sleeping \cup {p}
  <2> DEFINE l == sched.sleepList
  <2>1. l \in Seq(Pids) /\ IsInjectiveList(l) /\ Elems(l) = Sleeping
    BY <1>0, TypeFacts DEF Injective, Sleeping
  <2> HIDE DEF l
  <2>2. p \notin Elems(l)
    BY <1>8, <2>1
  <2>3. /\ IsInjectiveList(insertList(l, p))
        /\ Elems(insertList(l, p)) = Elems(l) \cup {p}
    BY <1>2, <2>1, <2>2, FreshInsert
  <2> QED BY <2>1, <2>3 DEF l
<1>10. /\ Ready' = Ready \ {next} /\ Sleeping' = Sleeping \cup {p}
       /\ Waiting' = Waiting /\ Running' = next
  BY <1>1, <1>4, <1>6, <1>9 DEF Ready, Sleeping, Waiting, Running
<1>11. /\ at \in [Pids -> Points] /\ allocProcessTable \subseteq Pids
       /\ \A q \in Pids : at'[q] = IF q = p THEN x ELSE at[q]
  BY <1>0, <1>1 DEF TypeOK
<1>12. TypeOK'
  <2>1. at' \in [Pids -> Points]
    BY <1>1, <1>11 DEF Points
  <2> QED BY <1>0, <1>1, <1>6, <2>1 DEF TypeOK
<1>13. Injective'
  BY <1>0, <1>1, <1>4, <1>6, <1>9 DEF Injective
<1>14. Placed'
  BY <1>0, <1>1, <1>2, <1>3, <1>7, <1>8, <1>10, <1>11, StateFacts DEF Placed
<1>15. PointsOK'
  BY <1>0, <1>1, <1>2, <1>3, <1>7, <1>8, <1>10, <1>11, StateFacts
  DEF PointsOK, PointOK, Devices
<1>16. Residents' /\ RunningOK'
  BY <1>0, <1>1, <1>2, <1>3, <1>7, <1>10, <1>11, PidFacts, StateFacts
  DEF Residents, RunningOK
<1>17. LoopOK' /\ UserPagesOwned'
  BY <1>0, <1>1, <1>2 DEF LoopOK, UserPagesOwned
<1>18. MutexOK'
  BY <1>0, <1>1, <1>2, <1>3, <1>7, <1>8, <1>10, <1>11, StateFacts DEF MutexOK
<1>19. WorkConserving' /\ TrapStackIsOwn'
  BY <1>4, <1>6, <1>10 DEF WorkConserving, TrapStackIsOwn
<1>20. CollectorAwake'
  BY <1>0, <1>1, <1>2, <1>7, PidFacts, StateFacts DEF CollectorAwake
<1> QED BY <1>1, <1>12, <1>13, <1>14, <1>15, <1>16, <1>17, <1>18, <1>19, <1>20 DEF SchedInv

\* schedule, called by a process, keeps the invariant.
\* sleepProcess keeps the invariant.
LEMMA SleepInv ==
    ASSUME SchedInv, NEW p \in Pids, NEW ms \in Millis, sleepProcess(p, ms)
    PROVE  SchedInv'
<1>1. /\ isr = FALSE /\ cur = NULL /\ p = Running /\ at[p] = "run"
      /\ p # Collector /\ p # Idle
  BY ClientFacts DEF sleepProcess
<1>2. TypeOK /\ WaitersOK
  BY DEF SchedInv
<1>3. at' = [at EXCEPT ![p] = "sleep"] /\ UNCHANGED <<allocProcessTable, mutex, waiter>>
  BY DEF sleepProcess
<1>4. ticksOf(ms) \in Nat
  BY SchedulerAssumption, TicksInNat
<1>5. WaitersOK' /\ waiter' \in [Devices -> Pids \cup {NULL}]
  BY <1>1, <1>2, <1>3 DEF WaitersOK, TypeOK, Devices
<1>6. SleepsAt(p, ticksOf(ms), "sleep")
  BY <1>1, <1>4, <1>5 DEF SleepsAt, sleepProcess
<1> QED BY <1>6, SleepsAtInv

\* waitInterrupt keeps the invariant: the owner of the mutex is the only process
\* that can be registered with the disk.
LEMMA WaitInterruptInv ==
    ASSUME SchedInv, NEW p \in Pids, waitInterrupt(p)
    PROVE  SchedInv'
<1>1. /\ isr = FALSE /\ cur = NULL /\ p = Running /\ at[p] = "run"
      /\ p # Collector /\ p # Idle
  BY ClientFacts DEF waitInterrupt, KernelClient
<1>2. TypeOK /\ WaitersOK /\ RunningOK
  BY DEF SchedInv
<1>3. /\ at' = [at EXCEPT ![p] = "disk"] /\ waiter' = [waiter EXCEPT !["disk"] = p]
      /\ UNCHANGED <<allocProcessTable, mutex>> /\ mutex.pid = p
  BY DEF waitInterrupt
<1>4. WAIT_TICKS \in Nat
  BY SchedulerAssumption
<1>5. /\ waiter \in [Devices -> Pids \cup {NULL}] /\ at \in [Pids -> Points]
      /\ allocProcessTable \subseteq Pids
  BY <1>2 DEF TypeOK
<1>6. /\ \A d \in Devices : waiter'[d] = IF d = "disk" THEN p ELSE waiter[d]
      /\ \A q \in Pids : at'[q] = IF q = p THEN "disk" ELSE at[q]
      /\ waiter' \in [Devices -> Pids \cup {NULL}]
  BY <1>3, <1>5
<1>7. \A q \in allocProcessTable : at[q] # "disk"
  BY <1>1, <1>2, <1>3 DEF WaitersOK
<1>8. WaitersOK'
  <2>1. ASSUME NEW d \in Devices, NEW q \in Pids
        PROVE  waiter'[d] = q <=> q \in allocProcessTable /\ at'[q] = d
    <3>1. CASE d = "disk"
      BY <1>1, <1>2, <1>6, <1>7, <3>1 DEF RunningOK
    <3>2. CASE d # "disk"
      BY <1>1, <1>2, <1>6, <3>2, <2>1 DEF WaitersOK, Devices
    <3> QED BY <3>1, <3>2
  <2> QED BY <1>2, <1>3, <1>5, <1>6, <2>1 DEF WaitersOK
<1>9. SleepsAt(p, WAIT_TICKS, "disk")
  BY <1>1, <1>4, <1>6, <1>8 DEF SleepsAt, waitInterrupt
<1> QED BY <1>9, SleepsAtInv

LEMMA YieldInv ==
    ASSUME SchedInv, NEW p \in Pids, yield(p)
    PROVE  SchedInv'
<1> DEFINE next == headOrIdle(sched)
           rest == HeadRemove(sched.processList)
<1>0. /\ TypeOK /\ Injective /\ Placed /\ PointsOK /\ Residents /\ RunningOK
      /\ MutexOK /\ WaitersOK /\ CollectorAwake /\ TrapStackIsOwn /\ UserPagesOwned
  BY DEF SchedInv
<1>1. /\ sched' = schedule(sched) /\ at' = [at EXCEPT ![p] = "yield"]
      /\ UNCHANGED <<allocProcessTable, pidCountIdx, exitProcessQueue, mutex,
                     user, userAccess, waiter, isr, cur>>
      /\ Client(p) /\ sched.processList # <<>>
  BY DEF yield, KernelClient
<1>2. /\ isr = FALSE /\ cur = NULL /\ p = Running /\ at[p] = "run"
      /\ p # Collector /\ p # Idle
  BY <1>1, ClientFacts
<1>3. /\ next \in Pids /\ next \in allocProcessTable /\ next \in Ready /\ next # Idle
      /\ next # p /\ at[next] # "dead" /\ sched.state[next] # BLOCKED
      /\ next \notin Sleeping /\ next \notin Waiting
      /\ next \notin Elems(exitProcessQueue)
  BY <1>1, <1>2, HeadOrIdleFacts, StateFacts
<1>4. rest \in Seq(Pids) /\ IsInjectiveList(rest) /\ Elems(rest) = Ready \ {next}
  BY HeadOrIdleFacts
<1>5. next = HeadOf(sched.processList)
  BY <1>1 DEF headOrIdle
<1>6. /\ sched' \in SchedType /\ sched'.runningProcess = next /\ sched'.rsp0 = next
      /\ sched'.state = [sched.state EXCEPT ![p] = READY, ![next] = RUNNING]
      /\ sched'.processList = insertList(rest, p)
      /\ sched'.sleepList = sched.sleepList
  BY <1>0, <1>1, <1>2, <1>5, TypeFacts, ScheduleEffect DEF Injective, Running
<1> HIDE DEF next, rest
<1>7. \A q \in Pids : sched'.state[q] =
          IF q = next THEN RUNNING ELSE IF q = p THEN READY ELSE sched.state[q]
  BY <1>0, <1>3, <1>6, TypeFacts
<1>8. /\ p \in allocProcessTable /\ sched.state[p] = RUNNING
      /\ p \notin Ready /\ p \notin Sleeping /\ p \notin Waiting
      /\ p \notin Elems(exitProcessQueue)
  BY <1>2, RunningFacts
<1>9. /\ IsInjectiveList(insertList(rest, p))
      /\ Elems(insertList(rest, p)) = (Ready \ {next}) \cup {p}
  <2>1. p \notin Elems(rest)
    BY <1>4, <1>8
  <2> QED BY <1>4, <2>1, FreshInsert
<1>10. /\ Ready' = (Ready \ {next}) \cup {p} /\ Sleeping' = Sleeping
       /\ Waiting' = Waiting /\ Running' = next
  BY <1>1, <1>6, <1>9 DEF Ready, Sleeping, Waiting, Running
<1>11. /\ at \in [Pids -> Points] /\ allocProcessTable \subseteq Pids
       /\ \A q \in Pids : at'[q] = IF q = p THEN "yield" ELSE at[q]
  BY <1>0, <1>1 DEF TypeOK
<1>12. TypeOK'
  <2>1. at' \in [Pids -> Points]
    BY <1>1, <1>11 DEF Points
  <2> QED BY <1>0, <1>1, <1>6, <2>1 DEF TypeOK
<1>13. Injective'
  BY <1>0, <1>1, <1>6, <1>9 DEF Injective
<1>14. Placed'
  BY <1>0, <1>1, <1>2, <1>3, <1>7, <1>8, <1>10, <1>11, StateFacts DEF Placed
<1>15. PointsOK'
  BY <1>0, <1>1, <1>2, <1>3, <1>7, <1>8, <1>10, <1>11, StateFacts DEF PointsOK, PointOK
<1>16. Residents' /\ RunningOK'
  BY <1>0, <1>1, <1>2, <1>3, <1>7, <1>10, <1>11, PidFacts, StateFacts
  DEF Residents, RunningOK
<1>17. LoopOK' /\ UserPagesOwned'
  BY <1>0, <1>1, <1>2 DEF LoopOK, UserPagesOwned
<1>18. MutexOK'
  BY <1>0, <1>1, <1>2, <1>3, <1>7, <1>8, <1>10, <1>11, StateFacts DEF MutexOK
<1>19. WorkConserving' /\ TrapStackIsOwn'
  BY <1>3, <1>6, <1>10 DEF WorkConserving, TrapStackIsOwn
<1>20. CollectorAwake'
  BY <1>0, <1>1, <1>2, <1>7, PidFacts, StateFacts DEF CollectorAwake
<1>21. WaitersOK'
  BY <1>0, <1>1, <1>2, <1>11 DEF WaitersOK, Devices
<1> QED BY <1>12, <1>13, <1>14, <1>15, <1>16, <1>17, <1>18, <1>19, <1>20, <1>21 DEF SchedInv

\* acquireLock without waiting: only the mutex changes.
LEMMA AcquireNowInv ==
    ASSUME SchedInv, NEW p \in Pids, acquireLock(p), acquireFree(p) \/ acquireAgain(p)
    PROVE  SchedInv'
<1>0. /\ TypeOK /\ Injective /\ Placed /\ PointsOK /\ Residents /\ RunningOK
      /\ LoopOK /\ MutexOK /\ WaitersOK
      /\ WorkConserving /\ CollectorAwake /\ TrapStackIsOwn /\ UserPagesOwned
  BY DEF SchedInv
<1>1. /\ Client(p)
      /\ UNCHANGED <<sched, at, allocProcessTable, pidCountIdx, exitProcessQueue,
                     user, userAccess, waiter, isr, cur>>
  BY DEF acquireLock, KernelClient, acquireFree, acquireAgain
<1>2. /\ p = Running /\ at[p] = "run" /\ p # Collector /\ p # Idle
  BY <1>1, ClientFacts
<1>3. /\ mutex' \in [pid : Pids \cup {NULL}, count : Nat, waitList : Seq(Pids)]
      /\ mutex'.pid = p /\ mutex'.waitList = mutex.waitList
      /\ mutex'.count > 0
  <2>1. mutex \in [pid : Pids \cup {NULL}, count : Nat, waitList : Seq(Pids)]
    BY <1>0 DEF TypeOK
  <2>2. CASE acquireFree(p)
    <3>1. mutex' = [mutex EXCEPT !.pid = p, !.count = 1]
      BY <2>2 DEF acquireFree
    <3>2. 1 \in Nat /\ 1 > 0
      OBVIOUS
    <3>3. mutex'.pid = p /\ mutex'.count = 1 /\ mutex'.waitList = mutex.waitList
      BY <2>1, <3>1
    <3>4. mutex' \in [pid : Pids \cup {NULL}, count : Nat, waitList : Seq(Pids)]
      BY <2>1, <3>1, <3>2
    <3> QED BY <3>2, <3>3, <3>4
  <2>3. CASE acquireAgain(p)
    <3>1. mutex' = [mutex EXCEPT !.count = mutex.count + 1] /\ mutex.pid = p
      BY <2>3 DEF acquireAgain
    <3>2. mutex.count \in Nat /\ mutex.count + 1 \in Nat /\ mutex.count + 1 > 0
      BY <2>1
    <3> QED BY <2>1, <3>1, <3>2
  <2> QED BY <2>2, <2>3
<1>4. /\ Running' = Running /\ Ready' = Ready /\ Sleeping' = Sleeping
      /\ Waiting' = Waiting
  BY <1>1, <1>3 DEF Running, Ready, Sleeping, Waiting
<1>5. TypeOK' /\ Injective'
  BY <1>0, <1>1, <1>3 DEF TypeOK, Injective
<1>6. Placed' /\ PointsOK' /\ Residents' /\ RunningOK'
  BY <1>0, <1>1, <1>4 DEF Placed, PointsOK, PointOK, Residents, RunningOK
<1>7. LoopOK' /\ WorkConserving' /\ CollectorAwake' /\ TrapStackIsOwn' /\ UserPagesOwned'
  BY <1>0, <1>1, <1>4
  DEF LoopOK, WorkConserving, CollectorAwake, TrapStackIsOwn, UserPagesOwned
<1>8. MutexOK'
  <2>1. /\ p \in allocProcessTable /\ p \notin Waiting /\ p # NULL
        /\ at[p] # "dead"
    BY <1>2, RunningFacts, PidFacts
  <2>2. \A q \in allocProcessTable : at[q] = "lock" => sched.state[q] = BLOCKED
    <3>1. mutex.pid = NULL \/ mutex.pid = p
      BY DEF acquireFree, acquireAgain
    <3>2. NULL \notin allocProcessTable
      BY <1>0, PidFacts DEF TypeOK
    <3> QED BY <1>0, <1>2, <3>1, <3>2 DEF MutexOK
  <2> QED BY <1>0, <1>1, <1>2, <1>3, <1>4, <2>1, <2>2 DEF MutexOK
<1>9. WaitersOK'
  BY <1>0, <1>1, <1>3, PidFacts DEF WaitersOK, TypeOK, acquireFree, acquireAgain
<1> QED BY <1>5, <1>6, <1>7, <1>8, <1>9 DEF SchedInv

\* acquireLock that waits: the process joins the waiters and blocks.
LEMMA AcquireWaitInv ==
    ASSUME SchedInv, NEW p \in Pids, acquireLock(p), acquireWait(p)
    PROVE  SchedInv'
<1> DEFINE next == headOrIdle(sched)
           rest == HeadRemove(sched.processList)
<1>0. /\ TypeOK /\ Injective /\ Placed /\ PointsOK /\ Residents /\ RunningOK
      /\ MutexOK /\ WaitersOK /\ CollectorAwake /\ TrapStackIsOwn /\ UserPagesOwned
  BY DEF SchedInv
<1>1. /\ sched' = blockRunningProcess(sched) /\ at' = [at EXCEPT ![p] = "lock"]
      /\ mutex' = [mutex EXCEPT !.waitList = insertList(mutex.waitList, p)]
      /\ mutex.pid # NULL /\ mutex.pid # p
      /\ UNCHANGED <<allocProcessTable, pidCountIdx, exitProcessQueue,
                     user, userAccess, waiter, isr, cur>>
      /\ Client(p)
  BY DEF acquireLock, acquireWait, KernelClient
<1>2. /\ isr = FALSE /\ cur = NULL /\ p = Running /\ at[p] = "run"
      /\ p # Collector /\ p # Idle
  BY <1>1, ClientFacts
<1>3. /\ next \in Pids /\ next \in allocProcessTable /\ (next \in Ready \/ next = Idle)
      /\ next # p /\ at[next] # "dead" /\ sched.state[next] # BLOCKED
      /\ next \notin Sleeping /\ next \notin Waiting
      /\ next \notin Elems(exitProcessQueue)
  BY <1>2, HeadOrIdleFacts, StateFacts
<1>4. /\ IsInjectiveList(rest) /\ Elems(rest) = Ready \ {next}
      /\ next = Idle => rest = <<>>
  BY HeadOrIdleFacts
<1>6. /\ sched' \in SchedType /\ sched'.runningProcess = next /\ sched'.rsp0 = next
      /\ sched'.state = [sched.state EXCEPT ![p] = BLOCKED, ![next] = RUNNING]
      /\ sched'.processList = rest
      /\ sched'.sleepList = sched.sleepList
  BY <1>0, <1>1, <1>2, TypeFacts, BlockRunningEffect DEF Injective, Running
<1> HIDE DEF next, rest
<1>7. \A q \in Pids : sched'.state[q] =
          IF q = next THEN RUNNING ELSE IF q = p THEN BLOCKED ELSE sched.state[q]
  BY <1>0, <1>3, <1>6, TypeFacts
<1>8. /\ p \in allocProcessTable /\ sched.state[p] = RUNNING
      /\ p \notin Ready /\ p \notin Sleeping /\ p \notin Waiting
      /\ p \notin Elems(exitProcessQueue)
  BY <1>2, RunningFacts
<1>9. /\ insertList(mutex.waitList, p) \in Seq(Pids)
      /\ IsInjectiveList(insertList(mutex.waitList, p))
      /\ Elems(insertList(mutex.waitList, p)) = Waiting \cup {p}
  <2> DEFINE l == mutex.waitList
  <2>1. l \in Seq(Pids) /\ IsInjectiveList(l) /\ Elems(l) = Waiting
    BY <1>0, TypeFacts DEF Injective, Waiting
  <2> HIDE DEF l
  <2>2. p \notin Elems(l)
    BY <1>8, <2>1
  <2>3. /\ insertList(l, p) \in Seq(Pids)
        /\ IsInjectiveList(insertList(l, p))
        /\ Elems(insertList(l, p)) = Elems(l) \cup {p}
    BY <2>1, <2>2, FreshInsert
  <2> QED BY <2>1, <2>3 DEF l
<1>5. /\ mutex' \in [pid : Pids \cup {NULL}, count : Nat, waitList : Seq(Pids)]
      /\ mutex'.pid = mutex.pid /\ mutex'.count = mutex.count
      /\ mutex'.waitList = insertList(mutex.waitList, p)
  <2>1. mutex \in [pid : Pids \cup {NULL}, count : Nat, waitList : Seq(Pids)]
    BY <1>0 DEF TypeOK
  <2>2. insertList(mutex.waitList, p) \in Seq(Pids)
    BY <1>9
  <2> QED BY <1>1, <2>1, <2>2
<1>10. /\ Ready' = Ready \ {next} /\ Sleeping' = Sleeping
       /\ Waiting' = Waiting \cup {p} /\ Running' = next
  BY <1>4, <1>5, <1>6, <1>9 DEF Ready, Sleeping, Waiting, Running
<1>11. /\ at \in [Pids -> Points] /\ allocProcessTable \subseteq Pids
       /\ \A q \in Pids : at'[q] = IF q = p THEN "lock" ELSE at[q]
  BY <1>0, <1>1 DEF TypeOK
<1>12. TypeOK'
  <2>1. at' \in [Pids -> Points]
    BY <1>1, <1>11 DEF Points
  <2>2. mutex' \in [pid : Pids \cup {NULL}, count : Nat, waitList : Seq(Pids)]
    BY <1>5
  <2> QED BY <1>0, <1>1, <1>6, <2>1, <2>2 DEF TypeOK
<1>13. Injective'
  BY <1>0, <1>1, <1>4, <1>5, <1>6, <1>9 DEF Injective
<1>14. Placed'
  BY <1>0, <1>1, <1>2, <1>3, <1>7, <1>8, <1>10, <1>11, StateFacts DEF Placed
<1>15. PointsOK'
  BY <1>0, <1>1, <1>2, <1>3, <1>7, <1>8, <1>10, <1>11, StateFacts DEF PointsOK, PointOK
<1>16. Residents' /\ RunningOK'
  BY <1>0, <1>1, <1>2, <1>3, <1>7, <1>10, <1>11, PidFacts, StateFacts
  DEF Residents, RunningOK
<1>17. LoopOK' /\ UserPagesOwned'
  BY <1>0, <1>1, <1>2 DEF LoopOK, UserPagesOwned
<1>18. MutexOK'
  <2>1. /\ mutex'.pid = mutex.pid /\ mutex'.count = mutex.count
        /\ mutex.pid # NULL /\ mutex.pid # p
    BY <1>1, <1>5
  <2>2. /\ mutex.count > 0 /\ mutex.pid \in allocProcessTable \ {Collector, Idle}
        /\ at[mutex.pid] # "dead" /\ mutex.pid \notin Waiting
    BY <1>0, <2>1 DEF MutexOK
  <2>3. at'[mutex.pid] # "dead" /\ mutex.pid \notin Waiting'
    BY <1>10, <1>11, <2>1, <2>2
  <2>4. \A q \in allocProcessTable :
          at'[q] = "lock" /\ sched'.state[q] # BLOCKED
            => mutex.pid = q /\ mutex.count = 1
    BY <1>0, <1>3, <1>7, <1>11, StateFacts DEF MutexOK
  <2> QED BY <1>1, <2>1, <2>2, <2>3, <2>4 DEF MutexOK
<1>19. WorkConserving' /\ TrapStackIsOwn'
  BY <1>4, <1>6, <1>10 DEF WorkConserving, TrapStackIsOwn
<1>20. CollectorAwake'
  BY <1>0, <1>1, <1>2, <1>7, PidFacts, StateFacts DEF CollectorAwake
<1>21. WaitersOK'
  BY <1>0, <1>1, <1>2, <1>5, <1>11 DEF WaitersOK, Devices
<1> QED BY <1>12, <1>13, <1>14, <1>15, <1>16, <1>17, <1>18, <1>19, <1>20, <1>21 DEF SchedInv

\* The running process blocks: the collector on its empty queue or the shell for a
\* key.
BlocksAt(p, x) ==
    /\ isr = FALSE /\ cur = NULL /\ p = Running
    /\ \/ x = "gc" /\ p = Collector /\ exitProcessQueue = <<>>
       \/ x = "key" /\ p = Shell
    /\ sched' = blockRunningProcess(sched)
    /\ at' = [at EXCEPT ![p] = x]
    /\ waiter' \in [Devices -> Pids \cup {NULL}] /\ WaitersOK'
    /\ UNCHANGED <<allocProcessTable, pidCountIdx, exitProcessQueue, mutex,
                   user, userAccess, isr, cur>>

\* blockRunningProcess keeps the invariant, whoever calls it.
LEMMA BlocksAtInv ==
    ASSUME SchedInv, NEW p, NEW x, BlocksAt(p, x)
    PROVE  SchedInv'
<1> DEFINE next == headOrIdle(sched)
           rest == HeadRemove(sched.processList)
<1>0. /\ TypeOK /\ Injective /\ Placed /\ PointsOK /\ Residents /\ RunningOK
      /\ LoopOK /\ MutexOK /\ WaitersOK /\ CollectorAwake /\ TrapStackIsOwn /\ UserPagesOwned
  BY DEF SchedInv
<1>1. /\ sched' = blockRunningProcess(sched) /\ at' = [at EXCEPT ![p] = x]
      /\ UNCHANGED <<allocProcessTable, pidCountIdx, exitProcessQueue, mutex,
                     user, userAccess, isr, cur>>
      /\ waiter' \in [Devices -> Pids \cup {NULL}] /\ WaitersOK'
      /\ \/ x = "gc" /\ p = Collector /\ exitProcessQueue = <<>>
         \/ x = "key" /\ p = Shell
  BY DEF BlocksAt
<1>2. /\ isr = FALSE /\ cur = NULL /\ p = Running
      /\ p # Idle /\ p \in Pids
  BY <1>1, PidFacts DEF BlocksAt, Collector, Idle, Shell
<1>3. /\ next \in Pids /\ next \in allocProcessTable /\ (next \in Ready \/ next = Idle)
      /\ next # p /\ at[next] # "dead" /\ sched.state[next] # BLOCKED
      /\ next \notin Sleeping /\ next \notin Waiting
      /\ next \notin Elems(exitProcessQueue)
  BY <1>2, HeadOrIdleFacts, StateFacts
<1>4. /\ IsInjectiveList(rest) /\ Elems(rest) = Ready \ {next}
      /\ next = Idle => rest = <<>>
  BY HeadOrIdleFacts
<1>6. /\ sched' \in SchedType /\ sched'.runningProcess = next /\ sched'.rsp0 = next
      /\ sched'.state = [sched.state EXCEPT ![p] = BLOCKED, ![next] = RUNNING]
      /\ sched'.processList = rest
      /\ sched'.sleepList = sched.sleepList
  BY <1>0, <1>1, <1>2, TypeFacts, BlockRunningEffect DEF Injective, Running
<1> HIDE DEF next, rest
<1>7. \A q \in Pids : sched'.state[q] =
          IF q = next THEN RUNNING ELSE IF q = p THEN BLOCKED ELSE sched.state[q]
  BY <1>0, <1>2, <1>3, <1>6, TypeFacts
<1>8. /\ p \in allocProcessTable /\ sched.state[p] = RUNNING
      /\ p \notin Ready /\ p \notin Sleeping /\ p \notin Waiting
      /\ p \notin Elems(exitProcessQueue)
  BY <1>2, RunningFacts
<1>10. /\ Ready' = Ready \ {next} /\ Sleeping' = Sleeping
       /\ Waiting' = Waiting /\ Running' = next
  BY <1>1, <1>4, <1>6 DEF Ready, Sleeping, Waiting, Running
<1>11. /\ at \in [Pids -> Points] /\ allocProcessTable \subseteq Pids
       /\ \A q \in Pids : at'[q] = IF q = p THEN x ELSE at[q]
  BY <1>0, <1>1 DEF TypeOK
<1>12. TypeOK'
  <2>1. at' \in [Pids -> Points]
    BY <1>1, <1>11 DEF Points
  <2> QED BY <1>0, <1>1, <1>6, <2>1 DEF TypeOK
<1>13. Injective'
  BY <1>0, <1>1, <1>4, <1>6 DEF Injective
<1>14. Placed'
  BY <1>0, <1>1, <1>2, <1>3, <1>7, <1>8, <1>10, <1>11, StateFacts DEF Placed
<1>15. PointsOK'
  BY <1>0, <1>1, <1>2, <1>3, <1>7, <1>8, <1>10, <1>11, StateFacts
  DEF PointsOK, PointOK, Devices
<1>16. Residents' /\ RunningOK'
  BY <1>0, <1>1, <1>2, <1>3, <1>7, <1>10, <1>11, PidFacts, StateFacts
  DEF Residents, RunningOK, Shell, Collector, Idle
<1>17. LoopOK' /\ UserPagesOwned'
  BY <1>0, <1>1, <1>2 DEF LoopOK, UserPagesOwned
<1>18. MutexOK'
  BY <1>0, <1>1, <1>2, <1>3, <1>7, <1>8, <1>10, <1>11, StateFacts DEF MutexOK
<1>19. WorkConserving' /\ TrapStackIsOwn'
  BY <1>4, <1>6, <1>10 DEF WorkConserving, TrapStackIsOwn
<1>20. CollectorAwake'
  BY <1>0, <1>1, <1>2, <1>7, PidFacts, StateFacts
  DEF CollectorAwake, Shell, Collector
<1> QED BY <1>1, <1>12, <1>13, <1>14, <1>15, <1>16, <1>17, <1>18, <1>19, <1>20
        DEF SchedInv

\* A release that does not end the ownership.
\* The collector blocks on an empty queue.
LEMMA CollectorBlocksInv ==
    ASSUME SchedInv, collectorBlocks
    PROVE  SchedInv'
<1>1. TypeOK /\ WaitersOK /\ LoopOK /\ Residents
  BY DEF SchedInv
<1>2. /\ isr = FALSE /\ cur = NULL /\ Running = Collector /\ at[Collector] \in {"run", "gc"}
      /\ at' = [at EXCEPT ![Collector] = "gc"]
      /\ UNCHANGED <<allocProcessTable, mutex, waiter>>
  BY <1>1 DEF collectorBlocks, collectorTurn, LoopOK, TypeOK
<1>3. WaitersOK' /\ waiter' \in [Devices -> Pids \cup {NULL}]
  BY <1>1, <1>2 DEF WaitersOK, TypeOK, Devices
<1>4. BlocksAt(Collector, "gc")
  BY <1>2, <1>3 DEF BlocksAt, collectorBlocks
<1> QED BY <1>4, BlocksAtInv

\* getKey keeps the invariant.
LEMMA GetKeyInv ==
    ASSUME SchedInv, NEW p \in Pids, getKey(p)
    PROVE  SchedInv'
<1>1. /\ isr = FALSE /\ cur = NULL /\ p = Running /\ at[p] = "run" /\ p = Shell
  BY ClientFacts DEF getKey, KernelClient
<1>2. TypeOK /\ WaitersOK /\ RunningOK
  BY DEF SchedInv
<1>3. /\ at' = [at EXCEPT ![p] = "key"] /\ waiter' = [waiter EXCEPT !["key"] = p]
      /\ UNCHANGED <<allocProcessTable, mutex>>
  BY DEF getKey
<1>5. /\ waiter \in [Devices -> Pids \cup {NULL}] /\ at \in [Pids -> Points]
      /\ allocProcessTable \subseteq Pids
  BY <1>2 DEF TypeOK
<1>6. /\ \A d \in Devices : waiter'[d] = IF d = "key" THEN p ELSE waiter[d]
      /\ \A q \in Pids : at'[q] = IF q = p THEN "key" ELSE at[q]
      /\ waiter' \in [Devices -> Pids \cup {NULL}]
  BY <1>3, <1>5
<1>7. \A q \in allocProcessTable : at[q] # "key"
  BY <1>1, <1>2 DEF WaitersOK
<1>8. WaitersOK'
  <2>1. ASSUME NEW d \in Devices, NEW q \in Pids
        PROVE  waiter'[d] = q <=> q \in allocProcessTable /\ at'[q] = d
    <3>1. CASE d = "key"
      BY <1>1, <1>2, <1>6, <1>7, <3>1 DEF RunningOK
    <3>2. CASE d # "key"
      BY <1>1, <1>2, <1>6, <3>2, <2>1 DEF WaitersOK, Devices
    <3> QED BY <3>1, <3>2
  <2> QED BY <1>1, <1>2, <1>3, <1>5, <1>6, <2>1 DEF WaitersOK
<1>9. BlocksAt(p, "key")
  BY <1>1, <1>6, <1>8 DEF BlocksAt, getKey
<1> QED BY <1>9, BlocksAtInv

\* Whoever waits again, for the rest of its time or for the next key, stays
\* registered and where it is.
LEMMA WaitAgainInv ==
    ASSUME SchedInv, NEW p \in Pids, waitAgain(p)
    PROVE  SchedInv'
<1>1. TypeOK /\ WaitersOK /\ LoopOK /\ Residents /\ RunningOK /\ MutexOK
  BY DEF SchedInv
<1>2. /\ isr = FALSE /\ cur = NULL /\ p = Running /\ at[p] \in {"disk", "key"}
      /\ UNCHANGED <<allocProcessTable, pidCountIdx, exitProcessQueue, mutex, at,
                     user, userAccess, waiter, isr, cur>>
  BY <1>1 DEF waitAgain, LoopOK, TypeOK, Devices
<1>3. at' = [at EXCEPT ![p] = at[p]] /\ WaitersOK' /\ waiter' \in [Devices -> Pids \cup {NULL}]
  BY <1>1, <1>2 DEF TypeOK, WaitersOK
<1>4. p \in allocProcessTable
  BY <1>1, <1>2 DEF RunningOK
<1>5. CASE at[p] = "disk"
  <2>1. p # Collector /\ p # Idle
    BY <1>1, <1>5 DEF Residents
  <2>2. sched.wakeupTick[p] \in Nat
    BY <1>1, SchedFields DEF TypeOK
  <2>3. sched' = sleepUntilTick(sched, sched.wakeupTick[p])
    BY <1>5 DEF waitAgain
  <2>4. SleepsAt(p, sched.wakeupTick[p], "disk")
    BY <1>2, <1>3, <1>5, <2>1, <2>2, <2>3 DEF SleepsAt
  <2> QED BY <2>4, SleepsAtInv
<1>6. CASE at[p] = "key"
  <2>1. p = Shell
    BY <1>1, <1>4, <1>6 DEF WaitersOK
  <2>2. sched' = blockRunningProcess(sched)
    BY <1>6 DEF waitAgain
  <2>3. BlocksAt(p, "key")
    BY <1>2, <1>3, <1>6, <2>1, <2>2 DEF BlocksAt
  <2> QED BY <2>3, BlocksAtInv
<1> QED BY <1>2, <1>5, <1>6

\* The wait ends: the process is no longer registered.
LEMMA WaitEndsInv ==
    ASSUME SchedInv, NEW p \in Pids, waitEnds(p)
    PROVE  SchedInv'
<1>0. /\ TypeOK /\ Injective /\ Placed /\ PointsOK /\ Residents /\ RunningOK
      /\ LoopOK /\ MutexOK /\ WaitersOK
      /\ WorkConserving /\ CollectorAwake /\ TrapStackIsOwn /\ UserPagesOwned
  BY DEF SchedInv
<1>1. /\ at' = [at EXCEPT ![p] = "run"] /\ waiter' = [waiter EXCEPT ![at[p]] = NULL]
      /\ p = Running /\ at[p] \in Devices
      /\ UNCHANGED <<sched, allocProcessTable, pidCountIdx, exitProcessQueue, mutex,
                     user, userAccess, isr, cur>>
  BY DEF waitEnds
<1>2. sched.state[p] = RUNNING /\ p \in allocProcessTable
  BY <1>1, RunningFacts
<1>3. /\ Running' = Running /\ Ready' = Ready /\ Sleeping' = Sleeping
      /\ Waiting' = Waiting
  BY <1>1 DEF Running, Ready, Sleeping, Waiting
<1>4. /\ allocProcessTable \subseteq Pids
      /\ \A q \in Pids : at'[q] = IF q = p THEN "run" ELSE at[q]
      /\ \A d \in Devices : waiter'[d] = IF d = at[p] THEN NULL ELSE waiter[d]
  BY <1>0, <1>1 DEF TypeOK
<1>5. TypeOK'
  <2>1. at' \in [Pids -> Points]
    BY <1>0, <1>1 DEF TypeOK, Points
  <2>2. waiter' \in [Devices -> Pids \cup {NULL}]
    BY <1>0, <1>1 DEF TypeOK
  <2> QED BY <1>0, <1>1, <2>1, <2>2 DEF TypeOK
<1>6. Injective'
  BY <1>0, <1>1 DEF Injective
<1>7. Placed' /\ PointsOK'
  BY <1>0, <1>1, <1>2, <1>3, <1>4, StateFacts DEF Placed, PointsOK, PointOK, Devices
<1>8. Residents' /\ RunningOK'
  BY <1>0, <1>1, <1>3, <1>4, PidFacts DEF Residents, RunningOK
<1>9. LoopOK' /\ WorkConserving' /\ CollectorAwake' /\ TrapStackIsOwn' /\ UserPagesOwned'
  BY <1>0, <1>1, <1>3
  DEF LoopOK, WorkConserving, CollectorAwake, TrapStackIsOwn, UserPagesOwned
<1>10. MutexOK'
  BY <1>0, <1>1, <1>3, <1>4 DEF MutexOK
<1>11. WaitersOK'
  <2>1. waiter[at[p]] = p
    BY <1>0, <1>1, <1>2 DEF WaitersOK
  <2>2. ASSUME NEW d \in Devices, NEW q \in Pids
        PROVE  waiter'[d] = q <=> q \in allocProcessTable /\ at'[q] = d
    BY <1>0, <1>1, <1>2, <1>4, <2>1, <2>2, PidFacts DEF WaitersOK, Devices
  <2> QED BY <1>0, <1>1, <1>4, <2>2 DEF WaitersOK
<1> QED BY <1>5, <1>6, <1>7, <1>8, <1>9, <1>10, <1>11 DEF SchedInv

LEMMA ReleaseInnerInv ==
    ASSUME SchedInv, NEW p \in Pids, releaseLock(p), mutex.count # 1
    PROVE  SchedInv'
<1>0. /\ TypeOK /\ Injective /\ Placed /\ PointsOK /\ Residents /\ RunningOK
      /\ LoopOK /\ MutexOK /\ WaitersOK
      /\ WorkConserving /\ CollectorAwake /\ TrapStackIsOwn /\ UserPagesOwned
  BY DEF SchedInv
<1>1. /\ mutex' = [mutex EXCEPT !.count = mutex.count - 1] /\ mutex.pid = p /\ Client(p)
      /\ UNCHANGED <<sched, at, allocProcessTable, pidCountIdx, exitProcessQueue,
                     user, userAccess, waiter, isr, cur>>
  BY DEF releaseLock, KernelClient
<1>2. p = Running /\ at[p] = "run" /\ p # NULL
  BY <1>1, ClientFacts, PidFacts
<1>3. mutex.count \in Nat /\ mutex.count > 0
  BY <1>0, <1>1, <1>2, TypeFacts DEF MutexOK
<1>4. mutex.count - 1 \in Nat /\ mutex.count - 1 > 0
  BY <1>3
<1>5. /\ mutex' \in [pid : Pids \cup {NULL}, count : Nat, waitList : Seq(Pids)]
      /\ mutex'.pid = mutex.pid /\ mutex'.waitList = mutex.waitList
      /\ mutex'.count = mutex.count - 1
  BY <1>0, <1>1, <1>4 DEF TypeOK
<1>6. /\ Running' = Running /\ Ready' = Ready /\ Sleeping' = Sleeping
      /\ Waiting' = Waiting
  BY <1>1, <1>5 DEF Running, Ready, Sleeping, Waiting
<1>7. TypeOK' /\ Injective'
  BY <1>0, <1>1, <1>5 DEF TypeOK, Injective
<1>8. Placed' /\ PointsOK' /\ Residents' /\ RunningOK'
  BY <1>0, <1>1, <1>6 DEF Placed, PointsOK, PointOK, Residents, RunningOK
<1>9. LoopOK' /\ WorkConserving' /\ CollectorAwake' /\ TrapStackIsOwn' /\ UserPagesOwned'
  BY <1>0, <1>1, <1>6
  DEF LoopOK, WorkConserving, CollectorAwake, TrapStackIsOwn, UserPagesOwned
<1>10. MutexOK'
  <2>1. \A q \in allocProcessTable : at[q] = "lock" => sched.state[q] = BLOCKED
    BY <1>0, <1>1, <1>2 DEF MutexOK
  <2>2. mutex'.count > 0
    BY <1>4, <1>5
  <2> QED BY <1>0, <1>1, <1>2, <1>5, <1>6, <2>1, <2>2 DEF MutexOK
<1>11. WaitersOK'
  BY <1>0, <1>1, <1>5 DEF WaitersOK
<1> QED BY <1>7, <1>8, <1>9, <1>10, <1>11 DEF SchedInv

\* The last release when nobody waits.
LEMMA ReleaseFreeInv ==
    ASSUME SchedInv, NEW p \in Pids, releaseLock(p), mutex.count = 1, mutex.waitList = <<>>
    PROVE  SchedInv'
<1>0. /\ TypeOK /\ Injective /\ Placed /\ PointsOK /\ Residents /\ RunningOK
      /\ LoopOK /\ MutexOK /\ WaitersOK
      /\ WorkConserving /\ CollectorAwake /\ TrapStackIsOwn /\ UserPagesOwned
  BY DEF SchedInv
<1>1. /\ mutex' = [mutex EXCEPT !.pid = NULL, !.count = 0] /\ mutex.pid = p /\ Client(p)
      /\ sched' = wakeupProcess(sched, NULL)
      /\ UNCHANGED <<at, allocProcessTable, pidCountIdx, exitProcessQueue,
                     user, userAccess, waiter, isr, cur>>
  BY DEF releaseLock, KernelClient, handOff, HeadOf
<1>2. p = Running /\ at[p] = "run" /\ p # NULL
  BY <1>1, ClientFacts, PidFacts
<1>3. sched' = sched
  BY <1>1 DEF wakeupProcess
<1>4. 0 \in Nat
  OBVIOUS
<1>5. /\ mutex' \in [pid : Pids \cup {NULL}, count : Nat, waitList : Seq(Pids)]
      /\ mutex'.pid = NULL /\ mutex'.waitList = <<>>
  <2>1. mutex \in [pid : Pids \cup {NULL}, count : Nat, waitList : Seq(Pids)]
    BY <1>0 DEF TypeOK
  <2>2. mutex'.pid = NULL /\ mutex'.waitList = mutex.waitList
    BY <1>1, <2>1
  <2>3. mutex' \in [pid : Pids \cup {NULL}, count : Nat, waitList : Seq(Pids)]
    BY <1>1, <1>4, <2>1
  <2> QED BY <2>2, <2>3
<1>6. /\ Running' = Running /\ Ready' = Ready /\ Sleeping' = Sleeping
      /\ Waiting' = Waiting
  BY <1>3, <1>5 DEF Running, Ready, Sleeping, Waiting
<1>7. TypeOK' /\ Injective'
  BY <1>0, <1>1, <1>3, <1>5 DEF TypeOK, Injective
<1>8. Placed' /\ PointsOK' /\ Residents' /\ RunningOK'
  BY <1>0, <1>1, <1>3, <1>6 DEF Placed, PointsOK, PointOK, Residents, RunningOK
<1>9. LoopOK' /\ WorkConserving' /\ CollectorAwake' /\ TrapStackIsOwn' /\ UserPagesOwned'
  BY <1>0, <1>1, <1>3, <1>6
  DEF LoopOK, WorkConserving, CollectorAwake, TrapStackIsOwn, UserPagesOwned
<1>10. MutexOK'
  <2>1. \A q \in allocProcessTable : at[q] = "lock" => sched.state[q] = BLOCKED
    BY <1>0, <1>1, <1>2 DEF MutexOK
  <2> QED BY <1>1, <1>3, <1>5, <2>1 DEF MutexOK
<1>11. WaitersOK'
  BY <1>0, <1>1, <1>2 DEF WaitersOK
<1> QED BY <1>7, <1>8, <1>9, <1>10, <1>11 DEF SchedInv

\* The last release when processes wait: the first one becomes owner and ready.
LEMMA ReleaseHandOffInv ==
    ASSUME SchedInv, NEW p \in Pids, releaseLock(p), mutex.count = 1, mutex.waitList # <<>>
    PROVE  SchedInv'
<1> DEFINE w    == HeadOf(mutex.waitList)
           rest == HeadRemove(mutex.waitList)
<1>0. /\ TypeOK /\ Injective /\ Placed /\ PointsOK /\ Residents /\ RunningOK
      /\ LoopOK /\ MutexOK /\ WaitersOK
      /\ WorkConserving /\ CollectorAwake /\ TrapStackIsOwn /\ UserPagesOwned
  BY DEF SchedInv
<1>1. /\ mutex' = [mutex EXCEPT !.pid = w, !.count = 1, !.waitList = rest]
      /\ mutex.pid = p /\ Client(p)
      /\ sched' = wakeupProcess(sched, w)
      /\ UNCHANGED <<at, allocProcessTable, pidCountIdx, exitProcessQueue,
                     user, userAccess, waiter, isr, cur>>
  BY DEF releaseLock, KernelClient, handOff
<1>2. /\ isr = FALSE /\ p = Running /\ at[p] = "run" /\ p # NULL /\ p # Idle
  BY <1>1, ClientFacts, PidFacts
<1>3. /\ w \in Waiting /\ rest \in Seq(Pids) /\ IsInjectiveList(rest)
      /\ Elems(rest) = Waiting \ {w}
  <2> DEFINE l == mutex.waitList
  <2>1. l \in Seq(Pids) /\ IsInjectiveList(l) /\ Elems(l) = Waiting
    BY <1>0, TypeFacts DEF Injective, Waiting
  <2>2. l # <<>>
    OBVIOUS
  <2> HIDE DEF l
  <2>3. /\ HeadOf(l) \in Elems(l) /\ HeadRemove(l) \in Seq(Pids)
        /\ IsInjectiveList(HeadRemove(l))
        /\ Elems(HeadRemove(l)) = Elems(l) \ {HeadOf(l)}
    BY <2>1, <2>2, HeadProperties
  <2> QED BY <2>1, <2>3 DEF l
<1> HIDE DEF w, rest
<1>4. /\ w \in Pids /\ w # NULL /\ w \in allocProcessTable /\ w # Idle /\ w # Running
      /\ sched.state[w] = BLOCKED /\ at[w] = "lock"
      /\ w \notin Ready /\ w \notin Sleeping /\ w # Collector
  BY <1>0, <1>3, TypeFacts, RunningFacts, PidFacts, StateFacts DEF Placed, Residents
<1>5. /\ sched' \in SchedType
      /\ sched'.runningProcess = sched.runningProcess
      /\ sched'.rsp0 = sched.rsp0
      /\ sched'.wakeupTick = sched.wakeupTick
      /\ sched'.state = [sched.state EXCEPT ![w] = READY]
      /\ sched'.processList = insertList(sched.processList, w)
      /\ sched'.sleepList = removeList(sched.sleepList, w)
  BY <1>0, <1>1, <1>4, TypeFacts, WakeupEffect DEF Injective
<1>6. removeList(sched.sleepList, w) = sched.sleepList
  BY <1>4 DEF removeList, Sleeping
<1>7. /\ IsInjectiveList(insertList(sched.processList, w))
      /\ Elems(insertList(sched.processList, w)) = Ready \cup {w}
  <2> DEFINE r == sched.processList
  <2>1. r \in Seq(Pids) /\ IsInjectiveList(r) /\ Ready = Elems(r)
    BY <1>0, TypeFacts DEF Injective, Ready
  <2> HIDE DEF r
  <2>2. w \in Pids /\ w \notin Elems(r)
    BY <1>4, <2>1
  <2>3. /\ IsInjectiveList(insertList(r, w))
        /\ Elems(insertList(r, w)) = Elems(r) \cup {w}
    BY <2>1, <2>2, FreshInsert
  <2> QED BY <2>1, <2>3 DEF r
<1>8. /\ mutex' \in [pid : Pids \cup {NULL}, count : Nat, waitList : Seq(Pids)]
      /\ mutex'.pid = w /\ mutex'.count = 1 /\ mutex'.waitList = rest
  <2>1. mutex \in [pid : Pids \cup {NULL}, count : Nat, waitList : Seq(Pids)]
    BY <1>0 DEF TypeOK
  <2>2. 1 \in Nat
    OBVIOUS
  <2>3. mutex'.pid = w /\ mutex'.count = 1 /\ mutex'.waitList = rest
    BY <1>1, <2>1
  <2>4. mutex' \in [pid : Pids \cup {NULL}, count : Nat, waitList : Seq(Pids)]
    BY <1>1, <1>3, <1>4, <2>1, <2>2
  <2> QED BY <2>3, <2>4
<1>9. /\ Running' = Running /\ Ready' = Ready \cup {w} /\ Sleeping' = Sleeping
      /\ Waiting' = Waiting \ {w}
  BY <1>3, <1>5, <1>6, <1>7, <1>8 DEF Running, Ready, Sleeping, Waiting
<1>10. TypeOK'
  BY <1>0, <1>1, <1>5, <1>8 DEF TypeOK
<1>11. Injective'
  BY <1>0, <1>1, <1>3, <1>5, <1>6, <1>7, <1>8 DEF Injective
<1>12. /\ \A q \in Pids : sched'.state[q] = IF q = w THEN READY ELSE sched.state[q]
       /\ allocProcessTable \subseteq Pids
  BY <1>0, <1>4, <1>5, TypeFacts DEF TypeOK
<1>13. Placed'
  BY <1>0, <1>1, <1>4, <1>9, <1>12, StateFacts DEF Placed
<1>14. PointsOK'
  BY <1>0, <1>1, <1>4, <1>9, <1>12, StateFacts DEF PointsOK, PointOK
<1>15. Residents' /\ RunningOK'
  BY <1>0, <1>1, <1>4, <1>9, <1>12, PidFacts, StateFacts, TypeFacts
  DEF Residents, RunningOK
<1>16. LoopOK' /\ UserPagesOwned' /\ WorkConserving' /\ TrapStackIsOwn'
  <2>1. cur = NULL
    BY <1>0, <1>2 DEF LoopOK
  <2> QED BY <1>0, <1>1, <1>2, <1>5, <1>9, <2>1
          DEF LoopOK, UserPagesOwned, WorkConserving, TrapStackIsOwn
<1>17. CollectorAwake'
  BY <1>0, <1>1, <1>12, PidFacts, StateFacts DEF CollectorAwake
<1>18. MutexOK'
  <2>1. \A q \in allocProcessTable : at[q] = "lock" => sched.state[q] = BLOCKED
    BY <1>0, <1>1, <1>2 DEF MutexOK
  <2>2. 1 > 0
    OBVIOUS
  <2>3. \A q \in allocProcessTable :
          at'[q] = "lock" /\ sched'.state[q] # BLOCKED => w = q
    BY <1>1, <1>12, <2>1
  <2> QED BY <1>1, <1>4, <1>8, <1>9, <2>2, <2>3 DEF MutexOK
<1>19. WaitersOK'
  BY <1>0, <1>1, <1>2 DEF WaitersOK
<1> QED BY <1>10, <1>11, <1>13, <1>14, <1>15, <1>16, <1>17, <1>18, <1>19 DEF SchedInv

-----------------------------------------------------------------------------
(* Creation: the search for a slot.                                        *)

\* A set of slots that is not empty has a least one.
LEMMA LeastIsMember ==
    ASSUME NEW S, S \subseteq Nat, S # {}
    PROVE  Least(S) \in S
<1> DEFINE R == OpToRel(<, Nat)
<1>1. IsWellFoundedOn(R, Nat)
  BY NatLessThanWellFounded
<1>2. \E x \in S : \A y \in S : ~(<<y, x>> \in R)
  BY <1>1, WFMin
<1>3. PICK x \in S : \A y \in S : ~(<<y, x>> \in R)
  BY <1>2
<1>4. \A y \in S : x <= y
  <2> SUFFICES ASSUME NEW y \in S PROVE x <= y
    OBVIOUS
  <2>1. x \in Nat /\ y \in Nat
    OBVIOUS
  <2>2. ~(y < x)
    <3> SUFFICES ASSUME y < x PROVE FALSE
      OBVIOUS
    <3>1. <<y, x>> \in R
      BY <2>1 DEF OpToRel
    <3> QED BY <3>1, <1>3
  <2> QED BY <2>1, <2>2
<1> QED BY <1>4 DEF Least

\* The indices the search loop steps through are inside the table, but for the one
\* it starts with.
LEMMA SlotAfterFacts ==
    ASSUME SchedInv, NEW n \in Nat
    PROVE  /\ slotAfter(n) \in 0 .. PROCESS_MAXCOUNT
           /\ n # 0 => slotAfter(n) \in Pids
           /\ slotAfter(n) = PROCESS_MAXCOUNT \/ slotAfter(n) \in Pids
<1>1. pidCountIdx \in 0 .. PROCESS_MAXCOUNT
  BY DEF SchedInv, TypeOK
<1>2. PROCESS_MAXCOUNT \in Nat /\ PROCESS_MAXCOUNT > 0
  BY ProcessAssumption
<1>3. CASE n = 0
  BY <1>1, <1>2, <1>3 DEF slotAfter, Pids
<1>4. CASE n # 0
  <2>1. slotAfter(n) = (pidCountIdx + n) % PROCESS_MAXCOUNT
    BY <1>4 DEF slotAfter
  <2>2. pidCountIdx + n \in Int
    BY <1>1
  <2>3. slotAfter(n) \in 0 .. PROCESS_MAXCOUNT - 1
    BY <1>2, <2>1, <2>2
  <2> QED BY <1>2, <1>4, <2>3 DEF Pids
<1> QED BY <1>3, <1>4

\* The search of createProcess ends at a free slot of the table: an index equal to
\* the table size is tested as slot 0, which is the shell's.
LEMMA SlotIsFree ==
    ASSUME SchedInv, tries # {}
    PROVE  findSlot \in FreeSlots
<1>1. tries \subseteq Nat
  BY ProcessAssumption DEF tries
<1>2. PICK n \in tries : n = Least(tries)
  BY <1>1, LeastIsMember
<1>3. n \in Nat /\ findSlot = slotAfter(n)
  BY <1>1, <1>2 DEF findSlot
<1>4. slotAfter(n) % PROCESS_MAXCOUNT \in FreeSlots
  BY <1>2 DEF tries
<1>5. 0 \notin FreeSlots
  BY DEF SchedInv, Residents, FreeSlots, Shell
<1>6. PROCESS_MAXCOUNT \in Nat /\ PROCESS_MAXCOUNT > 0
  BY ProcessAssumption
<1>7. CASE slotAfter(n) = PROCESS_MAXCOUNT
  <2>1. PROCESS_MAXCOUNT % PROCESS_MAXCOUNT = 0
    BY <1>6
  <2> QED BY <1>4, <1>5, <1>7, <2>1
<1>8. CASE slotAfter(n) \in Pids
  <2>1. slotAfter(n) \in 0 .. PROCESS_MAXCOUNT - 1
    BY <1>8 DEF Pids
  <2>2. slotAfter(n) % PROCESS_MAXCOUNT = slotAfter(n)
    BY <1>6, <2>1
  <2> QED BY <1>3, <1>4, <2>2
<1> QED BY <1>3, <1>7, <1>8, SlotAfterFacts

\* The search of createProcess reaches every slot: when no round of it finds a free
\* one, there is none.
LEMMA SearchIsComplete ==
    ASSUME SchedInv, tries = {}
    PROVE  FreeSlots = {}
<1> SUFFICES ASSUME NEW q \in FreeSlots PROVE FALSE
  OBVIOUS
<1> DEFINE M == PROCESS_MAXCOUNT
<1>1. /\ M \in Nat /\ M > 0 /\ pidCountIdx \in 0 .. M
      /\ q \in 0 .. M - 1
  BY ProcessAssumption DEF SchedInv, TypeOK, FreeSlots, Pids
<1>2. q % M = q
  BY <1>1
<1>3. CASE pidCountIdx <= q
  <2>1. q - pidCountIdx \in 0 .. M
    BY <1>1, <1>3
  <2>2. slotAfter(q - pidCountIdx) = q
    BY <1>1, <1>2, <1>3, <2>1 DEF slotAfter
  <2> QED BY <1>2, <2>1, <2>2 DEF tries
<1>4. CASE pidCountIdx > q
  <2>1. pidCountIdx + (q - pidCountIdx + M) = q + M
    BY <1>1
  <2>2. (q + M) % M = q
    BY <1>1
  <2>3. CASE q - pidCountIdx + M # 0
    <3>1. slotAfter(q - pidCountIdx + M) = q
      BY <2>1, <2>2, <2>3 DEF slotAfter
    <3>2. q - pidCountIdx + M \in 0 .. M
      BY <1>1, <1>4
    <3> QED BY <1>2, <3>1, <3>2 DEF tries
  <2>4. CASE q - pidCountIdx + M = 0
    <3>1. q = 0 /\ pidCountIdx = M
      BY <1>1, <2>4
    <3> QED BY <3>1 DEF SchedInv, Residents, FreeSlots, Shell
  <2> QED BY <2>3, <2>4
<1> QED BY <1>1, <1>3, <1>4

LEMMA CreateInv ==
    ASSUME SchedInv, NEW p \in Pids, NEW ring3 \in Rings, createProcess(p, ring3)
    PROVE  SchedInv'
<1> DEFINE pid == findSlot
<1>0. /\ TypeOK /\ Injective /\ Placed /\ PointsOK /\ Residents /\ RunningOK
      /\ LoopOK /\ MutexOK /\ WaitersOK
      /\ CollectorAwake /\ TrapStackIsOwn /\ UserPagesOwned
  BY DEF SchedInv
<1>1. /\ sched' = makeReady(sched, pid)
      /\ allocProcessTable' = allocProcessTable \cup {pid}
      /\ pidCountIdx' = pid + 1
      /\ at' = [at EXCEPT ![pid] = "run"]
      /\ user' = IF ring3 THEN user \cup {pid} ELSE user \ {pid}
      /\ userAccess' = IF ring3 THEN userAccess \cup {pid, UserCode} ELSE userAccess
      /\ UNCHANGED <<exitProcessQueue, mutex, waiter, isr, cur>>
      /\ Client(p) /\ tries # {}
  BY DEF createProcess, KernelClient
<1>2. isr = FALSE /\ cur = NULL /\ p = Running /\ p # Idle
  BY <1>1, ClientFacts
<1>3. pid \in Pids /\ pid \notin allocProcessTable
  BY <1>1, SlotIsFree DEF FreeSlots
<1> HIDE DEF pid
<1>4. /\ sched' \in SchedType
      /\ sched'.runningProcess = sched.runningProcess
      /\ sched'.processList = insertList(sched.processList, pid)
      /\ sched'.sleepList = sched.sleepList
      /\ sched'.state = [sched.state EXCEPT ![pid] = READY]
      /\ sched'.rsp0 = sched.rsp0
  BY <1>0, <1>1, <1>3, TypeFacts, MakeReadyEffect
<1>5. /\ pid \notin Ready /\ pid \notin Sleeping /\ pid \notin Waiting
      /\ pid \notin Elems(exitProcessQueue) /\ pid \notin userAccess
      /\ pid # Running /\ pid # Idle /\ pid # Shell /\ pid # Collector
      /\ pid # mutex.pid
  BY <1>0, <1>3, PidFacts, RunningFacts, UserCodeIsNoPid
  DEF Placed, UserPagesOwned, Residents, MutexOK
<1>6. /\ IsInjectiveList(insertList(sched.processList, pid))
      /\ Elems(insertList(sched.processList, pid)) = Ready \cup {pid}
  <2> DEFINE r == sched.processList
  <2>1. r \in Seq(Pids) /\ IsInjectiveList(r) /\ Ready = Elems(r)
    BY <1>0, TypeFacts DEF Injective, Ready
  <2> HIDE DEF r
  <2>2. pid \in Pids /\ pid \notin Elems(r)
    BY <1>3, <1>5, <2>1
  <2>3. /\ IsInjectiveList(insertList(r, pid))
        /\ Elems(insertList(r, pid)) = Elems(r) \cup {pid}
    BY <2>1, <2>2, FreshInsert
  <2> QED BY <2>1, <2>3 DEF r
<1>7. /\ Running' = Running /\ Ready' = Ready \cup {pid} /\ Sleeping' = Sleeping
      /\ Waiting' = Waiting
  BY <1>1, <1>4, <1>6 DEF Running, Ready, Sleeping, Waiting
<1>8. /\ allocProcessTable \subseteq Pids
      /\ \A q \in Pids : sched'.state[q] = IF q = pid THEN READY ELSE sched.state[q]
      /\ \A q \in Pids : at'[q] = IF q = pid THEN "run" ELSE at[q]
  BY <1>0, <1>1, <1>3, <1>4, TypeFacts DEF TypeOK
<1>9. TypeOK'
  <2>1. pid + 1 \in 0 .. PROCESS_MAXCOUNT
    BY <1>3, ProcessAssumption DEF Pids
  <2>2. at' \in [Pids -> Points]
    BY <1>0, <1>1, <1>3 DEF TypeOK, Points
  <2>3. /\ allocProcessTable' \subseteq Pids /\ user' \subseteq Pids 
        /\ userAccess' \subseteq Pids \cup {UserCode}
    BY <1>0, <1>1, <1>3 DEF TypeOK
  <2> QED BY <1>0, <1>1, <1>4, <2>1, <2>2, <2>3 DEF TypeOK
<1>10. Injective'
  BY <1>0, <1>1, <1>4, <1>6 DEF Injective
<1>11. Placed'
  BY <1>0, <1>1, <1>3, <1>5, <1>7, <1>8, StateFacts DEF Placed
<1>12. PointsOK'
  BY <1>0, <1>1, <1>3, <1>5, <1>7, <1>8, StateFacts DEF PointsOK, PointOK
<1>13. Residents' /\ RunningOK'
  <2>1. Running \in Pids
    BY <1>0, TypeFacts
  <2> QED BY <1>0, <1>1, <1>5, <1>7, <1>8, <2>1, PidFacts DEF Residents, RunningOK
<1>14. LoopOK' /\ WorkConserving'
  BY <1>1, <1>2, <1>7 DEF LoopOK, WorkConserving
<1>15. TrapStackIsOwn' /\ UserPagesOwned'
  <2>1. TrapStackIsOwn'
    BY <1>0, <1>1, <1>4, <1>5, <1>7 DEF TrapStackIsOwn
  <2>2. pid # UserCode
    BY <1>3, UserCodeIsNoPid
  <2>3. UserPagesOwned'
    BY <1>0, <1>1, <1>3, <1>5, <2>2 DEF UserPagesOwned
  <2> QED BY <2>1, <2>3
<1>16. CollectorAwake'
  BY <1>0, <1>1, <1>5, <1>8, PidFacts DEF CollectorAwake
<1>17. MutexOK'
  BY <1>0, <1>1, <1>3, <1>5, <1>7, <1>8 DEF MutexOK
<1>18. WaitersOK'
  BY <1>0, <1>1, <1>3, <1>5, <1>8 DEF WaitersOK, Devices
<1> QED BY <1>9, <1>10, <1>11, <1>12, <1>13, <1>14, <1>15, <1>16, <1>17, <1>18 DEF SchedInv

\* The search fails: nothing but the program point of the caller changes.
LEMMA CreateErrorInv ==
    ASSUME SchedInv, NEW p \in Pids, createProcessError(p)
    PROVE  SchedInv'
<1>0. /\ TypeOK /\ Injective /\ Placed /\ PointsOK /\ Residents /\ RunningOK
      /\ LoopOK /\ MutexOK /\ WaitersOK
      /\ WorkConserving /\ CollectorAwake /\ TrapStackIsOwn /\ UserPagesOwned
  BY DEF SchedInv
<1>1. /\ at' = [at EXCEPT ![p] = "hang"]
      /\ pidCountIdx' = slotAfter(PROCESS_MAXCOUNT)
      /\ UNCHANGED <<sched, allocProcessTable, exitProcessQueue, mutex,
                     user, userAccess, waiter, isr, cur>>
      /\ Client(p)
  BY DEF createProcessError, KernelClient
<1>2. p = Running /\ at[p] = "run" /\ p # Collector /\ p # Idle
  BY <1>1, ClientFacts
<1>3. /\ Running' = Running /\ Ready' = Ready /\ Sleeping' = Sleeping
      /\ Waiting' = Waiting
  BY <1>1 DEF Running, Ready, Sleeping, Waiting
<1>4. /\ allocProcessTable \subseteq Pids
      /\ \A q \in Pids : at'[q] = IF q = p THEN "hang" ELSE at[q]
  BY <1>0, <1>1 DEF TypeOK
<1>5. TypeOK'
  <2>1. slotAfter(PROCESS_MAXCOUNT) \in 0 .. PROCESS_MAXCOUNT
    BY <1>0, ProcessAssumption DEF TypeOK, slotAfter
  <2>2. at' \in [Pids -> Points]
    BY <1>0, <1>1 DEF TypeOK, Points
  <2> QED BY <1>0, <1>1, <2>1, <2>2 DEF TypeOK
<1>6. Injective'
  BY <1>0, <1>1 DEF Injective
<1>7. sched.state[p] = RUNNING
  BY <1>2, RunningFacts
<1>8. Placed' /\ PointsOK'
  BY <1>0, <1>1, <1>2, <1>3, <1>4, <1>7, StateFacts DEF Placed, PointsOK, PointOK
<1>9. Residents' /\ RunningOK'
  BY <1>0, <1>1, <1>2, <1>3, <1>4, PidFacts DEF Residents, RunningOK
<1>10. LoopOK' /\ WorkConserving' /\ CollectorAwake' /\ TrapStackIsOwn' /\ UserPagesOwned'
  BY <1>0, <1>1, <1>3
  DEF LoopOK, WorkConserving, CollectorAwake, TrapStackIsOwn, UserPagesOwned
<1>11. MutexOK'
  BY <1>0, <1>1, <1>3, <1>4 DEF MutexOK
<1>12. WaitersOK'
  BY <1>0, <1>1, <1>2, <1>4 DEF WaitersOK, Devices
<1> QED BY <1>5, <1>6, <1>8, <1>9, <1>10, <1>11, <1>12 DEF SchedInv

\* A dispatched process leaves the function it was switched away in.
LEMMA ResumeInv ==
    ASSUME SchedInv, NEW p \in Pids, resume(p)
    PROVE  SchedInv'
<1>0. /\ TypeOK /\ Injective /\ Placed /\ PointsOK /\ Residents /\ RunningOK
      /\ LoopOK /\ MutexOK /\ WaitersOK
      /\ WorkConserving /\ CollectorAwake /\ TrapStackIsOwn /\ UserPagesOwned
  BY DEF SchedInv
<1>1. /\ at' = [at EXCEPT ![p] = "run"]
      /\ p = Running /\ at[p] \in {"sleep", "lock", "yield"}
      /\ UNCHANGED <<sched, allocProcessTable, pidCountIdx, exitProcessQueue, mutex,
                     user, userAccess, waiter, isr, cur>>
  BY DEF resume
<1>2. sched.state[p] = RUNNING
  BY <1>1, RunningFacts
<1>3. /\ Running' = Running /\ Ready' = Ready /\ Sleeping' = Sleeping
      /\ Waiting' = Waiting
  BY <1>1 DEF Running, Ready, Sleeping, Waiting
<1>4. /\ allocProcessTable \subseteq Pids
      /\ \A q \in Pids : at'[q] = IF q = p THEN "run" ELSE at[q]
  BY <1>0, <1>1 DEF TypeOK
<1>5. TypeOK'
  <2>1. at' \in [Pids -> Points]
    BY <1>0, <1>1 DEF TypeOK, Points
  <2> QED BY <1>0, <1>1, <2>1 DEF TypeOK
<1>6. Injective'
  BY <1>0, <1>1 DEF Injective
<1>7. Placed' /\ PointsOK'
  BY <1>0, <1>1, <1>2, <1>3, <1>4, StateFacts DEF Placed, PointsOK, PointOK
<1>8. Residents' /\ RunningOK'
  BY <1>0, <1>1, <1>3, <1>4, PidFacts DEF Residents, RunningOK
<1>9. LoopOK' /\ WorkConserving' /\ CollectorAwake' /\ TrapStackIsOwn' /\ UserPagesOwned'
  BY <1>0, <1>1, <1>3
  DEF LoopOK, WorkConserving, CollectorAwake, TrapStackIsOwn, UserPagesOwned
<1>10. MutexOK'
  BY <1>0, <1>1, <1>3, <1>4 DEF MutexOK
<1>11. WaitersOK'
  BY <1>0, <1>1, <1>4 DEF WaitersOK, Devices
<1> QED BY <1>5, <1>6, <1>7, <1>8, <1>9, <1>10, <1>11 DEF SchedInv

-----------------------------------------------------------------------------
(* Exit and reclamation.                                                   *)

\* enQueue on the exit queue adds at most the given pid, and never beyond its
\* capacity.
LEMMA EnQueueFacts ==
    ASSUME SchedInv, NEW p \in Pids, p \notin Elems(exitProcessQueue)
    PROVE  LET q == enQueue(exitProcessQueue, p)
           IN  /\ q \in Seq(Pids) /\ Len(q) < EXIT_QUEUE_COUNT
               /\ IsInjectiveList(q)
               /\ Elems(q) \subseteq Elems(exitProcessQueue) \cup {p}
<1> DEFINE l == exitProcessQueue
<1>1. l \in Seq(Pids) /\ IsInjectiveList(l) /\ Len(l) < EXIT_QUEUE_COUNT
  BY DEF SchedInv, TypeOK, Injective
<1> HIDE DEF l
<1>2. CASE Len(l) = EXIT_QUEUE_COUNT - 1
  BY <1>1, <1>2 DEF enQueue, l
<1>3. CASE Len(l) # EXIT_QUEUE_COUNT - 1
  <2>1. enQueue(l, p) = insertList(l, p)
    BY <1>3 DEF enQueue, insertList
  <2>2. /\ insertList(l, p) \in Seq(Pids) /\ IsInjectiveList(insertList(l, p))
        /\ Elems(insertList(l, p)) = Elems(l) \cup {p}
    BY <1>1, FreshInsert DEF l
  <2>3. Len(insertList(l, p)) = Len(l) + 1 /\ Len(l) \in Nat
    BY <1>1 DEF insertList
  <2>4. Len(insertList(l, p)) < EXIT_QUEUE_COUNT
    BY <1>1, <1>3, <2>3, SchedulerAssumption
  <2> QED BY <2>1, <2>2, <2>4 DEF l
<1> QED BY <1>2, <1>3

\* wakeupProcess(collectorProcess): a collector that blocked joins the ready
\* list, otherwise nothing happens.
LEMMA WakeCollectorFacts ==
    ASSUME SchedInv
    PROVE  LET t == wakeupProcess(sched, Collector)
           IN  /\ t \in SchedType
               /\ t.runningProcess = Running
               /\ t.sleepList = sched.sleepList
               /\ IsInjectiveList(t.processList)
               /\ t.state[Collector] # BLOCKED
               /\ sched.state[Collector] = BLOCKED =>
                    /\ t.state = [sched.state EXCEPT ![Collector] = READY]
                    /\ Elems(t.processList) = Ready \cup {Collector}
               /\ sched.state[Collector] # BLOCKED =>
                    /\ t.state = sched.state
                    /\ Elems(t.processList) = Ready
<1> DEFINE t == wakeupProcess(sched, Collector)
           r == sched.processList
<1>0. TypeOK /\ Injective /\ Placed /\ Residents
  BY DEF SchedInv
<1>1. /\ sched \in SchedType /\ Collector \in Pids /\ Collector # NULL
      /\ IsInjectiveList(sched.sleepList)
      /\ sched.state \in [Pids -> States]
  BY <1>0, TypeFacts, PidFacts DEF Injective
<1>2. r \in Seq(Pids) /\ IsInjectiveList(r) /\ Elems(r) = Ready
  BY <1>0, TypeFacts DEF Injective, Ready
<1>3. CASE sched.state[Collector] # BLOCKED
  <2>1. t = sched
    BY <1>1, <1>3 DEF wakeupProcess
  <2> QED BY <1>1, <1>2, <1>3, <2>1 DEF Running
<1>4. CASE sched.state[Collector] = BLOCKED
  <2>1. /\ t \in SchedType /\ t.runningProcess = sched.runningProcess
        /\ t.state = [sched.state EXCEPT ![Collector] = READY]
        /\ t.processList = insertList(r, Collector)
        /\ t.sleepList = removeList(sched.sleepList, Collector)
    BY <1>1, <1>4, WakeupEffect
  <2>2. Collector \notin Ready /\ Collector \notin Sleeping
    BY <1>0, <1>1, <1>4, StateFacts DEF Placed, Residents
  <2>3. removeList(sched.sleepList, Collector) = sched.sleepList
    BY <2>2 DEF removeList, Sleeping
  <2> HIDE DEF r, t
  <2>4. Collector \notin Elems(r)
    BY <1>2, <2>2
  <2>5. /\ IsInjectiveList(insertList(r, Collector))
        /\ Elems(insertList(r, Collector)) = Elems(r) \cup {Collector}
    BY <1>1, <1>2, <2>4, FreshInsert
  <2>6. t.state[Collector] = READY
    BY <1>1, <2>1
  <2> QED BY <1>2, <1>4, <2>1, <2>3, <2>5, <2>6, StateFacts DEF t, Running
<1> QED BY <1>3, <1>4

\* exitProcess keeps the invariant, also when the exit queue is full.
LEMMA ExitInv ==
    ASSUME SchedInv, NEW p \in Pids, exitProcess(p)
    PROVE  SchedInv'
<1> DEFINE t    == wakeupProcess(sched, Collector)
           s1   == [t EXCEPT !.state[p] = EXITED]
           next == headOrIdle(s1)
           rest == HeadRemove(t.processList)
<1>0. /\ TypeOK /\ Injective /\ Placed /\ PointsOK /\ Residents /\ RunningOK
      /\ MutexOK /\ WaitersOK /\ CollectorAwake /\ TrapStackIsOwn /\ UserPagesOwned
  BY DEF SchedInv
<1>1. /\ sched' = scheduleBlocked(s1) /\ at' = [at EXCEPT ![p] = "dead"]
      /\ exitProcessQueue' = enQueue(exitProcessQueue, p)
      /\ UNCHANGED <<allocProcessTable, pidCountIdx, mutex, user, userAccess, waiter, isr, cur>>
      /\ Client(p) /\ p # Shell /\ mutex.pid # p
  BY DEF exitProcess
<1>2. /\ isr = FALSE /\ cur = NULL /\ p = Running /\ at[p] = "run"
      /\ p # Collector /\ p # Idle
  BY <1>1, ClientFacts
<1>3. /\ p \in allocProcessTable /\ sched.state[p] = RUNNING
      /\ p \notin Ready /\ p \notin Sleeping /\ p \notin Waiting
      /\ p \notin Elems(exitProcessQueue) /\ Idle \notin Ready
  BY <1>2, RunningFacts
<1>4. /\ t \in SchedType /\ t.sleepList = sched.sleepList
      /\ IsInjectiveList(t.processList) /\ t.state[Collector] # BLOCKED
      /\ sched.state[Collector] = BLOCKED =>
           /\ t.state = [sched.state EXCEPT ![Collector] = READY]
           /\ Elems(t.processList) = Ready \cup {Collector}
      /\ sched.state[Collector] # BLOCKED =>
           /\ t.state = sched.state
           /\ Elems(t.processList) = Ready
  BY WakeCollectorFacts
<1> HIDE DEF t
<1>5. /\ s1 \in SchedType /\ s1.processList = t.processList
      /\ s1.sleepList = sched.sleepList
      /\ s1.state = [t.state EXCEPT ![p] = EXITED]
  <2>1. t \in SchedType /\ t.sleepList = sched.sleepList
    BY <1>4
  <2> QED BY <2>1, StateFacts DEF SchedType
<1>6. t.processList \in Seq(Pids) /\ t.state \in [Pids -> States]
      /\ sched.state \in [Pids -> States]
  BY <1>0, <1>4, SchedFields, TypeFacts
<1> HIDE DEF s1
<1>7. /\ sched' \in SchedType /\ next \in Pids
      /\ sched'.runningProcess = next /\ sched'.rsp0 = next
      /\ sched'.state = [s1.state EXCEPT ![next] = RUNNING]
      /\ sched'.processList = HeadRemove(s1.processList)
      /\ sched'.sleepList = s1.sleepList
  <2>1. IsInjectiveList(s1.processList)
    BY <1>4, <1>5
  <2> QED BY <1>1, <1>5, <2>1, ScheduleBlockedEffect
<1>8. /\ IsInjectiveList(rest) /\ Elems(rest) = Elems(t.processList) \ {next}
      /\ next \in Elems(t.processList) \/ next = Idle
      /\ next = Idle => rest = <<>>
  <2> DEFINE l == t.processList
  <2>1. l \in Seq(Pids) /\ IsInjectiveList(l)
    BY <1>4, <1>6
  <2>2. Idle \notin Elems(l)
    BY <1>3, <1>4 DEF Collector, Idle
  <2>3. next = IF l = <<>> THEN Idle ELSE HeadOf(l)
    BY <1>5 DEF headOrIdle
  <2> HIDE DEF l, next
  <2>4. /\ IsInjectiveList(HeadRemove(l))
        /\ Elems(HeadRemove(l)) = Elems(l) \ {HeadOf(l)}
        /\ l # <<>> => HeadOf(l) \in Elems(l)
        /\ l = <<>> => HeadRemove(l) = <<>>
    BY <2>1, HeadProperties
  <2>5. l = <<>> => Elems(l) = {}
    BY EmptyProperties
  <2> QED BY <2>2, <2>3, <2>4, <2>5 DEF l
<1> HIDE DEF next, rest
<1>9. sched'.processList = rest /\ sched'.sleepList = sched.sleepList
  BY <1>5, <1>7 DEF rest
<1>10. \A q \in Pids : t.state[q] =
          IF q = Collector /\ sched.state[q] = BLOCKED THEN READY ELSE sched.state[q]
  BY <1>4, <1>6, PidFacts
<1>11. next # p
  BY <1>2, <1>3, <1>4, <1>8
<1>12. \A q \in Pids : sched'.state[q] =
          IF q = next THEN RUNNING ELSE IF q = p THEN EXITED ELSE t.state[q]
  BY <1>5, <1>6, <1>7, <1>11
<1>13. /\ next \in allocProcessTable /\ t.state[next] \in {READY, RUNNING}
       /\ next \in Ready \/ next = Idle \/ (next = Collector /\ sched.state[next] = BLOCKED)
       /\ at[next] # "dead" /\ next \notin Sleeping /\ next \notin Waiting
  <2>1. CASE next \in Ready
    BY <1>0, <1>7, <1>10, <2>1, StateFacts DEF Placed, PointsOK, PointOK
  <2>2. CASE next = Idle
    BY <1>0, <1>10, <2>2, PidFacts, StateFacts DEF Residents, Placed, Collector, Idle
  <2>3. CASE next = Collector /\ sched.state[next] = BLOCKED
    BY <1>0, <1>10, <2>3, PidFacts DEF Residents, Placed
  <2> QED BY <1>4, <1>8, <2>1, <2>2, <2>3
<1>14. /\ Sleeping' = Sleeping /\ Waiting' = Waiting /\ Running' = next
       /\ Ready' = Elems(t.processList) \ {next}
  BY <1>1, <1>7, <1>8, <1>9 DEF Ready, Sleeping, Waiting, Running
<1>15. /\ at \in [Pids -> Points] /\ allocProcessTable \subseteq Pids
       /\ \A q \in Pids : at'[q] = IF q = p THEN "dead" ELSE at[q]
  BY <1>0, <1>1 DEF TypeOK
<1>16. /\ exitProcessQueue' \in Seq(Pids) /\ Len(exitProcessQueue') < EXIT_QUEUE_COUNT
       /\ IsInjectiveList(exitProcessQueue')
       /\ Elems(exitProcessQueue') \subseteq Elems(exitProcessQueue) \cup {p}
  BY <1>1, <1>3, EnQueueFacts
<1>17. TypeOK'
  <2>1. at' \in [Pids -> Points]
    BY <1>1, <1>15 DEF Points
  <2> QED BY <1>0, <1>1, <1>7, <1>16, <2>1 DEF TypeOK
<1>18. Injective'
  BY <1>0, <1>1, <1>8, <1>9, <1>16 DEF Injective
<1>19. Placed'
  <2> SUFFICES ASSUME NEW q \in Pids
        PROVE  /\ q \in Ready' <=>
                     q \in allocProcessTable /\ q # Idle /\ sched'.state[q] = READY
               /\ q \in Sleeping' <=> q \in allocProcessTable /\
                     sched'.state[q] = BLOCKED /\ at'[q] \in {"sleep", "disk"}
               /\ q \in Waiting' <=> q \in allocProcessTable /\
                     sched'.state[q] = BLOCKED /\ at'[q] = "lock"
               /\ q \in Elems(exitProcessQueue') =>
                     q \in allocProcessTable /\ sched'.state[q] = EXITED
    BY <1>1 DEF Placed
  <2>1. /\ q \in Ready <=>
              q \in allocProcessTable /\ q # Idle /\ sched.state[q] = READY
        /\ q \in Sleeping <=> q \in allocProcessTable /\
              sched.state[q] = BLOCKED /\ at[q] \in {"sleep", "disk"}
        /\ q \in Waiting <=> q \in allocProcessTable /\
              sched.state[q] = BLOCKED /\ at[q] = "lock"
        /\ q \in Elems(exitProcessQueue) =>
              q \in allocProcessTable /\ sched.state[q] = EXITED
    BY <1>0 DEF Placed
  <2>2. /\ Collector \in allocProcessTable /\ at[Collector] \in {"run", "gc"}
        /\ Collector # Idle
    BY <1>0 DEF Residents, Collector, Idle
  <2>3. q \in Ready' <=> q \in allocProcessTable /\ q # Idle /\ sched'.state[q] = READY
    BY <1>2, <1>3, <1>4, <1>10, <1>12, <1>14, <2>1, <2>2, StateFacts
  <2>4. /\ q \in Sleeping' <=> q \in allocProcessTable /\
              sched'.state[q] = BLOCKED /\ at'[q] \in {"sleep", "disk"}
        /\ q \in Waiting' <=> q \in allocProcessTable /\
              sched'.state[q] = BLOCKED /\ at'[q] = "lock"
    BY <1>3, <1>10, <1>12, <1>13, <1>14, <1>15, <2>1, <2>2, StateFacts
  <2>5. q \in Elems(exitProcessQueue') => q \in allocProcessTable /\ sched'.state[q] = EXITED
    BY <1>3, <1>10, <1>11, <1>12, <1>13, <1>16, <2>1, StateFacts
  <2> QED BY <2>3, <2>4, <2>5
<1>20. PointsOK'
  <2>1. Collector \in Pids /\ at[Collector] \in {"run", "gc"}
    BY <1>0, PidFacts DEF Residents
  <2> QED BY <1>0, <1>1, <1>2, <1>3, <1>10, <1>11, <1>12, <1>13, <1>14, <1>15, <2>1,
             StateFacts DEF PointsOK, PointOK
<1>21. Residents' /\ RunningOK'
  BY <1>0, <1>1, <1>2, <1>7, <1>10, <1>12, <1>13, <1>14, <1>15, PidFacts, StateFacts
  DEF Residents, RunningOK, Collector, Idle
<1>22. LoopOK' /\ UserPagesOwned'
  BY <1>0, <1>1, <1>2 DEF LoopOK, UserPagesOwned
<1>23. WorkConserving' /\ TrapStackIsOwn'
  BY <1>7, <1>8, <1>9, <1>14 DEF WorkConserving, TrapStackIsOwn
<1>24. CollectorAwake'
  BY <1>2, <1>4, <1>12, PidFacts, StateFacts DEF CollectorAwake
<1>25. MutexOK'
  <2>1. Collector \in Pids /\ at[Collector] # "lock"
    BY <1>0, PidFacts DEF Residents
  <2> QED BY <1>0, <1>1, <1>3, <1>10, <1>12, <1>13, <1>14, <1>15, <2>1, StateFacts
          DEF MutexOK
<1>26. WaitersOK'
  BY <1>0, <1>1, <1>2, <1>15 DEF WaitersOK, Devices
<1> QED BY <1>17, <1>18, <1>19, <1>20, <1>21, <1>22, <1>23, <1>24, <1>25, <1>26 DEF SchedInv

\* The collector gives back the slot at the head of the exit queue: it belongs to
\* an exited process, which is on no list, does not run and owns no mutex.
LEMMA CollectorReclaimsInv ==
    ASSUME SchedInv, collectorReclaims
    PROVE  SchedInv'
<1> DEFINE h == Head(exitProcessQueue)
<1>0. /\ TypeOK /\ Injective /\ Placed /\ PointsOK /\ Residents /\ RunningOK
      /\ LoopOK /\ MutexOK /\ WaitersOK
      /\ WorkConserving /\ CollectorAwake /\ TrapStackIsOwn /\ UserPagesOwned
  BY DEF SchedInv
<1>1. /\ exitProcessQueue # <<>> /\ exitProcessQueue' = Tail(exitProcessQueue)
      /\ allocProcessTable' = allocProcessTable \ {h}
      /\ userAccess' = userAccess \ {h}
      /\ at' = [at EXCEPT ![Collector] = "run"]
      /\ UNCHANGED <<sched, pidCountIdx, mutex, user, waiter, isr, cur>>
      /\ Running = Collector
  BY DEF collectorReclaims, collectorTurn
<1>2. /\ Running' = Running /\ Ready' = Ready /\ Sleeping' = Sleeping
      /\ Waiting' = Waiting
  BY <1>1 DEF Running, Ready, Sleeping, Waiting
<1>3. /\ exitProcessQueue' \in Seq(Pids) /\ Len(exitProcessQueue') < EXIT_QUEUE_COUNT
      /\ IsInjectiveList(exitProcessQueue')
      /\ Elems(exitProcessQueue') = Elems(exitProcessQueue) \ {h}
      /\ h \in Elems(exitProcessQueue) /\ h \in Pids
  <2>1. exitProcessQueue \in Seq(Pids) /\ IsInjectiveList(exitProcessQueue)
    BY <1>0 DEF TypeOK, Injective
  <2>2. exitProcessQueue' = HeadRemove(exitProcessQueue)
    BY <1>1, <2>1, HeadRemoveIsTail
  <2>3. Len(exitProcessQueue') = Len(exitProcessQueue) - 1
    BY <1>1, <2>1
  <2>4. Len(exitProcessQueue') < EXIT_QUEUE_COUNT
    BY <1>0, <2>1, <2>3, SchedulerAssumption DEF TypeOK
  <2>5. HeadOf(exitProcessQueue) = h
    BY <1>1 DEF HeadOf
  <2> HIDE DEF h
  <2>6. /\ HeadRemove(exitProcessQueue) \in Seq(Pids)
        /\ IsInjectiveList(HeadRemove(exitProcessQueue))
        /\ Elems(HeadRemove(exitProcessQueue)) = Elems(exitProcessQueue) \ {h}
        /\ h \in Elems(exitProcessQueue) /\ h \in Pids
    BY <1>1, <2>1, <2>5, HeadProperties
  <2> QED BY <2>2, <2>4, <2>6
<1> HIDE DEF h
<1>4. h \in allocProcessTable /\ sched.state[h] = EXITED /\ at[h] = "dead"
  BY <1>0, <1>3 DEF Placed, PointsOK, PointOK
<1>5. /\ h \notin Ready /\ h \notin Sleeping /\ h \notin Waiting
      /\ h # Running /\ h # mutex.pid /\ h # Shell /\ h # Collector /\ h # Idle
  BY <1>0, <1>1, <1>3, <1>4, StateFacts, PidFacts
  DEF Placed, RunningOK, Residents, MutexOK, NULL
<1>6. /\ allocProcessTable \subseteq Pids /\ Collector \in Pids
      /\ at[Collector] \in {"run", "gc"}
      /\ \A q \in Pids : at'[q] = IF q = Collector THEN "run" ELSE at[q]
  BY <1>0, <1>1, PidFacts DEF TypeOK, Residents
<1>7. sched.state[Collector] = RUNNING
  BY <1>1, RunningFacts
<1>8. TypeOK'
  <2>1. at' \in [Pids -> Points]
    BY <1>0, <1>1 DEF TypeOK, Points
  <2> QED BY <1>0, <1>1, <1>3, <2>1 DEF TypeOK
<1>9. Injective'
  BY <1>0, <1>1, <1>3 DEF Injective
<1>10. Placed' /\ PointsOK'
  BY <1>0, <1>1, <1>2, <1>3, <1>5, <1>6, <1>7, StateFacts DEF Placed, PointsOK, PointOK
<1>11. Residents' /\ RunningOK'
  BY <1>0, <1>1, <1>2, <1>5, <1>6, PidFacts DEF Residents, RunningOK, Shell, Collector, Idle
<1>12. LoopOK' /\ WorkConserving' /\ TrapStackIsOwn' /\ UserPagesOwned'
  <2>1. LoopOK' /\ WorkConserving' /\ TrapStackIsOwn'
    BY <1>0, <1>1, <1>2, <1>5 DEF LoopOK, WorkConserving, TrapStackIsOwn
  <2>2. h # UserCode
    BY <1>3, UserCodeIsNoPid
  <2>3. UserPagesOwned'
    BY <1>0, <1>1, <2>2 DEF UserPagesOwned
  <2> QED BY <2>1, <2>3
<1>13. CollectorAwake'
  BY <1>1, <1>7, StateFacts DEF CollectorAwake
<1>14. MutexOK'
  BY <1>0, <1>1, <1>2, <1>5, <1>6 DEF MutexOK
<1>15. WaitersOK'
  BY <1>0, <1>1, <1>3, <1>4, <1>5, <1>6 DEF WaitersOK, Devices
<1> QED BY <1>8, <1>9, <1>10, <1>11, <1>12, <1>13, <1>14, <1>15 DEF SchedInv

-----------------------------------------------------------------------------
(* The inductive invariant and what follows from it.                       *)

\* Every step of the kernel keeps the invariant.
LEMMA StepInv == ASSUME SchedInv, [Next]_vars PROVE SchedInv'
<1>1. CASE TimerInterrupt
  BY <1>1, TimerInterruptInv
<1>2. CASE WakeExpired /\ sched.wakeupTick[cur] = 0
  BY <1>2, WakeExpiredInv
<1>3. CASE WakeExpired /\ sched.wakeupTick[cur] # 0
  BY <1>3, WakePassInv
<1>4. CASE TimeoutSchedule
  BY <1>4, TimeoutScheduleInv
<1>5. ASSUME NEW p \in Pids, ProcessStep(p) PROVE SchedInv'
  <2>1. ASSUME NEW ms \in Millis, sleepProcess(p, ms) PROVE SchedInv'
    BY <2>1, SleepInv
  <2>2. CASE yield(p)
    BY <2>2, YieldInv
  <2>3. CASE acquireLock(p)
    <3>1. CASE acquireFree(p) \/ acquireAgain(p)
      BY <2>3, <3>1, AcquireNowInv
    <3>2. CASE acquireWait(p)
      BY <2>3, <3>2, AcquireWaitInv
    <3> QED BY <2>3, <3>1, <3>2 DEF acquireLock
  <2>4. CASE releaseLock(p)
    <3>1. CASE mutex.count # 1
      BY <2>4, <3>1, ReleaseInnerInv
    <3>2. CASE mutex.count = 1 /\ mutex.waitList = <<>>
      BY <2>4, <3>2, ReleaseFreeInv
    <3>3. CASE mutex.count = 1 /\ mutex.waitList # <<>>
      BY <2>4, <3>3, ReleaseHandOffInv
    <3> QED BY <3>1, <3>2, <3>3
  <2>5. ASSUME NEW ring3 \in Rings, createProcess(p, ring3) PROVE SchedInv'
    BY <2>5, CreateInv
  <2>6. CASE createProcessError(p)
    BY <2>6, CreateErrorInv
  <2>7. CASE exitProcess(p)
    BY <2>7, ExitInv
  <2>8. CASE resume(p)
    BY <2>8, ResumeInv
  <2>9. CASE waitInterrupt(p)
    BY <2>9, WaitInterruptInv
  <2>10. CASE getKey(p)
    BY <2>10, GetKeyInv
  <2>11. CASE waitEnds(p)
    BY <2>11, WaitEndsInv
  <2>12. CASE waitAgain(p)
    BY <2>12, WaitAgainInv
  <2> QED BY <1>5, <2>1, <2>2, <2>3, <2>4, <2>5, <2>6, <2>7, <2>8, <2>9, <2>10, <2>11,
             <2>12 DEF ProcessStep
<1>6. CASE collectorBlocks
  BY <1>6, CollectorBlocksInv
<1>7. CASE collectorReclaims
  BY <1>7, CollectorReclaimsInv
<1>8. CASE hang
  BY <1>8, StutterInv DEF hang
<1>9. CASE UNCHANGED vars
  BY <1>9, StutterInv
<1>10. CASE Device
  BY <1>10, DeviceInterruptInv DEF Device
<1> QED BY <1>1, <1>2, <1>3, <1>4, <1>5, <1>6, <1>7, <1>8, <1>9, <1>10
        DEF Next, Timer, CollectorStep

\* SchedInv holds in every reachable state of the scheduler, for every size of the
\* process table and of the exit queue: lists, states and program points agree.
THEOREM SchedulerInvariant == Spec => []SchedInv
<1>1. SchedInv /\ [Next]_vars => SchedInv'
  BY StepInv
<1> QED BY InitInv, <1>1, PTL DEF Spec

\* Type correctness, from the invariant.
THEOREM TypeCorrect == Spec => []TypeOK
<1>1. SchedInv => TypeOK
  BY DEF SchedInv
<1> QED BY SchedulerInvariant, <1>1, PTL

\* A PCB is linked on at most one list, once, and never while it runs.
THEOREM OneHomeAlways == Spec => []OneHome
<1>1. ASSUME SchedInv PROVE OneHome
  <2>1. TypeOK /\ Injective /\ Placed
    BY <1>1 DEF SchedInv
  <2>2. Ready \subseteq Pids /\ Sleeping \subseteq Pids /\ Waiting \subseteq Pids
    BY <2>1, TypeFacts
  <2>3. Ready \cap Sleeping = {} /\ Ready \cap Waiting = {} /\ Sleeping \cap Waiting = {}
    BY <2>1, <2>2, StateFacts DEF Placed
  <2>4. {Running, Idle} \cap (Ready \cup Sleeping \cup Waiting) = {}
    BY <1>1, RunningFacts
  <2> QED BY <2>1, <2>3, <2>4 DEF OneHome, Injective
<1> QED BY SchedulerInvariant, <1>1, PTL

\* Every process of the table runs, or is where it will be found again.
THEOREM NoProcessLostEver == Spec => []NoProcessLost
<1>1. ASSUME SchedInv PROVE NoProcessLost
  <2>1. TypeOK /\ Placed /\ PointsOK /\ WaitersOK
    BY <1>1 DEF SchedInv
  <2>2. allocProcessTable \subseteq Pids /\ sched.state \in [Pids -> States]
    BY <2>1, TypeFacts DEF TypeOK
  <2> SUFFICES ASSUME NEW p \in allocProcessTable, p # Running, p # Idle
      PROVE  \/ sched.state[p] = READY /\ p \in Ready
             \/ sched.state[p] = BLOCKED /\ at[p] = "sleep" /\ p \in Sleeping
             \/ sched.state[p] = BLOCKED /\ at[p] = "lock" /\ p \in Waiting
             \/ sched.state[p] = BLOCKED /\ at[p] = "disk" /\ p \in Sleeping
                                         /\ waiter["disk"] = p
             \/ sched.state[p] = BLOCKED /\ at[p] = "key" /\ waiter["key"] = p
             \/ sched.state[p] = BLOCKED /\ at[p] = "gc" /\ p = Collector
             \/ sched.state[p] = EXITED /\ at[p] = "dead"
    BY DEF NoProcessLost
  <2>3. p \in Pids /\ sched.state[p] \in States /\ PointOK(p)
    BY <2>1, <2>2 DEF PointsOK
  <2>4. \A d \in Devices : at[p] = d => waiter[d] = p
    BY <2>1, <2>3 DEF WaitersOK
  <2> QED BY <2>1, <2>3, <2>4 DEF Placed, PointOK, States, Devices
<1> QED BY SchedulerInvariant, <1>1, PTL

\* No list links a PCB whose slot was given back.
THEOREM ListsHoldLiveAlways == Spec => []ListsHoldLiveProcesses
<1>1. ASSUME SchedInv PROVE ListsHoldLiveProcesses
  <2>1. TypeOK /\ Placed /\ RunningOK
    BY <1>1 DEF SchedInv
  <2>2. Ready \subseteq Pids /\ Sleeping \subseteq Pids /\ Waiting \subseteq Pids
    BY <2>1, TypeFacts
  <2> QED BY <2>1, <2>2 DEF Placed, RunningOK, ListsHoldLiveProcesses
<1> QED BY SchedulerInvariant, <1>1, PTL

\* The idle process never runs beside ready work, the collector never sleeps on a
\* filled exit queue, a trap enters the running process's own kernel stack, and
\* open user pages belong to live ring 3 processes.
THEOREM SchedulerSafety ==
    Spec => [](WorkConserving /\ CollectorAwake /\ TrapStackIsOwn /\ UserPagesOwned)
<1>1. SchedInv => WorkConserving /\ CollectorAwake /\ TrapStackIsOwn /\ UserPagesOwned
  BY DEF SchedInv
<1> QED BY SchedulerInvariant, <1>1, PTL

\* No expired sleeper is left behind when the loop of wakeExpiredProcess ends.
THEOREM AllExpiredWokenAlways == Spec => []AllExpiredWoken
<1>1. SchedInv => AllExpiredWoken
  BY DEF SchedInv, LoopOK, AllExpiredWoken
<1> QED BY SchedulerInvariant, <1>1, PTL

\* acquireLock returns as the owner, and the owner is alive.
THEOREM LockHandedOverAlways == Spec => []LockHandedOver
<1>1. ASSUME SchedInv PROVE LockHandedOver
  <2>1. MutexOK /\ RunningOK /\ PointsOK
    BY <1>1 DEF SchedInv
  <2> QED BY <2>1, StateFacts DEF MutexOK, RunningOK, PointsOK, PointOK, LockHandedOver
<1> QED BY SchedulerInvariant, <1>1, PTL

\* When a round of the search of createProcess finds a free slot, the index it stops
\* with is that slot and not the table size, which is tested as slot 0.
THEOREM SlotInTableAlways == Spec => []SlotInTable
<1>1. ASSUME SchedInv PROVE SlotInTable
  BY <1>1, SlotIsFree DEF SlotInTable
<1> QED BY SchedulerInvariant, <1>1, PTL

-----------------------------------------------------------------------------
(* What no step may do.                                                    *)

\* While processes wait, the mutex passes to the first of them only.
THEOREM NoBargingEver == Spec => NoBarging
<1> DEFINE A == mutex.waitList # <<>> /\ mutex'.pid # mutex.pid =>
                  /\ mutex'.pid = Head(mutex.waitList)
                  /\ mutex'.waitList = Tail(mutex.waitList)
<1>1. ASSUME SchedInv, Next PROVE A
  <2>1. MutexOK /\ TypeOK /\ Injective
    BY <1>1 DEF SchedInv
  <2>2. mutex \in [pid : Pids \cup {NULL}, count : Nat, waitList : Seq(Pids)]
    BY <2>1 DEF TypeOK
  <2>3. CASE UNCHANGED mutex
    BY <2>3
  <2>4. ASSUME NEW p \in Pids, acquireLock(p) PROVE A
    <3>1. CASE acquireFree(p)
      BY <2>1, <3>1 DEF MutexOK, acquireFree
    <3>2. CASE acquireAgain(p) \/ acquireWait(p)
      <4>1. mutex'.pid = mutex.pid
        BY <2>2, <3>2 DEF acquireAgain, acquireWait
      <4> QED BY <4>1
    <3> QED BY <2>4, <3>1, <3>2 DEF acquireLock
  <2>5. ASSUME NEW p \in Pids, releaseLock(p) PROVE A
    <3>1. CASE mutex.count = 1 /\ mutex.waitList # <<>>
      <4>1. mutex' = [mutex EXCEPT !.pid = HeadOf(mutex.waitList), !.count = 1,
                                   !.waitList = HeadRemove(mutex.waitList)]
        BY <2>5, <3>1 DEF releaseLock, handOff
      <4>2. /\ mutex'.pid = HeadOf(mutex.waitList)
            /\ mutex'.waitList = HeadRemove(mutex.waitList)
        BY <2>2, <4>1
      <4>3. mutex.waitList \in Seq(Pids) /\ IsInjectiveList(mutex.waitList)
        BY <2>1, <2>2 DEF Injective
      <4>4. HeadRemove(mutex.waitList) = Tail(mutex.waitList)
        BY <3>1, <4>3, HeadRemoveIsTail
      <4> QED BY <3>1, <4>2, <4>4 DEF HeadOf
    <3>2. CASE mutex.count # 1
      <4>1. mutex' = [mutex EXCEPT !.count = @ - 1]
        BY <2>5, <3>2 DEF releaseLock
      <4> QED BY <2>2, <4>1
    <3> QED BY <3>1, <3>2
  <2> QED BY <1>1, <2>3, <2>4, <2>5
          DEF Next, Timer, ProcessStep, CollectorStep, TimerInterrupt, WakeExpired,
              TimeoutSchedule, sleepProcess, yield, createProcess, createProcessError,
              exitProcess, resume, collectorBlocks, collectorReclaims, hang, vars,
              Device, deviceInterrupt, waitInterrupt, getKey, waitEnds, waitAgain
<1>2. SchedInv /\ [Next]_vars => [A]_vars
  BY <1>1
<1> QED BY SchedulerInvariant, <1>2, PTL DEF Spec, NoBarging

\* A slot gets a new process only when nothing refers to the old one, and only
\* the slot of an exited process is given back.
THEOREM SlotLifeCycleKept == Spec => SlotLifeCycle
<1> DEFINE A == /\ \A p \in allocProcessTable' \ allocProcessTable :
                      p \notin Ready \cup Sleeping \cup Waiting \cup {Running, mutex.pid}
                                  \cup Elems(exitProcessQueue)
                                  \cup {waiter[d] : d \in Devices}
                /\ \A p \in allocProcessTable \ allocProcessTable' :
                      sched.state[p] = EXITED
<1>1. ASSUME SchedInv, Next PROVE A
  <2>1. TypeOK /\ Injective /\ Placed /\ RunningOK /\ MutexOK /\ WaitersOK
    BY <1>1 DEF SchedInv
  <2>2. CASE UNCHANGED allocProcessTable
    BY <2>2
  <2>3. ASSUME NEW p \in Pids, NEW ring3 \in Rings, createProcess(p, ring3) PROVE A
    <3>1. findSlot \in FreeSlots /\ allocProcessTable' = allocProcessTable \cup {findSlot}
      BY <1>1, <2>3, SlotIsFree DEF createProcess
    <3>2. findSlot \in Pids /\ findSlot \notin allocProcessTable
      BY <3>1 DEF FreeSlots
    <3>3. findSlot # mutex.pid
      BY <2>1, <3>2, PidFacts DEF MutexOK
    <3>4. findSlot \notin {waiter[d] : d \in Devices}
      BY <2>1, <3>2 DEF WaitersOK
    <3> QED BY <2>1, <3>1, <3>2, <3>3, <3>4 DEF Placed, RunningOK
  <2>4. CASE collectorReclaims
    <3>1. allocProcessTable' = allocProcessTable \ {Head(exitProcessQueue)}
      BY <2>4 DEF collectorReclaims
    <3>2. Head(exitProcessQueue) \in Elems(exitProcessQueue)
      <4>1. /\ exitProcessQueue # <<>> /\ exitProcessQueue \in Seq(Pids)
            /\ IsInjectiveList(exitProcessQueue)
        BY <2>1, <2>4 DEF collectorReclaims, TypeOK, Injective
      <4> QED BY <4>1, HeadProperties
    <3>3. Elems(exitProcessQueue) \subseteq Pids
      BY <2>1, TypeFacts
    <3> QED BY <2>1, <3>1, <3>2, <3>3 DEF Placed
  <2> QED BY <1>1, <2>2, <2>3, <2>4
          DEF Next, Timer, ProcessStep, CollectorStep, TimerInterrupt, WakeExpired,
              TimeoutSchedule, sleepProcess, yield, acquireLock, releaseLock,
              createProcessError, exitProcess, resume, collectorBlocks, hang, vars,
              Device, deviceInterrupt, waitInterrupt, getKey, waitEnds, waitAgain
<1>2. SchedInv /\ [Next]_vars => [A]_vars
  BY <1>1
<1> QED BY SchedulerInvariant, <1>2, PTL DEF Spec, SlotLifeCycle

\* Waking a process that is not on the sleep list leaves that list as it is.
LEMMA WakeupKeepsSleepers ==
    ASSUME SchedInv, NEW pcb \in Pids \cup {NULL}, pcb \notin Sleeping
    PROVE  wakeupProcess(sched, pcb).sleepList = sched.sleepList
<1>1. removeList(sched.sleepList, pcb) = sched.sleepList
  BY DEF removeList, Sleeping
<1>2. sched \in SchedType /\ IsInjectiveList(sched.sleepList)
  BY TypeFacts DEF SchedInv, Injective
<1> QED BY <1>1, <1>2, WakeupEffect

\* A process leaves the sleep list in the timer interrupt when its time has come, or
\* in the disk interrupt when it is the process registered with the disk; it is put
\* behind everything that is ready or, when only idle runs, runs at once.
THEOREM WokenInTurnAlways == Spec => WokenInTurn
<1> DEFINE A == \A p \in Sleeping \ Sleeping' :
                  /\ \/ isr /\ sched.wakeupTick[p] = 0
                     \/ ~isr /\ at[p] = "disk" /\ waiter["disk"] = p
                  /\ IF ~isr /\ Running = Idle
                     THEN sched.processList = <<>> /\ Running' = p
                     ELSE sched'.processList = Append(sched.processList, p)
<1>1. ASSUME SchedInv, Next PROVE A
  <2>1. TypeOK /\ Injective /\ Placed /\ LoopOK /\ Residents
    BY <1>1 DEF SchedInv
  <2>2. /\ sched \in SchedType /\ IsInjectiveList(sched.processList)
        /\ IsInjectiveList(sched.sleepList) /\ sched.sleepList \in Seq(Pids)
        /\ Running \in Pids /\ mutex.waitList \in Seq(Pids)
        /\ IsInjectiveList(mutex.waitList)
    BY <2>1, TypeFacts DEF Injective
  <2>3. ASSUME sched'.sleepList = sched.sleepList PROVE A
    BY <2>3 DEF Sleeping
  <2>4. CASE TimerInterrupt
    BY <2>2, <2>3, <2>4, TickEffect DEF TimerInterrupt
  <2>5. CASE WakeExpired
    <3>1. isr /\ cur \in Pids /\ sched' = wakeIfExpired(sched, cur)
      BY <2>1, <2>5 DEF WakeExpired, TypeOK
    <3>2. CASE sched.wakeupTick[cur] # 0
      BY <2>3, <3>1, <3>2 DEF wakeIfExpired
    <3>3. CASE sched.wakeupTick[cur] = 0 /\ sched.state[cur] # BLOCKED
      <4>1. wakeupProcess(sched, cur) = sched
        BY <2>2, <3>1, <3>3, PidFacts, WakeupEffect
      <4> QED BY <2>3, <3>1, <3>3, <4>1 DEF wakeIfExpired
    <3>4. CASE sched.wakeupTick[cur] = 0 /\ sched.state[cur] = BLOCKED
      <4>1. /\ sched'.sleepList = removeList(sched.sleepList, cur)
            /\ sched'.processList = insertList(sched.processList, cur)
        BY <2>2, <3>1, <3>4, PidFacts, WakeupEffect DEF wakeIfExpired
      <4>2. Sleeping' = Sleeping \ {cur}
        BY <2>2, <4>1, RemoveProperties DEF Sleeping
      <4> QED BY <3>1, <3>4, <4>1, <4>2 DEF insertList
    <3> QED BY <3>2, <3>3, <3>4
  <2>6. CASE TimeoutSchedule
    BY <2>2, <2>3, <2>6, TimeoutScheduleEffect DEF TimeoutSchedule
  <2>7. ASSUME NEW t \in Nat, sched' = sleepUntilTick(sched, t) PROVE A
    <3>2. sched'.sleepList = insertList(sched.sleepList, sched.runningProcess)
      BY <2>2, <2>7, SleepUntilTickEffect
    <3>3. Sleeping \subseteq Sleeping'
      <4> DEFINE l == sched.sleepList
                 r == sched.runningProcess
      <4>1. l \in Seq(Pids) /\ r \in Pids /\ sched'.sleepList = insertList(l, r)
        BY <2>2, <3>2 DEF Running
      <4> HIDE DEF l, r
      <4>2. Elems(insertList(l, r)) = Elems(l) \cup {r}
        BY <4>1, InsertProperties
      <4> QED BY <4>1, <4>2 DEF Sleeping, l
    <3> QED BY <3>3
  <2>8. ASSUME NEW p \in Pids, yield(p) PROVE A
    BY <2>2, <2>3, <2>8, ScheduleEffect DEF yield
  <2>9. ASSUME NEW p \in Pids, acquireLock(p) PROVE A
    BY <2>2, <2>3, <2>9, BlockRunningEffect
    DEF acquireLock, acquireFree, acquireAgain, acquireWait
  <2>10. ASSUME NEW p \in Pids, releaseLock(p) PROVE A
    <3> DEFINE w == HeadOf(mutex.waitList)
    <3>1. w \in Pids \cup {NULL} /\ (w \in Waiting \/ w = NULL)
      BY <2>2, HeadProperties DEF Waiting
    <3>2. w \notin Sleeping
      <4>1. Sleeping \subseteq Pids /\ NULL \notin Pids
        BY <2>1, TypeFacts, PidFacts
      <4> QED BY <2>1, <3>1, <4>1 DEF Placed
    <3> HIDE DEF w
    <3>3. wakeupProcess(sched, w).sleepList = sched.sleepList
      BY <1>1, <3>1, <3>2, WakeupKeepsSleepers
    <3> QED BY <2>3, <2>10, <3>3 DEF releaseLock, w
  <2>11. ASSUME NEW p \in Pids, NEW ring3 \in Rings, createProcess(p, ring3) PROVE A
    <3>1. findSlot \in Pids
      BY <1>1, <2>11, SlotIsFree DEF createProcess, FreeSlots
    <3> QED BY <2>2, <2>3, <2>11, <3>1, MakeReadyEffect DEF createProcess
  <2>12. ASSUME NEW p \in Pids, exitProcess(p) PROVE A
    <3> DEFINE t  == wakeupProcess(sched, Collector)
               s1 == [t EXCEPT !.state[p] = EXITED]
    <3>1. /\ t \in SchedType /\ IsInjectiveList(t.processList)
          /\ t.sleepList = sched.sleepList
      BY <1>1, WakeCollectorFacts
    <3>2. sched' = scheduleBlocked(s1)
      BY <2>12 DEF exitProcess
    <3> HIDE DEF t
    <3>3. /\ s1 \in SchedType /\ s1.processList = t.processList
          /\ s1.sleepList = t.sleepList
      BY <3>1, StateFacts DEF SchedType
    <3> HIDE DEF s1
    <3>4. sched'.sleepList = s1.sleepList
      BY <3>1, <3>2, <3>3, ScheduleBlockedEffect
    <3> QED BY <2>3, <3>1, <3>3, <3>4
  <2>13. CASE collectorBlocks
    BY <2>2, <2>3, <2>13, BlockRunningEffect DEF collectorBlocks
  <2>14. CASE collectorReclaims
    BY <2>3, <2>14 DEF collectorReclaims
  <2>15. ASSUME NEW p \in Pids, createProcessError(p) \/ resume(p) \/ waitEnds(p) PROVE A
    BY <2>3, <2>15 DEF createProcessError, resume, waitEnds
  <2>16. CASE hang
    BY <2>3, <2>16 DEF hang, vars
  <2>17. ASSUME NEW p \in Pids, NEW ms \in Millis, sleepProcess(p, ms) PROVE A
    <3>1. ticksOf(ms) \in Nat
      BY SchedulerAssumption, TicksInNat
    <3> QED BY <2>7, <2>17, <3>1 DEF sleepProcess
  <2>18. ASSUME NEW p \in Pids, waitInterrupt(p) PROVE A
    <3>1. WAIT_TICKS \in Nat
      BY SchedulerAssumption
    <3> QED BY <2>7, <2>18, <3>1 DEF waitInterrupt
  <2>19. ASSUME NEW p \in Pids, getKey(p) PROVE A
    BY <2>2, <2>3, <2>19, BlockRunningEffect DEF getKey
  <2>20. ASSUME NEW p \in Pids, waitAgain(p) PROVE A
    <3>1. CASE sched' = sleepUntilTick(sched, sched.wakeupTick[p])
      <4>1. sched.wakeupTick[p] \in Nat
        BY <2>2, SchedFields
      <4> QED BY <2>7, <3>1, <4>1
    <3>2. CASE sched' = blockRunningProcess(sched)
      BY <2>2, <2>3, <3>2, BlockRunningEffect
    <3> QED BY <2>20, <3>1, <3>2 DEF waitAgain
  <2>21. ASSUME NEW d \in Devices, deviceInterrupt(d) PROVE A
    <3> DEFINE w == waiter[d]
    <3>1. sched' = wakeupProcessInInterrupt(sched, w) /\ ~isr
      BY <2>21 DEF deviceInterrupt, InterruptsOn
    <3>2. CASE w = NULL \/ sched.state[w] # BLOCKED
      <4>1. sched' = sched
        BY <3>1, <3>2 DEF wakeupProcessInInterrupt, wakeupProcess
      <4> QED BY <2>3, <4>1
    <3>3. CASE w # NULL /\ sched.state[w] = BLOCKED
      <4>1. /\ w \in Pids /\ w \in allocProcessTable /\ at[w] = d
            /\ w \in Sleeping <=> d = "disk"
        BY <1>1, <3>3, RegisteredFacts
      <4> HIDE DEF w
      <4>2. sched'.sleepList = removeList(sched.sleepList, w)
        BY <1>1, <3>1, <3>3, <4>1, WakeBesideOthers, WakeBesideIdle
      <4>3. Sleeping' = Sleeping \ {w}
        BY <2>2, <4>2, RemoveProperties DEF Sleeping
      <4>4. ASSUME w \in Sleeping PROVE at[w] = "disk" /\ waiter["disk"] = w
        BY <4>1, <4>4 DEF w
      <4>5. CASE Running = Idle
        <5>1. sched.processList = <<>> /\ Running' = w
          BY <1>1, <3>1, <3>3, <4>1, <4>5, WakeBesideIdle DEF Running
        <5> QED BY <3>1, <4>3, <4>4, <4>5, <5>1
      <4>6. CASE Running # Idle
        <5>1. sched'.processList = Append(sched.processList, w)
          BY <1>1, <3>1, <3>3, <4>1, <4>6, WakeBesideOthers DEF insertList
        <5> QED BY <3>1, <4>3, <4>4, <4>6, <5>1
      <4> QED BY <4>5, <4>6
    <3> QED BY <3>2, <3>3
  <2> QED BY <1>1, <2>4, <2>5, <2>6, <2>8, <2>9, <2>10, <2>11, <2>12, <2>13, <2>14,
             <2>15, <2>16, <2>17, <2>18, <2>19, <2>20, <2>21
          DEF Next, Timer, Device, ProcessStep, CollectorStep
<1>2. SchedInv /\ [Next]_vars => [A]_vars
  BY <1>1
<1> QED BY SchedulerInvariant, <1>2, PTL DEF Spec, WokenInTurn

\* sleepProcess asks for enough ticks exactly when its sum does not wrap.
THEOREM SleepsLongEnoughAlways == Spec => SleepsLongEnough
<1> DEFINE A == \A p \in Pids, ms \in Millis :
                  sleepProcess(p, ms) =>
                     ( sched'.wakeupTick[p] * SLOT_TIME >= ms
                         <=> ms + SLOT_TIME <= QWORD_RANGE )
<1>1. ASSUME SchedInv PROVE A
  <2> SUFFICES ASSUME NEW p \in Pids, NEW ms \in Millis, sleepProcess(p, ms)
               PROVE  sched'.wakeupTick[p] * SLOT_TIME >= ms
                         <=> ms + SLOT_TIME <= QWORD_RANGE
    OBVIOUS
  <2>1. sched \in SchedType /\ IsInjectiveList(sched.processList)
        /\ sched.wakeupTick \in [Pids -> Nat]
    BY <1>1, SchedFields DEF SchedInv, TypeOK, Injective
  <2>2. ms \in Nat /\ ticksOf(ms) \in Nat
    BY SchedulerAssumption, TicksInNat
  <2>3. sched' = sleepUntilTick(sched, ticksOf(ms)) /\ p = sched.runningProcess
    BY <1>1, ClientFacts DEF sleepProcess, Running
  <2>4. sched'.wakeupTick = [sched.wakeupTick EXCEPT ![p] = ticksOf(ms)]
    BY <2>1, <2>2, <2>3, SleepUntilTickEffect
  <2>5. sched'.wakeupTick[p] = ticksOf(ms)
    BY <2>1, <2>4
  <2> QED BY <2>2, <2>5, TicksCover
<1>2. SchedInv /\ [Next]_vars => [A]_vars
  BY <1>1
<1> QED BY SchedulerInvariant, <1>2, PTL DEF Spec, SleepsLongEnough

-----------------------------------------------------------------------------
(* The endless loop of createProcess.                                      *)

\* Where a process hangs nothing but `hang' is enabled; nobody else gets there
\* than through createProcessError.
LEMMA HangStep ==
    ASSUME SchedInv, HangMeansFull, Next
    PROVE  HangMeansFull'
<1>1. /\ TypeOK /\ Residents
      /\ at \in [Pids -> Points] /\ Running \in Pids
  BY TypeFacts DEF SchedInv, TypeOK
<1>2. CASE \E p \in Pids : at[p] = "hang"
  <2>1. at[Running] = "hang" /\ ~isr
    BY <1>2 DEF HangMeansFull
  <2>2. Running # Collector
    BY <1>1, <2>1 DEF Residents
  <2>3. UNCHANGED vars
    BY <2>1, <2>2
       DEF Next, Timer, TimerInterrupt, WakeExpired, TimeoutSchedule, ProcessStep,
           sleepProcess, yield, acquireLock, releaseLock, createProcess,
           createProcessError, exitProcess, resume, CollectorStep, collectorBlocks,
           collectorReclaims, collectorTurn, hang, KernelClient, Client, InterruptsOn,
           Device, deviceInterrupt, waitInterrupt, getKey, waitEnds, waitAgain, Devices
  <2> QED BY <2>3 DEF HangMeansFull, vars, Running, FreeSlots
<1>3. CASE \A p \in Pids : at[p] # "hang"
  <2>1. CASE \A p \in Pids : at'[p] # "hang"
    BY <2>1 DEF HangMeansFull
  <2>2. ASSUME NEW p \in Pids, createProcessError(p) PROVE HangMeansFull'
    <3>1. /\ p = Running /\ ~isr /\ FreeSlots = {}
          /\ at' = [at EXCEPT ![p] = "hang"]
          /\ UNCHANGED <<sched, isr, allocProcessTable>>
      BY <2>2, SearchIsComplete DEF createProcessError, KernelClient, Client, InterruptsOn
    <3>2. ASSUME NEW q \in Pids, at'[q] = "hang" PROVE q = p
      BY <1>1, <1>3, <3>1, <3>2
    <3> QED BY <3>1, <3>2 DEF HangMeansFull, Running, FreeSlots
  <2>3. ASSUME NEW p \in Pids, ProcessStep(p), ~createProcessError(p)
        PROVE  \A q \in Pids : at'[q] # "hang"
    BY <1>1, <1>3, <2>3
       DEF ProcessStep, sleepProcess, yield, acquireLock, acquireFree, acquireAgain,
           acquireWait, releaseLock, createProcess, exitProcess, resume, waitInterrupt,
           getKey, waitEnds, waitAgain
  <2>4. ASSUME Timer \/ Device \/ CollectorStep \/ hang PROVE \A q \in Pids : at'[q] # "hang"
    BY <1>1, <1>3, <2>4
       DEF Timer, TimerInterrupt, WakeExpired, TimeoutSchedule, CollectorStep,
           collectorBlocks, collectorReclaims, hang, vars, Device, deviceInterrupt
  <2> QED BY <2>1, <2>2, <2>3, <2>4 DEF Next
<1> QED BY <1>2, <1>3

\* The search of createProcess gives up only when the table is full, wherever it
\* starts; the process in its endless loop is the running one, so that nobody else
\* ever runs again.
THEOREM HangMeansFullAlways == Spec => []HangMeansFull
<1>1. Init => HangMeansFull
  BY DEF Init, HangMeansFull
<1>2. SchedInv /\ HangMeansFull /\ [Next]_vars => HangMeansFull'
  <2>1. ASSUME HangMeansFull, UNCHANGED vars PROVE HangMeansFull'
    BY <2>1 DEF HangMeansFull, vars, Running, FreeSlots
  <2> QED BY <2>1, HangStep
<1> QED BY SchedulerInvariant, <1>1, <1>2, PTL DEF Spec

\* The U/S bit of a user stack is set only for a ring 3 process in the table.
THEOREM UserPagesOwnedAlways == Spec => []UserPagesOwned
<1>1. SchedInv => UserPagesOwned
  BY DEF SchedInv
<1> QED BY SchedulerInvariant, <1>1, PTL
=============================================================================
