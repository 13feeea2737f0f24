--------------------------- MODULE ProcessProofs ---------------------------
(***************************************************************************)
(* What each operator of module Process does to each field of the          *)
(* scheduler record. The proofs about the scheduler use these facts and    *)
(* never expand the operators again.                                       *)
(***************************************************************************)
EXTENDS Process, ListProofs, WellFoundedInduction, FiniteSetTheorems

\* The three processes of initScheduler have pids, and NULL is none.
LEMMA PidFacts ==
    /\ Shell \in Pids /\ Collector \in Pids /\ Idle \in Pids
    /\ NULL \notin Pids
    /\ Pids \subseteq Nat
BY ProcessAssumption DEF Pids, Shell, Collector, Idle, NULL

\* The four states of Process.h are different.
LEMMA StateFacts ==
    /\ READY # RUNNING /\ READY # BLOCKED /\ READY # EXITED
    /\ RUNNING # BLOCKED /\ RUNNING # EXITED /\ BLOCKED # EXITED
    /\ {READY, RUNNING, BLOCKED, EXITED} = States
BY DEF READY, RUNNING, BLOCKED, EXITED, States

\* A record that is a scheduler has exactly its fields, each of its type.
LEMMA SchedFields ==
    ASSUME NEW s
    PROVE  s \in SchedType =>
             /\ s.runningProcess \in Pids
             /\ s.processList \in Seq(Pids)
             /\ s.sleepList \in Seq(Pids)
             /\ s.state \in [Pids -> States]
             /\ s.wakeupTick \in [Pids -> Nat]
             /\ s.rsp0 \in Pids \cup {NULL}
BY DEF SchedType

\* dispatch changes the running process, its state and TSS.rsp0, no list.
LEMMA DispatchEffect ==
    ASSUME NEW s \in SchedType, NEW next \in Pids
    PROVE  /\ dispatch(s, next) \in SchedType
           /\ dispatch(s, next).runningProcess = next
           /\ dispatch(s, next).rsp0 = next
           /\ dispatch(s, next).state = [s.state EXCEPT ![next] = RUNNING]
           /\ dispatch(s, next).processList = s.processList
           /\ dispatch(s, next).sleepList = s.sleepList
           /\ dispatch(s, next).wakeupTick = s.wakeupTick
BY StateFacts DEF dispatch, SchedType

\* scheduleBlocked runs the head of the ready list, or the idle process.
LEMMA ScheduleBlockedEffect ==
    ASSUME NEW s \in SchedType, IsInjectiveList(s.processList)
    PROVE  LET t    == scheduleBlocked(s)
               next == headOrIdle(s)
           IN  /\ next \in Pids
               /\ t \in SchedType
               /\ t.runningProcess = next
               /\ t.rsp0 = next
               /\ t.state = [s.state EXCEPT ![next] = RUNNING]
               /\ t.processList = HeadRemove(s.processList)
               /\ t.sleepList = s.sleepList
               /\ t.wakeupTick = s.wakeupTick
<1> DEFINE r == [s EXCEPT !.processList = HeadRemove(s.processList)]
<1>1. headOrIdle(s) \in Pids
  BY PidFacts, SchedFields, HeadProperties DEF headOrIdle
<1>2. HeadRemove(s.processList) \in Seq(Pids)
  BY SchedFields, HeadProperties, EmptyProperties
<1>3. r \in SchedType
  BY <1>2 DEF SchedType
<1>4. /\ r.processList = HeadRemove(s.processList)
      /\ r.state = s.state /\ r.sleepList = s.sleepList
      /\ r.wakeupTick = s.wakeupTick
  BY DEF SchedType
<1>5. scheduleBlocked(s) = dispatch(r, headOrIdle(s))
  BY DEF scheduleBlocked
<1> HIDE DEF r
<1> QED BY <1>1, <1>3, <1>4, <1>5, DispatchEffect

\* blockRunningProcess leaves the caller BLOCKED and on no further list.
LEMMA BlockRunningEffect ==
    ASSUME NEW s \in SchedType, IsInjectiveList(s.processList)
    PROVE  LET t    == blockRunningProcess(s)
               next == headOrIdle(s)
           IN  /\ next \in Pids
               /\ t \in SchedType
               /\ t.runningProcess = next
               /\ t.rsp0 = next
               /\ t.state = [s.state EXCEPT ![s.runningProcess] = BLOCKED,
                                            ![next] = RUNNING]
               /\ t.processList = HeadRemove(s.processList)
               /\ t.sleepList = s.sleepList
               /\ t.wakeupTick = s.wakeupTick
<1> DEFINE r == [s EXCEPT !.state[s.runningProcess] = BLOCKED]
<1>1. r \in SchedType
  BY StateFacts DEF SchedType
<1>2. /\ r.processList = s.processList /\ r.sleepList = s.sleepList
      /\ r.wakeupTick = s.wakeupTick
      /\ r.state = [s.state EXCEPT ![s.runningProcess] = BLOCKED]
  BY DEF SchedType
<1>3. blockRunningProcess(s) = scheduleBlocked(r)
  BY DEF blockRunningProcess
<1>4. headOrIdle(r) = headOrIdle(s)
  BY <1>2 DEF headOrIdle
<1> HIDE DEF r
<1> QED BY <1>1, <1>2, <1>3, <1>4, ScheduleBlockedEffect

\* sleepUntilTick leaves the caller BLOCKED at the end of the sleep list.
LEMMA SleepUntilTickEffect ==
    ASSUME NEW s \in SchedType, NEW ticks \in Nat, IsInjectiveList(s.processList)
    PROVE  LET t    == sleepUntilTick(s, ticks)
               next == headOrIdle(s)
           IN  /\ next \in Pids
               /\ t \in SchedType
               /\ t.runningProcess = next
               /\ t.rsp0 = next
               /\ t.state = [s.state EXCEPT ![s.runningProcess] = BLOCKED,
                                            ![next] = RUNNING]
               /\ t.processList = HeadRemove(s.processList)
               /\ t.sleepList = insertList(s.sleepList, s.runningProcess)
               /\ t.wakeupTick = [s.wakeupTick EXCEPT ![s.runningProcess] = ticks]
<1> DEFINE r == [s EXCEPT !.wakeupTick[s.runningProcess] = ticks,
                          !.sleepList = insertList(s.sleepList, s.runningProcess)]
<1>0. insertList(s.sleepList, s.runningProcess) \in Seq(Pids)
  BY SchedFields, InsertProperties
<1>1. r \in SchedType
  BY <1>0 DEF SchedType
<1>2. /\ r.processList = s.processList
      /\ r.sleepList = insertList(s.sleepList, s.runningProcess)
      /\ r.wakeupTick = [s.wakeupTick EXCEPT ![s.runningProcess] = ticks]
      /\ r.state = s.state
      /\ r.runningProcess = s.runningProcess
  BY DEF SchedType
<1>3. sleepUntilTick(s, ticks) = blockRunningProcess(r)
  BY DEF sleepUntilTick
<1>4. headOrIdle(r) = headOrIdle(s)
  BY <1>2 DEF headOrIdle
<1> HIDE DEF r
<1> QED BY <1>1, <1>2, <1>3, <1>4, BlockRunningEffect

\* wakeupProcess moves a BLOCKED process from the sleep list, if it is there, to
\* the end of the ready list, and leaves everything else alone.
LEMMA WakeupEffect ==
    ASSUME NEW s \in SchedType, NEW pcb \in Pids \cup {NULL},
           IsInjectiveList(s.sleepList)
    PROVE  LET t    == wakeupProcess(s, pcb)
           IN  /\ t \in SchedType
               /\ t.runningProcess = s.runningProcess
               /\ t.rsp0 = s.rsp0
               /\ t.wakeupTick = s.wakeupTick
               /\ pcb = NULL => t = s
               /\ pcb # NULL => pcb \in Pids
               /\ pcb # NULL /\ s.state[pcb] # BLOCKED => t = s
               /\ pcb # NULL /\ s.state[pcb] = BLOCKED =>
                    /\ t.state = [s.state EXCEPT ![pcb] = READY]
                    /\ t.processList = insertList(s.processList, pcb)
                    /\ t.sleepList = removeList(s.sleepList, pcb)
<1>1. CASE pcb = NULL \/ s.state[pcb] # BLOCKED
  <2>1. wakeupProcess(s, pcb) = s
    BY <1>1 DEF wakeupProcess
  <2> QED BY <1>1, <2>1
<1>2. CASE ~(pcb = NULL \/ s.state[pcb] # BLOCKED)
  <2>1. pcb \in Pids
    BY <1>2
  <2>2. /\ removeList(s.sleepList, pcb) \in Seq(Pids)
        /\ insertList(s.processList, pcb) \in Seq(Pids)
    BY <2>1, SchedFields, InsertProperties, RemoveProperties
  <2>3. wakeupProcess(s, pcb) = [s EXCEPT !.sleepList   = removeList(s.sleepList, pcb),
                                          !.state[pcb]  = READY,
                                          !.processList = insertList(s.processList, pcb)]
    BY <1>2 DEF wakeupProcess
  <2>4. /\ wakeupProcess(s, pcb).processList = insertList(s.processList, pcb)
        /\ wakeupProcess(s, pcb).sleepList = removeList(s.sleepList, pcb)
        /\ wakeupProcess(s, pcb).state = [s.state EXCEPT ![pcb] = READY]
        /\ wakeupProcess(s, pcb).runningProcess = s.runningProcess
        /\ wakeupProcess(s, pcb).wakeupTick = s.wakeupTick
        /\ wakeupProcess(s, pcb).rsp0 = s.rsp0
    BY <2>3 DEF SchedType
  <2>5. wakeupProcess(s, pcb) \in SchedType
    <3>1. [s.state EXCEPT ![pcb] = READY] \in [Pids -> States]
      BY <2>1, SchedFields, StateFacts
    <3>2. [s EXCEPT !.sleepList   = removeList(s.sleepList, pcb),
                    !.state       = [s.state EXCEPT ![pcb] = READY],
                    !.processList = insertList(s.processList, pcb)] \in SchedType
      BY <2>2, <3>1 DEF SchedType
    <3> QED BY <2>3, <3>2, Zenon
  <2> QED BY <1>2, <2>1, <2>4, <2>5
<1> QED BY <1>1, <1>2

\* timeoutSchedule rotates the ready list by one, without the idle process.
LEMMA TimeoutScheduleEffect ==
    ASSUME NEW s \in SchedType, IsInjectiveList(s.processList)
    PROVE  LET t    == timeoutSchedule(s)
               cur  == s.runningProcess
               next == HeadOf(s.processList)
           IN  /\ t \in SchedType
               /\ t.sleepList = s.sleepList
               /\ t.wakeupTick = s.wakeupTick
               /\ s.processList = <<>> => t = s
               /\ s.processList # <<>> =>
                    /\ next \in Pids
                    /\ t.runningProcess = next
                    /\ t.rsp0 = next
                    /\ cur = Idle =>
                         /\ t.state = [s.state EXCEPT ![next] = RUNNING]
                         /\ t.processList = HeadRemove(s.processList)
                    /\ cur # Idle =>
                         /\ t.state = [s.state EXCEPT ![cur] = READY, ![next] = RUNNING]
                         /\ t.processList = insertList(HeadRemove(s.processList), cur)
<1> DEFINE cur  == s.runningProcess
           first == HeadOf(s.processList)
           rest == HeadRemove(s.processList)
           r1   == [s EXCEPT !.processList = rest]
           r2   == [s EXCEPT !.state[cur] = READY, !.processList = insertList(rest, cur)]
<1>1. CASE s.processList = <<>>
  <2>1. timeoutSchedule(s) = s
    BY <1>1 DEF timeoutSchedule
  <2> QED BY <1>1, <2>1
<1>2. CASE s.processList # <<>>
  <2>0. first \in Pids
    BY <1>2, SchedFields, HeadProperties
  <2>1. rest \in Seq(Pids) /\ insertList(rest, cur) \in Seq(Pids)
    BY SchedFields, HeadProperties, InsertProperties
  <2>2. CASE cur = Idle
    <3>1. timeoutSchedule(s) = dispatch(r1, first)
      BY <1>2, <2>2 DEF timeoutSchedule
    <3>2. /\ r1 \in SchedType
          /\ r1.processList = rest /\ r1.state = s.state
          /\ r1.sleepList = s.sleepList /\ r1.wakeupTick = s.wakeupTick
      BY <2>1 DEF SchedType
    <3> HIDE DEF r1, first, rest
    <3>3. LET t == dispatch(r1, first)
          IN  /\ t \in SchedType /\ t.runningProcess = first /\ t.rsp0 = first
              /\ t.state = [s.state EXCEPT ![first] = RUNNING]
              /\ t.processList = rest
              /\ t.sleepList = s.sleepList /\ t.wakeupTick = s.wakeupTick
      BY <2>0, <3>2, DispatchEffect
    <3> QED BY <1>2, <2>0, <2>2, <3>1, <3>3 DEF first, rest
  <2>3. CASE cur # Idle
    <3>1. timeoutSchedule(s) = dispatch(r2, first)
      BY <1>2, <2>3 DEF timeoutSchedule
    <3>2. /\ r2 \in SchedType
          /\ r2.processList = insertList(rest, cur)
          /\ r2.state = [s.state EXCEPT ![cur] = READY]
          /\ r2.sleepList = s.sleepList /\ r2.wakeupTick = s.wakeupTick
      BY <2>1, StateFacts DEF SchedType
    <3> HIDE DEF r2, first, rest
    <3>3. LET t == dispatch(r2, first)
          IN  /\ t \in SchedType /\ t.runningProcess = first /\ t.rsp0 = first
              /\ t.state = [s.state EXCEPT ![cur] = READY, ![first] = RUNNING]
              /\ t.processList = insertList(rest, cur)
              /\ t.sleepList = s.sleepList /\ t.wakeupTick = s.wakeupTick
      BY <2>0, <3>2, DispatchEffect
    <3> QED BY <1>2, <2>0, <2>3, <3>1, <3>3 DEF first, rest
  <2> QED BY <2>2, <2>3
<1> QED BY <1>1, <1>2

\* schedule rotates the ready list by one.
LEMMA ScheduleEffect ==
    ASSUME NEW s \in SchedType, IsInjectiveList(s.processList), s.processList # <<>>
    PROVE  LET t    == schedule(s)
               cur  == s.runningProcess
               next == HeadOf(s.processList)
           IN  /\ t \in SchedType
               /\ t.sleepList = s.sleepList
               /\ t.wakeupTick = s.wakeupTick
               /\ next \in Pids
               /\ t.runningProcess = next
               /\ t.rsp0 = next
               /\ t.state = [s.state EXCEPT ![cur] = READY, ![next] = RUNNING]
               /\ t.processList = insertList(HeadRemove(s.processList), cur)
<1> DEFINE cur  == s.runningProcess
           first == HeadOf(s.processList)
           rest == HeadRemove(s.processList)
           r    == [s EXCEPT !.state[cur] = READY, !.processList = insertList(rest, cur)]
<1>0. first \in Pids
  BY SchedFields, HeadProperties
<1>1. rest \in Seq(Pids) /\ insertList(rest, cur) \in Seq(Pids)
  BY SchedFields, HeadProperties, InsertProperties
<1>2. schedule(s) = dispatch(r, first)
  BY DEF schedule
<1>3. /\ r \in SchedType
      /\ r.processList = insertList(rest, cur)
      /\ r.state = [s.state EXCEPT ![cur] = READY]
      /\ r.sleepList = s.sleepList /\ r.wakeupTick = s.wakeupTick
  BY <1>1, StateFacts DEF SchedType
<1> HIDE DEF r, first, rest
<1>4. LET t == dispatch(r, first)
      IN  /\ t \in SchedType /\ t.runningProcess = first /\ t.rsp0 = first
          /\ t.state = [s.state EXCEPT ![cur] = READY, ![first] = RUNNING]
          /\ t.processList = insertList(rest, cur)
          /\ t.sleepList = s.sleepList /\ t.wakeupTick = s.wakeupTick
  BY <1>0, <1>3, DispatchEffect
<1> QED BY <1>0, <1>2, <1>4 DEF first, rest

\* A tick changes nothing but the time left of each wakeupTick.
LEMMA TickEffect ==
    ASSUME NEW s \in SchedType
    PROVE  LET t == tickCount(s)
           IN  /\ t \in SchedType
               /\ t.runningProcess = s.runningProcess
               /\ t.processList = s.processList
               /\ t.sleepList = s.sleepList
               /\ t.state = s.state
               /\ t.rsp0 = s.rsp0
<1>1. [p \in Pids |-> IF s.wakeupTick[p] = 0 THEN 0 ELSE s.wakeupTick[p] - 1]
        \in [Pids -> Nat]
  BY SchedFields
<1> QED BY <1>1 DEF tickCount, SchedType

\* A created process is READY at the end of the ready list.
LEMMA MakeReadyEffect ==
    ASSUME NEW s \in SchedType, NEW pid \in Pids
    PROVE  LET t == makeReady(s, pid)
           IN  /\ t \in SchedType
               /\ t.runningProcess = s.runningProcess
               /\ t.processList = insertList(s.processList, pid)
               /\ t.sleepList = s.sleepList
               /\ t.state = [s.state EXCEPT ![pid] = READY]
               /\ t.wakeupTick = s.wakeupTick
               /\ t.rsp0 = s.rsp0
<1>1. insertList(s.processList, pid) \in Seq(Pids)
  BY SchedFields, InsertProperties
<1> QED BY <1>1, StateFacts DEF makeReady, SchedType

-----------------------------------------------------------------------------
(* The loop of wakeExpiredProcess, a recursive function: it exists and has *)
(* its value by induction on the rounds, stated as induction on sets.      *)

\* f is the sequence of schedulers behind the first n rounds of the loop.
Rounds(f, n, s) ==
    f = [i \in 0 .. n |->
           IF i = 0 THEN s ELSE wakeIfExpired(f[i - 1], s.sleepList[i])]

\* The rounds are well defined.
LEMMA RoundsExist ==
    ASSUME NEW s, NEW n \in Nat
    PROVE  \E f : Rounds(f, n, s)
<1> DEFINE T == {m \in Nat : \E f : Rounds(f, m, s)}
<1>1. 0 \in T
  <2>1. Rounds([i \in 0 .. 0 |-> s], 0, s)
    BY DEF Rounds
  <2> QED BY <2>1
<1>2. ASSUME NEW m \in T PROVE m + 1 \in T
  <2>1. PICK f : Rounds(f, m, s)
    OBVIOUS
  <2> DEFINE g == [i \in 0 .. m + 1 |->
                     IF i <= m THEN f[i] ELSE wakeIfExpired(f[m], s.sleepList[m + 1])]
  <2>2. m \in Nat /\ m + 1 \in Nat
    OBVIOUS
  <2>3. ASSUME NEW i \in 0 .. m + 1
        PROVE  g[i] = IF i = 0 THEN s ELSE wakeIfExpired(g[i - 1], s.sleepList[i])
    <3>1. CASE i = 0
      BY <2>1, <2>2, <3>1 DEF Rounds
    <3>2. CASE i # 0 /\ i <= m
      <4>1. i \in 0 .. m /\ i - 1 \in 0 .. m + 1 /\ i - 1 <= m
        BY <2>2, <3>2
      <4>2. f[i] = wakeIfExpired(f[i - 1], s.sleepList[i])
        BY <2>1, <3>2, <4>1 DEF Rounds
      <4> QED BY <3>2, <4>1, <4>2
    <3>3. CASE i = m + 1
      <4>1. ~(i <= m) /\ i # 0 /\ i - 1 = m /\ m \in 0 .. m + 1 /\ m <= m
        BY <2>2, <3>3
      <4> QED BY <3>3, <4>1
    <3> QED BY <2>2, <3>1, <3>2, <3>3
  <2>4. Rounds(g, m + 1, s)
    <3> DEFINE h == [i \in 0 .. m + 1 |->
                       IF i = 0 THEN s ELSE wakeIfExpired(g[i - 1], s.sleepList[i])]
    <3>1. \A i \in 0 .. m + 1 : g[i] = h[i]
      BY <2>3
    <3>2. g = h
      BY <3>1
    <3> QED BY <3>2 DEF Rounds
  <2> QED BY <2>2, <2>4
<1> HIDE DEF T
<1>3. T = Nat
  <2>1. T \subseteq Nat
    BY DEF T
  <2> QED BY <1>1, <1>2, <2>1, NatInductionOnSets
<1> QED BY <1>3 DEF T

\* The loop returns the last of its rounds.
LEMMA LoopIsRounds ==
    ASSUME NEW s, Len(s.sleepList) \in Nat
    PROVE  \E f : /\ Rounds(f, Len(s.sleepList), s)
                  /\ wakeExpiredProcess(s) = f[Len(s.sleepList)]
<1> DEFINE n == Len(s.sleepList)
           after == CHOOSE f : Rounds(f, n, s)
<1>1. Rounds(after, n, s)
  BY RoundsExist
<1>2. wakeExpiredProcess(s) = after[n]
  BY DEF wakeExpiredProcess, Rounds
<1> QED BY <1>1, <1>2

\* What the nodes among the first i of the sleep list are that the loop wakes.
WokenBy(s, i) ==
    {p \in Pids : /\ \E j \in 1 .. i : s.sleepList[j] = p
                  /\ s.wakeupTick[p] = 0
                  /\ s.state[p] = BLOCKED}

\* The scheduler t is s with the processes W woken.
Woken(s, t, W) ==
    /\ t \in SchedType
    /\ t.runningProcess = s.runningProcess
    /\ t.rsp0 = s.rsp0
    /\ t.wakeupTick = s.wakeupTick
    /\ t.state = [p \in Pids |-> IF p \in W THEN READY ELSE s.state[p]]
    /\ IsInjectiveList(t.sleepList) /\ IsInjectiveList(t.processList)
    /\ Elems(t.sleepList) = Elems(s.sleepList) \ W
    /\ Elems(t.processList) = Elems(s.processList) \cup W

\* Where no sleeper is on the ready list, one round wakes at most its own node.
LEMMA RoundEffect ==
    ASSUME NEW s \in SchedType,
           IsInjectiveList(s.sleepList), IsInjectiveList(s.processList),
           Elems(s.sleepList) \cap Elems(s.processList) = {},
           NEW i \in Nat, i + 1 <= Len(s.sleepList),
           NEW t, Woken(s, t, WokenBy(s, i))
    PROVE  Woken(s, wakeIfExpired(t, s.sleepList[i + 1]), WokenBy(s, i + 1))
<1> DEFINE p == s.sleepList[i + 1]
           W == WokenBy(s, i)
           u == wakeIfExpired(t, p)
<1>1. /\ s.sleepList \in Seq(Pids) /\ s.processList \in Seq(Pids)
      /\ i + 1 \in 1 .. Len(s.sleepList)
  BY SchedFields
<1>2. p \in Pids /\ p \in Elems(s.sleepList) /\ p # NULL
  BY <1>1, PidFacts DEF Elems
<1>3. p \notin W
  BY <1>1 DEF WokenBy, IsInjectiveList
<1>4. t \in SchedType /\ t.wakeupTick[p] = s.wakeupTick[p] /\ t.state[p] = s.state[p]
  BY <1>2, <1>3 DEF Woken
<1>5. WokenBy(s, i + 1) = IF s.wakeupTick[p] = 0 /\ s.state[p] = BLOCKED
                          THEN W \cup {p} ELSE W
  <2>1. \A q : (\E j \in 1 .. i + 1 : s.sleepList[j] = q)
                 <=> (\E j \in 1 .. i : s.sleepList[j] = q) \/ q = p
    OBVIOUS
  <2> QED BY <1>2, <2>1 DEF WokenBy
<1> HIDE DEF p, W
<1>6. CASE s.wakeupTick[p] = 0 /\ s.state[p] = BLOCKED
  <2>1. u = wakeupProcess(t, p)
    BY <1>4, <1>6 DEF wakeIfExpired
  <2>2. /\ u \in SchedType
        /\ u.runningProcess = t.runningProcess /\ u.rsp0 = t.rsp0
        /\ u.wakeupTick = t.wakeupTick
        /\ u.state = [t.state EXCEPT ![p] = READY]
        /\ u.processList = insertList(t.processList, p)
        /\ u.sleepList = removeList(t.sleepList, p)
    BY <1>2, <1>4, <1>6, <2>1, WakeupEffect DEF Woken, W
  <2>3. t.processList \in Seq(Pids) /\ t.sleepList \in Seq(Pids)
    BY <1>4, SchedFields
  <2>4. p \notin Elems(t.processList)
    BY <1>2, <1>3 DEF Woken, W
  <2>5. /\ IsInjectiveList(u.processList)
        /\ Elems(u.processList) = Elems(t.processList) \cup {p}
    BY <1>2, <2>2, <2>3, <2>4, FreshInsert DEF Woken
  <2>6. /\ IsInjectiveList(u.sleepList)
        /\ Elems(u.sleepList) = Elems(t.sleepList) \ {p}
    BY <2>2, <2>3, RemoveProperties DEF Woken
  <2>7. u.state = [q \in Pids |-> IF q \in W \cup {p} THEN READY ELSE s.state[q]]
    BY <1>2, <2>2 DEF Woken, W
  <2>8. /\ Elems(u.sleepList) = Elems(s.sleepList) \ (W \cup {p})
        /\ Elems(u.processList) = Elems(s.processList) \cup (W \cup {p})
    BY <2>5, <2>6 DEF Woken, W
  <2>9. /\ u.runningProcess = s.runningProcess /\ u.rsp0 = s.rsp0
        /\ u.wakeupTick = s.wakeupTick
    BY <2>2 DEF Woken, W
  <2>10. Woken(s, u, W \cup {p})
    BY <2>2, <2>5, <2>6, <2>7, <2>8, <2>9 DEF Woken
  <2> QED BY <1>5, <1>6, <2>10 DEF p
<1>7. CASE ~(s.wakeupTick[p] = 0 /\ s.state[p] = BLOCKED)
  <2>1. u = t
    BY <1>2, <1>4, <1>7 DEF wakeIfExpired, wakeupProcess
  <2> QED BY <1>5, <1>7, <2>1 DEF p, W
<1> QED BY <1>6, <1>7

\* wakeExpiredProcess wakes exactly the BLOCKED sleepers whose time has come: each
\* leaves the sleep list, becomes READY and is linked to the ready list once.
LEMMA WakeExpiredEffect ==
    ASSUME NEW s \in SchedType,
           IsInjectiveList(s.sleepList), IsInjectiveList(s.processList),
           Elems(s.sleepList) \cap Elems(s.processList) = {}
    PROVE  Woken(s, wakeExpiredProcess(s),
                 {p \in Elems(s.sleepList) : s.wakeupTick[p] = 0 /\ s.state[p] = BLOCKED})
<1> DEFINE n == Len(s.sleepList)
<1>1. s.sleepList \in Seq(Pids) /\ n \in Nat
  BY SchedFields
<1>2. PICK f : Rounds(f, n, s) /\ wakeExpiredProcess(s) = f[n]
  BY <1>1, LoopIsRounds
<1> DEFINE T == {m \in Nat : m <= n => Woken(s, f[m], WokenBy(s, m))}
<1>3. 0 \in T
  <2>1. f[0] = s
    BY <1>1, <1>2 DEF Rounds
  <2>2. WokenBy(s, 0) = {}
    BY DEF WokenBy
  <2>3. s.state = [p \in Pids |-> IF p \in {} THEN READY ELSE s.state[p]]
    BY SchedFields
  <2>4. Woken(s, s, {})
    BY <2>3 DEF Woken
  <2> QED BY <2>1, <2>2, <2>4
<1>4. ASSUME NEW m \in T PROVE m + 1 \in T
  <2>1. m \in Nat /\ m + 1 \in Nat
    OBVIOUS
  <2> SUFFICES ASSUME m + 1 <= n PROVE Woken(s, f[m + 1], WokenBy(s, m + 1))
    BY <2>1
  <2>2. Woken(s, f[m], WokenBy(s, m))
    BY <1>1, <2>1
  <2>3. f[m + 1] = wakeIfExpired(f[m], s.sleepList[m + 1])
    <3>1. m + 1 \in 0 .. n /\ m + 1 # 0 /\ (m + 1) - 1 = m
      BY <1>1, <2>1
    <3> QED BY <1>2, <3>1 DEF Rounds
  <2> QED BY <2>1, <2>2, <2>3, RoundEffect
<1>5. n \in T
  <2>1. T \subseteq Nat
    OBVIOUS
  <2> HIDE DEF T
  <2> QED BY <1>1, <1>3, <1>4, <2>1, NatInductionOnSets
<1>6. WokenBy(s, n) = {p \in Elems(s.sleepList) : s.wakeupTick[p] = 0 /\ s.state[p] = BLOCKED}
  <2>1. Elems(s.sleepList) \subseteq Pids
    BY <1>1, ElemsInSet
  <2> QED BY <2>1 DEF WokenBy, Elems
<1>7. Woken(s, f[n], WokenBy(s, n))
  BY <1>1, <1>5
<1> HIDE DEF n
<1> QED BY <1>2, <1>6, <1>7, Zenon

\* sleepProcess computes a number of ticks also when the sum of QWORDs wraps.
LEMMA TicksInNat ==
    ASSUME NEW ms \in Nat
    PROVE  ticksOf(ms) \in Nat
<1>1. ms + SLOT_TIME - 1 \in Nat
  BY ProcessAssumption
<1>2. (ms + SLOT_TIME - 1) % QWORD_RANGE \in Nat
  BY <1>1, ProcessAssumption
<1> QED BY <1>2, ProcessAssumption DEF ticksOf

\* Rounding up to ticks covers the time exactly when the sum does not wrap.
LEMMA TicksCover ==
    ASSUME NEW ms \in Nat
    PROVE  ticksOf(ms) * SLOT_TIME >= ms <=> ms + SLOT_TIME <= QWORD_RANGE
<1> DEFINE sum == ms + SLOT_TIME - 1
           w   == sum % QWORD_RANGE
<1>1. sum \in Nat /\ SLOT_TIME \in Nat /\ SLOT_TIME > 0
  BY ProcessAssumption
<1>2. QWORD_RANGE \in Nat /\ QWORD_RANGE > 0 /\ QWORD_RANGE >= SLOT_TIME
  BY ProcessAssumption
<1>3. /\ w \in Nat
      /\ sum < QWORD_RANGE => w = sum
      /\ sum >= QWORD_RANGE => w <= sum - QWORD_RANGE
  <2> HIDE DEF sum
  <2> QED BY <1>1, <1>2
<1>4. ticksOf(ms) = w \div SLOT_TIME
  BY DEF ticksOf
<1> HIDE DEF w
<1>5. /\ ticksOf(ms) \in Nat
      /\ ticksOf(ms) * SLOT_TIME <= w
      /\ w < ticksOf(ms) * SLOT_TIME + SLOT_TIME
  BY <1>1, <1>3, <1>4
<1> DEFINE t == ticksOf(ms) * SLOT_TIME
<1>6. t \in Nat /\ t <= w /\ w < t + SLOT_TIME
  BY <1>1, <1>5
<1> HIDE DEF t
<1>7. CASE sum < QWORD_RANGE
  <2>1. t >= ms /\ ms + SLOT_TIME <= QWORD_RANGE
    BY <1>1, <1>2, <1>3, <1>6, <1>7
  <2> QED BY <2>1 DEF t
<1>8. CASE sum >= QWORD_RANGE
  <2>1. ~(t >= ms) /\ ~(ms + SLOT_TIME <= QWORD_RANGE)
    BY <1>1, <1>2, <1>3, <1>6, <1>8
  <2> QED BY <2>1 DEF t
<1> QED BY <1>1, <1>2, <1>7, <1>8

-----------------------------------------------------------------------------
(* A consistent scheduler, for the modules in which only the processes Q   *)
(* are ever scheduled, and what the calls of those modules do to it.       *)

\* The ready list holds READY processes of Q, the sleep list BLOCKED ones, and
\* the running process is on neither.
Listed(s, Q) ==
    /\ s \in SchedType
    /\ IsInjectiveList(s.processList) /\ IsInjectiveList(s.sleepList)
    /\ Elems(s.processList) \subseteq Q /\ Elems(s.sleepList) \subseteq Q
    /\ \A p \in Elems(s.processList) : s.state[p] = READY
    /\ \A p \in Elems(s.sleepList) : s.state[p] = BLOCKED
    /\ s.runningProcess \in Q \cup {Idle}
    /\ s.state[s.runningProcess] = RUNNING

\* Moreover the idle process runs only when no process is ready.
Consistent(s, Q) ==
    /\ Listed(s, Q)
    /\ s.runningProcess = Idle => s.processList = <<>>

\* Of the processes Q, those in W may have been unblocked, nobody else was, and
\* nobody was blocked.
Unblocks(s, t, Q, W) ==
    /\ \A p \in Q : t.state[p] = BLOCKED => s.state[p] = BLOCKED
    /\ \A p \in Q \ W : s.state[p] = BLOCKED => t.state[p] = BLOCKED
    /\ Elems(t.sleepList) \subseteq Elems(s.sleepList)
    /\ Elems(s.sleepList) \ W \subseteq Elems(t.sleepList)

\* pcb and nobody else was woken, if it was BLOCKED.
Wakes(s, t, Q, pcb) ==
    /\ Unblocks(s, t, Q, {pcb})
    /\ t.wakeupTick = s.wakeupTick
    /\ pcb # NULL => t.state[pcb] # BLOCKED
    /\ pcb = NULL \/ s.state[pcb] # BLOCKED => t = s
    /\ s.runningProcess # Idle => t.runningProcess = s.runningProcess

\* The running process was blocked and switched away, and nobody else blocked or
\* unblocked.
Blocks(s, t, Q) ==
    /\ t.runningProcess # s.runningProcess
    /\ t.state[s.runningProcess] = BLOCKED
    /\ \A p \in Q : p # s.runningProcess =>
         (t.state[p] = BLOCKED <=> s.state[p] = BLOCKED)

\* Moreover it was put on the sleep list.
Sleeps(s, t, Q) ==
    /\ Blocks(s, t, Q)
    /\ Elems(t.sleepList) = Elems(s.sleepList) \cup {s.runningProcess}

\* The fields of a listed scheduler have their types.
LEMMA ListedFields ==
    ASSUME NEW Q \in SUBSET (Pids \ {Idle}), NEW s, Listed(s, Q)
    PROVE  /\ s \in SchedType
           /\ s.runningProcess \in Pids
           /\ s.processList \in Seq(Pids) /\ s.sleepList \in Seq(Pids)
           /\ s.state \in [Pids -> States] /\ s.wakeupTick \in [Pids -> Nat]
           /\ Idle \in Pids /\ Idle \notin Q /\ Q \subseteq Pids
           /\ s.runningProcess \notin Elems(s.processList)
           /\ s.runningProcess \notin Elems(s.sleepList)
           /\ \A p \in Elems(s.sleepList) : p \notin Elems(s.processList)
BY SchedFields, PidFacts, StateFacts DEF Listed

\* timeoutSchedule unblocks nobody. It may be called with the idle process running
\* and a process just woken.
LEMMA ConsistentTimeout ==
    ASSUME NEW Q \in SUBSET (Pids \ {Idle}), NEW s, Listed(s, Q),
           NEW t, t = timeoutSchedule(s)
    PROVE  /\ Consistent(t, Q)
           /\ t.sleepList = s.sleepList /\ t.wakeupTick = s.wakeupTick
           /\ Unblocks(s, t, Q, {})
<1> DEFINE cur == s.runningProcess
           next == HeadOf(s.processList)
           rest == HeadRemove(s.processList)
<1>1. /\ s \in SchedType /\ s.state \in [Pids -> States]
      /\ s.processList \in Seq(Pids) /\ IsInjectiveList(s.processList)
      /\ cur \in Pids /\ Idle \in Pids /\ Idle \notin Q /\ Q \subseteq Pids
      /\ cur \notin Elems(s.processList)
  BY ListedFields DEF Listed
<1>2. CASE s.processList = <<>>
  <2>1. t = s
    BY <1>1, <1>2, TimeoutScheduleEffect
  <2> QED BY <1>2, <2>1 DEF Consistent, Unblocks
<1>3. CASE s.processList # <<>>
  <2>1. /\ t \in SchedType /\ t.sleepList = s.sleepList /\ t.wakeupTick = s.wakeupTick
        /\ next \in Pids /\ t.runningProcess = next
        /\ cur = Idle => /\ t.state = [s.state EXCEPT ![next] = RUNNING]
                         /\ t.processList = rest
        /\ cur # Idle =>
             /\ t.state = [s.state EXCEPT ![cur] = READY, ![next] = RUNNING]
             /\ t.processList = insertList(rest, cur)
    BY <1>1, <1>3, TimeoutScheduleEffect
  <2>2. /\ rest \in Seq(Pids) /\ IsInjectiveList(rest)
        /\ Elems(rest) = Elems(s.processList) \ {next}
        /\ next \in Elems(s.processList)
    BY <1>1, <1>3, HeadProperties
  <2>3. cur # next /\ next # Idle /\ next \in Q /\ cur \notin Elems(rest)
    BY <1>1, <2>2 DEF Listed
  <2> HIDE DEF next, rest
  <2>4. CASE cur = Idle
    <3>1. /\ t.state = [s.state EXCEPT ![next] = RUNNING]
          /\ t.processList = rest
      BY <2>1, <2>4
    <3>2. Listed(t, Q)
      BY <1>1, <2>1, <2>2, <2>3, <3>1, StateFacts DEF Listed
    <3>3. Unblocks(s, t, Q, {})
      BY <1>1, <2>1, <2>2, <2>3, <3>1, StateFacts DEF Listed, Unblocks
    <3> QED BY <1>1, <2>1, <2>3, <3>2, <3>3 DEF Consistent
  <2>5. CASE cur # Idle
    <3>1. /\ t.state = [s.state EXCEPT ![cur] = READY, ![next] = RUNNING]
          /\ t.processList = insertList(rest, cur)
      BY <2>1, <2>5
    <3>2. /\ IsInjectiveList(t.processList)
          /\ Elems(t.processList) = Elems(rest) \cup {cur}
      BY <1>1, <2>2, <2>3, <3>1, FreshInsert
    <3>3. cur \in Q
      BY <2>5 DEF Listed
    <3>4. Listed(t, Q)
      BY <1>1, <2>1, <2>2, <2>3, <3>1, <3>2, <3>3, StateFacts DEF Listed
    <3>5. Unblocks(s, t, Q, {})
      BY <1>1, <2>1, <2>2, <2>3, <3>1, StateFacts DEF Listed, Unblocks
    <3> QED BY <1>1, <2>1, <2>3, <3>4, <3>5 DEF Consistent
  <2> QED BY <2>4, <2>5
<1> QED BY <1>2, <1>3

\* The timer interrupt unblocks sleepers only, and blocks nobody.
LEMMA ConsistentTimer ==
    ASSUME NEW Q \in SUBSET (Pids \ {Idle}), NEW s, Consistent(s, Q),
           NEW t, t = timeoutSchedule(wakeExpiredProcess(tickCount(s)))
    PROVE  /\ Consistent(t, Q)
           /\ Unblocks(s, t, Q, Elems(s.sleepList))
           /\ \A p \in Elems(s.sleepList) :
                t.state[p] = BLOCKED => p \in Elems(t.sleepList)
<1> DEFINE r == tickCount(s)
           W == {p \in Elems(r.sleepList) : r.wakeupTick[p] = 0 /\ r.state[p] = BLOCKED}
           u == wakeExpiredProcess(r)
<1>0. Listed(s, Q) /\ s \in SchedType
  BY DEF Consistent, Listed
<1>1. /\ r \in SchedType /\ r.runningProcess = s.runningProcess
      /\ r.processList = s.processList /\ r.sleepList = s.sleepList
      /\ r.state = s.state
  BY <1>0, TickEffect
<1> HIDE DEF r
<1>2. Elems(r.sleepList) \cap Elems(r.processList) = {}
  BY <1>0, <1>1, ListedFields
<1>3. Woken(r, u, W)
  BY <1>0, <1>1, <1>2, WakeExpiredEffect DEF Listed
<1>4. W \subseteq Elems(s.sleepList) /\ W \subseteq Q
  BY <1>0, <1>1 DEF Listed
<1> HIDE DEF W, u
<1>5. /\ u \in SchedType /\ u.runningProcess = s.runningProcess
      /\ u.state = [p \in Pids |-> IF p \in W THEN READY ELSE s.state[p]]
      /\ IsInjectiveList(u.sleepList) /\ IsInjectiveList(u.processList)
      /\ Elems(u.sleepList) = Elems(s.sleepList) \ W
      /\ Elems(u.processList) = Elems(s.processList) \cup W
  BY <1>1, <1>3 DEF Woken
<1>6. /\ s.runningProcess \notin W /\ s.runningProcess \in Pids /\ Q \subseteq Pids
      /\ s.runningProcess \notin Elems(s.sleepList)
  BY <1>0, <1>4, ListedFields
<1>7. Listed(u, Q)
  BY <1>0, <1>4, <1>5, <1>6 DEF Listed
<1>8. /\ Consistent(t, Q)
      /\ Unblocks(u, t, Q, {})
      /\ t.sleepList = u.sleepList
  BY <1>7, ConsistentTimeout DEF u, r
<1>9. Unblocks(s, t, Q, Elems(s.sleepList))
  BY <1>4, <1>5, <1>6, <1>8, StateFacts DEF Unblocks
<1>10. ASSUME NEW p \in Elems(s.sleepList), t.state[p] = BLOCKED
       PROVE  p \in Elems(t.sleepList)
  <2>1. p \in Q
    BY <1>0 DEF Listed
  <2> QED BY <1>5, <1>6, <1>8, <1>10, <2>1, StateFacts DEF Unblocks
<1> QED BY <1>8, <1>9, <1>10

\* wakeupProcess unblocks its argument and nobody else.
LEMMA ConsistentWakeup ==
    ASSUME NEW Q \in SUBSET (Pids \ {Idle}), NEW s, Consistent(s, Q),
           NEW pcb, pcb \in Q \cup {NULL}, NEW t, t = wakeupProcess(s, pcb)
    PROVE  /\ Listed(t, Q) /\ Wakes(s, t, Q, pcb)
           /\ s.runningProcess # Idle => Consistent(t, Q)
<1>1. /\ Listed(s, Q) /\ s \in SchedType /\ s.state \in [Pids -> States]
      /\ s.processList \in Seq(Pids) /\ s.sleepList \in Seq(Pids)
      /\ IsInjectiveList(s.processList) /\ IsInjectiveList(s.sleepList)
      /\ s.runningProcess \in Pids /\ pcb \in Pids \cup {NULL} /\ Q \subseteq Pids
  BY ListedFields DEF Consistent, Listed
<1>2. CASE pcb = NULL \/ s.state[pcb] # BLOCKED
  <2>1. t = s
    BY <1>2 DEF wakeupProcess
  <2> QED BY <1>1, <1>2, <2>1 DEF Unblocks, Wakes
<1>3. CASE ~(pcb = NULL \/ s.state[pcb] # BLOCKED)
  <2>1. /\ t \in SchedType /\ t.runningProcess = s.runningProcess
        /\ t.wakeupTick = s.wakeupTick
        /\ t.state = [s.state EXCEPT ![pcb] = READY]
        /\ t.processList = insertList(s.processList, pcb)
        /\ t.sleepList = removeList(s.sleepList, pcb)
    BY <1>1, <1>3, WakeupEffect
  <2>2. pcb \in Q /\ pcb \in Pids /\ pcb \notin Elems(s.processList)
    BY <1>1, <1>3, StateFacts DEF Listed
  <2>3. /\ IsInjectiveList(t.processList)
        /\ Elems(t.processList) = Elems(s.processList) \cup {pcb}
    BY <1>1, <2>1, <2>2, FreshInsert
  <2>4. /\ IsInjectiveList(t.sleepList)
        /\ Elems(t.sleepList) = Elems(s.sleepList) \ {pcb}
    BY <1>1, <2>1, RemoveProperties
  <2>5. s.runningProcess # pcb
    BY <1>1, <1>3, StateFacts DEF Listed
  <2>6. Listed(t, Q)
    BY <1>1, <2>1, <2>2, <2>3, <2>4, <2>5 DEF Listed
  <2>7. Unblocks(s, t, Q, {pcb}) /\ t.state[pcb] # BLOCKED
    BY <1>1, <2>1, <2>2, <2>4, StateFacts DEF Unblocks
  <2> QED BY <1>3, <2>1, <2>6, <2>7 DEF Consistent, Wakes
<1> QED BY <1>2, <1>3

\* From an interrupt the idle process is preempted at once, so that the scheduler
\* is consistent again when the handler returns.
LEMMA ConsistentWakeInInterrupt ==
    ASSUME NEW Q \in SUBSET (Pids \ {Idle}), NEW s, Consistent(s, Q),
           NEW pcb, pcb \in Q \cup {NULL}, NEW t, t = wakeupProcessInInterrupt(s, pcb)
    PROVE  Consistent(t, Q) /\ Wakes(s, t, Q, pcb)
<1>0. PICK u : u = wakeupProcess(s, pcb)
  OBVIOUS
<1>1. /\ Listed(u, Q) /\ Wakes(s, u, Q, pcb)
      /\ s.runningProcess # Idle => Consistent(u, Q)
  BY <1>0, ConsistentWakeup
<1>2. t = IF pcb # NULL /\ s.state[pcb] = BLOCKED /\ s.runningProcess = Idle
          THEN timeoutSchedule(u) ELSE u
  BY <1>0 DEF wakeupProcessInInterrupt
<1>3. CASE pcb # NULL /\ s.state[pcb] = BLOCKED /\ s.runningProcess = Idle
  <2>1. /\ Consistent(t, Q)
        /\ t.sleepList = u.sleepList /\ t.wakeupTick = u.wakeupTick
        /\ Unblocks(u, t, Q, {})
    BY <1>1, <1>2, <1>3, ConsistentTimeout
  <2>2. pcb \in Q
    BY <1>3
  <2> QED BY <1>1, <1>3, <2>1, <2>2 DEF Unblocks, Wakes
<1>4. CASE ~(pcb # NULL /\ s.state[pcb] = BLOCKED /\ s.runningProcess = Idle)
  BY <1>1, <1>2, <1>4 DEF Wakes
<1> QED BY <1>3, <1>4

\* A process of Q that blocks leaves the scheduler to the head of the ready list.
LEMMA ConsistentBlock ==
    ASSUME NEW Q \in SUBSET (Pids \ {Idle}), NEW s, Consistent(s, Q),
           s.runningProcess # Idle, NEW t, t = blockRunningProcess(s)
    PROVE  /\ Consistent(t, Q) /\ Blocks(s, t, Q)
           /\ t.sleepList = s.sleepList
<1> DEFINE cur == s.runningProcess
           next == headOrIdle(s)
           rest == HeadRemove(s.processList)
<1>1. /\ Listed(s, Q) /\ s \in SchedType /\ s.state \in [Pids -> States]
      /\ s.processList \in Seq(Pids) /\ IsInjectiveList(s.processList)
      /\ cur \in Pids /\ cur \in Q /\ Idle \in Pids /\ Idle \notin Q /\ Q \subseteq Pids
      /\ cur \notin Elems(s.processList) /\ cur \notin Elems(s.sleepList)
  BY ListedFields DEF Consistent, Listed
<1>2. /\ next \in Pids /\ t \in SchedType /\ t.runningProcess = next
      /\ t.state = [s.state EXCEPT ![cur] = BLOCKED, ![next] = RUNNING]
      /\ t.processList = rest /\ t.sleepList = s.sleepList
  BY <1>1, BlockRunningEffect
<1>3. /\ rest \in Seq(Pids) /\ IsInjectiveList(rest)
      /\ Elems(rest) \subseteq Elems(s.processList)
      /\ next # Idle => next \in Elems(s.processList)
      /\ next \notin Elems(rest)
      /\ next = Idle => rest = <<>>
  <2>1. CASE s.processList = <<>>
    <3>1. rest = <<>> /\ next = Idle /\ Elems(rest) = {}
      BY <2>1, EmptyProperties DEF headOrIdle
    <3> QED BY <1>1, <3>1, EmptyProperties
  <2>2. CASE s.processList # <<>>
    <3>1. next = HeadOf(s.processList)
      BY <2>2 DEF headOrIdle
    <3>2. /\ rest \in Seq(Pids) /\ IsInjectiveList(rest)
          /\ Elems(rest) = Elems(s.processList) \ {HeadOf(s.processList)}
          /\ HeadOf(s.processList) \in Elems(s.processList)
      BY <1>1, <2>2, HeadProperties
    <3>3. HeadOf(s.processList) # Idle
      BY <1>1, <3>2 DEF Listed
    <3> QED BY <3>1, <3>2, <3>3
  <2> QED BY <2>1, <2>2
<1> HIDE DEF next, rest
<1>4. cur # next /\ next \in Q \cup {Idle} /\ next \notin Elems(s.sleepList)
  <2>1. CASE next = Idle
    BY <1>1, <2>1 DEF Listed
  <2>2. CASE next # Idle
    <3>1. next \in Elems(s.processList)
      BY <1>3, <2>2
    <3> QED BY <1>1, <3>1, ListedFields DEF Listed
  <2> QED BY <2>1, <2>2
<1>5. Listed(t, Q)
  BY <1>1, <1>2, <1>3, <1>4, StateFacts DEF Listed
<1>6. \A p \in Q : p # cur => (t.state[p] = BLOCKED <=> s.state[p] = BLOCKED)
  BY <1>1, <1>2, <1>3, <1>4, StateFacts DEF Listed
<1> QED BY <1>1, <1>2, <1>3, <1>4, <1>5, <1>6 DEF Consistent, Blocks

\* A process of Q that sleeps is BLOCKED on the sleep list when it is switched away.
LEMMA ConsistentSleep ==
    ASSUME NEW Q \in SUBSET (Pids \ {Idle}), NEW s, Consistent(s, Q),
           s.runningProcess # Idle, NEW ticks \in Nat,
           NEW t, t = sleepUntilTick(s, ticks)
    PROVE  Consistent(t, Q) /\ Sleeps(s, t, Q)
<1> DEFINE cur == s.runningProcess
           next == headOrIdle(s)
<1>0. PICK u : u = blockRunningProcess(s)
  OBVIOUS
<1>1. /\ Listed(s, Q) /\ s \in SchedType /\ s.sleepList \in Seq(Pids)
      /\ IsInjectiveList(s.processList) /\ IsInjectiveList(s.sleepList)
      /\ cur \in Pids /\ cur \in Q /\ Q \subseteq Pids
      /\ cur \notin Elems(s.sleepList)
  BY ListedFields DEF Consistent, Listed
<1>2. Consistent(u, Q) /\ Blocks(s, u, Q) /\ u.sleepList = s.sleepList
  BY <1>0, ConsistentBlock
<1>3. /\ u.runningProcess = next
      /\ u.state = [s.state EXCEPT ![cur] = BLOCKED, ![next] = RUNNING]
      /\ u.processList = HeadRemove(s.processList)
  BY <1>0, <1>1, BlockRunningEffect
<1>4. /\ t \in SchedType /\ t.runningProcess = next
      /\ t.state = [s.state EXCEPT ![cur] = BLOCKED, ![next] = RUNNING]
      /\ t.processList = HeadRemove(s.processList)
      /\ t.sleepList = insertList(s.sleepList, cur)
  BY <1>1, SleepUntilTickEffect
<1> HIDE DEF next
<1>5. /\ IsInjectiveList(t.sleepList)
      /\ Elems(t.sleepList) = Elems(s.sleepList) \cup {cur}
  BY <1>1, <1>4, FreshInsert
<1>6. Listed(t, Q)
  BY <1>1, <1>2, <1>3, <1>4, <1>5 DEF Consistent, Listed, Blocks
<1>7. Consistent(t, Q)
  BY <1>2, <1>3, <1>4, <1>6 DEF Consistent
<1> QED BY <1>2, <1>3, <1>4, <1>5, <1>7 DEF Sleeps, Blocks
\* Processes that are ready in any order are on a list that has each of them once.
LEMMA ReadyInAnyOrder ==
    ASSUME NEW W \in SUBSET Pids, NEW ready \in SetToSeqs(W)
    PROVE  /\ ready \in Seq(W) /\ IsInjectiveList(ready)
           /\ Elems(ready) \subseteq W
<1>1. IsFiniteSet(Pids)
  <2>1. 0 \in Int /\ PROCESS_MAXCOUNT - 1 \in Int
    BY ProcessAssumption
  <2> QED BY <2>1, FS_Interval DEF Pids
<1>2. IsFiniteSet(W)
  BY <1>1, FS_Subset
<1>3. Cardinality(W) \in Nat
  BY <1>2, FS_CardinalityType
<1>4. /\ ready \in [1 .. Cardinality(W) -> W]
      /\ \A i, j \in 1 .. Cardinality(W) : i # j => ready[i] # ready[j]
  BY DEF SetToSeqs
<1> DEFINE n == Cardinality(W)
<1> HIDE DEF n
<1>5. ready \in Seq(W) /\ Len(ready) = n
  BY <1>3, <1>4 DEF n
<1>6. IsInjectiveList(ready)
  BY <1>4, <1>5 DEF IsInjectiveList, n
<1> QED BY <1>5, <1>6, ElemsInSet

\* The state the modules start in: the shell runs, the others are ready, and the
\* collector is blocked outside of the processes they schedule.
LEMMA ConsistentStart ==
    ASSUME NEW Q \in SUBSET (Pids \ {Collector, Idle}), Shell \in Q,
           NEW ready \in SetToSeqs(Q \ {Shell}),
           NEW s, s = [initScheduler EXCEPT !.processList = ready,
                                            !.state[Collector] = BLOCKED]
    PROVE  /\ Consistent(s, Q)
           /\ s.sleepList = <<>>
           /\ \A p \in Q : s.state[p] # BLOCKED
<1>1. /\ ready \in Seq(Q \ {Shell}) /\ IsInjectiveList(ready)
      /\ Elems(ready) \subseteq Q \ {Shell}
  BY ReadyInAnyOrder
<1>2. /\ s.runningProcess = Shell /\ s.processList = ready /\ s.sleepList = <<>>
      /\ s.state = [p \in Pids |-> IF p = Collector THEN BLOCKED
                                   ELSE IF p = Shell THEN RUNNING ELSE READY]
      /\ s.wakeupTick = [p \in Pids |-> 0] /\ s.rsp0 = NULL
      /\ s = [runningProcess |-> s.runningProcess, processList |-> s.processList,
              sleepList |-> s.sleepList, state |-> s.state,
              wakeupTick |-> s.wakeupTick, rsp0 |-> s.rsp0]
  BY PidFacts DEF initScheduler
<1>3. ready \in Seq(Pids) /\ <<>> \in Seq(Pids)
  BY <1>1
<1>4. s \in SchedType
  <2> DEFINE f == [p \in Pids |-> IF p = Collector THEN BLOCKED
                                  ELSE IF p = Shell THEN RUNNING ELSE READY]
             g == [p \in Pids |-> 0]
  <2>0. f \in [Pids -> States] /\ g \in [Pids -> Nat]
    BY StateFacts
  <2>1. s.state \in [Pids -> States] /\ s.wakeupTick \in [Pids -> Nat]
    <3>1. s.state = f /\ s.wakeupTick = g
      BY <1>2
    <3> HIDE DEF f, g
    <3> QED BY <2>0, <3>1
  <2>2. s.runningProcess \in Pids /\ s.rsp0 \in Pids \cup {NULL}
    BY <1>2, PidFacts
  <2> QED BY <1>2, <1>3, <2>1, <2>2 DEF SchedType
<1>5. Shell # Idle /\ Shell # Collector /\ Collector \notin Q
  BY DEF Shell, Idle, Collector
<1>6. \A p \in Q : p \in Pids /\ p # Collector /\ s.state[p] # BLOCKED
  BY <1>2, <1>5, StateFacts
<1>7. \A p \in Elems(ready) : s.state[p] = READY
  BY <1>1, <1>2, <1>6
<1>8. s.state[Shell] = RUNNING
  BY <1>2, <1>5, <1>6
<1> QED BY <1>1, <1>2, <1>4, <1>5, <1>6, <1>7, <1>8, EmptyProperties
        DEF Consistent, Listed
=============================================================================
