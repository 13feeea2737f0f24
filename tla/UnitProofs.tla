----------------------------- MODULE UnitProofs -----------------------------
(***************************************************************************)
(* Theorems about the small components: the ring queue implements a        *)
(* bounded FIFO, the stopwatch loses whole periods only, the boot sequence *)
(* ends with the kernel in place, the pointers of the linked list compute  *)
(* the sequence operators of module Lists, the editor's buffer holds the   *)
(* text of TextEditor, and the screen shows the command line and the text. *)
(***************************************************************************)
EXTENDS LinkedList, RingQueue, Stopwatch, Boot, Terminal, ListProofs, FiniteSetTheorems

-----------------------------------------------------------------------------
(* The ring queue.                                                         *)

\* The slot i places behind slot f.
Behind(f, i) == IF f + i < LEN THEN f + i ELSE f + i - LEN

\* How far slot r is behind slot f.
Distance(f, r) == IF f <= r THEN r - f ELSE r - f + LEN

\* What the code and Items compute with remainders.
LEMMA RingArithmetic ==
    ASSUME NEW f \in Slots, NEW r \in Slots
    PROVE  /\ (r - f) % LEN = Distance(f, r)
           /\ Distance(f, r) \in 0 .. LEN - 1
           /\ Behind(f, Distance(f, r)) = r
           /\ (r + 1) % LEN = Behind(r, 1)
           /\ Behind(r, 1) \in Slots
           /\ f = r <=> Distance(f, r) = 0
           /\ f = Behind(r, 1) <=> Distance(f, r) = LEN - 1
           /\ \A i \in 1 .. LEN : (f + i - 1) % LEN = Behind(f, i - 1)
           /\ \A i \in 0 .. LEN - 1 : Behind(f, i) \in Slots
<1>1. /\ LEN \in Nat \ {0}
      /\ f \in Int /\ 0 <= f /\ f < LEN
      /\ r \in Int /\ 0 <= r /\ r < LEN
  BY RingQueueAssumption DEF Slots
<1>2. (r - f) % LEN = Distance(f, r)
  <2> DEFINE x == r - f
  <2>1. x \in Int /\ -LEN <= x /\ x < LEN /\ (0 <= x <=> f <= r)
    BY <1>1
  <2> HIDE DEF x
  <2>2. x % LEN = IF f <= r THEN x ELSE x + LEN
    BY <1>1, <2>1
  <2> QED BY <2>2 DEF x, Distance
<1>3. (r + 1) % LEN = Behind(r, 1)
  <2> DEFINE x == r + 1
  <2>1. x \in Int /\ 0 <= x /\ x <= LEN
    BY <1>1
  <2> HIDE DEF x
  <2>2. x % LEN = IF x < LEN THEN x ELSE x - LEN
    BY <1>1, <2>1
  <2> QED BY <2>2, <1>1 DEF x, Behind
<1>4. ASSUME NEW i \in 1 .. LEN
      PROVE  (f + i - 1) % LEN = Behind(f, i - 1)
  <2> DEFINE x == f + i - 1
  <2>1. x \in Int /\ 0 <= x /\ x < 2 * LEN /\ x = f + (i - 1)
    BY <1>1
  <2> HIDE DEF x
  <2>2. x % LEN = IF x < LEN THEN x ELSE x - LEN
    BY <1>1, <2>1
  <2> QED BY <1>1, <2>1, <2>2 DEF x, Behind
<1> QED
  BY <1>1, <1>2, <1>3, <1>4 DEF Distance, Behind, Slots

\* The sequence of n items of a buffer from slot f on.
LEMMA ItemsAreSequence ==
    ASSUME NEW f \in Slots, NEW n \in 0 .. LEN - 1, NEW arr \in [Slots -> Data]
    PROVE  LET s == [i \in 1 .. n |-> arr[(f + i - 1) % LEN]]
           IN  /\ s \in Seq(Data) /\ Len(s) = n
               /\ \A i \in 1 .. n : s[i] = arr[Behind(f, i - 1)]
<1>1. n \in Nat /\ LEN \in Nat
  BY RingQueueAssumption
<1>2. \A i \in 1 .. n : /\ (f + i - 1) % LEN = Behind(f, i - 1)
                        /\ Behind(f, i - 1) \in Slots
  <2> TAKE i \in 1 .. n
  <2>1. i \in 1 .. LEN /\ i - 1 \in 0 .. LEN - 1
    BY <1>1
  <2> QED BY <2>1, RingArithmetic
<1> QED BY <1>1, <1>2

\* The items of a state.
LEMMA ItemsFacts ==
    ASSUME QueueTypeOK
    PROVE  /\ Items \in Seq(Data) /\ Len(Items) = Distance(front, rear)
           /\ \A i \in 1 .. Distance(front, rear) :
                 Items[i] = queueArr[Behind(front, i - 1)]
<1>1. front \in Slots /\ rear \in Slots /\ queueArr \in [Slots -> Data]
  BY DEF QueueTypeOK
<1>2. Used = Distance(front, rear) /\ Used \in 0 .. LEN - 1
  BY <1>1, RingArithmetic DEF Used
<1> QED BY <1>1, <1>2, ItemsAreSequence DEF Items

\* A call of the queue keeps the indices inside the buffer.
LEMMA QueueStepType == ASSUME QueueTypeOK, [QueueNext]_queueVars PROVE QueueTypeOK'
<1>0. (front + 1) % LEN \in Slots /\ (rear + 1) % LEN \in Slots
  BY RingArithmetic DEF QueueTypeOK
<1>1. ASSUME NEW d \in Data, enQueue(d) PROVE QueueTypeOK'
  BY <1>0, <1>1 DEF enQueue, QueueTypeOK
<1>2. ASSUME deQueue PROVE QueueTypeOK'
  BY <1>0, <1>2 DEF deQueue, QueueTypeOK
<1>3. ASSUME UNCHANGED queueVars PROVE QueueTypeOK'
  BY <1>3 DEF queueVars, QueueTypeOK
<1> QED BY <1>1, <1>2, <1>3 DEF QueueNext

\* The items of the state behind a step.
LEMMA ItemsAfter ==
    ASSUME QueueTypeOK'
    PROVE  /\ Items' \in Seq(Data) /\ Len(Items') = Distance(front', rear')
           /\ \A i \in 1 .. Distance(front', rear') :
                 Items'[i] = queueArr'[Behind(front', i - 1)]
<1>1. front' \in Slots /\ rear' \in Slots /\ queueArr' \in [Slots -> Data]
  BY DEF QueueTypeOK, Slots
<1>2. Used' = Distance(front', rear') /\ Used' \in 0 .. LEN - 1
  BY <1>1, RingArithmetic DEF Used
<1>3. Items' = [i \in 1 .. Used' |-> queueArr'[(front' + i - 1) % LEN]]
  BY DEF Items
<1> QED BY <1>1, <1>2, <1>3, ItemsAreSequence

\* enQueue appends its item, or refuses it when LEN - 1 are queued.
LEMMA EnQueuePuts ==
    ASSUME QueueTypeOK, NEW d \in Data, enQueue(d)
    PROVE  AbsQueue!Put(d)
<1>0. /\ front \in Slots /\ rear \in Slots /\ queueArr \in [Slots -> Data]
      /\ LEN \in Nat \ {0}
  BY RingQueueAssumption DEF QueueTypeOK
<1>1. CASE queueIsFull
  <2>1. ret' = FALSE /\ UNCHANGED <<front, rear, queueArr, out>>
    BY <1>1 DEF enQueue
  <2>2. Items' = Items
    BY <2>1 DEF Items, Used
  <2>3. Len(Items) = LEN - 1
    BY <1>0, <1>1, RingArithmetic, ItemsFacts DEF queueIsFull
  <2> QED BY <2>1, <2>2, <2>3 DEF AbsQueue!Put
<1>2. CASE ~queueIsFull
  <2>1. /\ queueArr' = [queueArr EXCEPT ![rear] = d]
        /\ rear' = Behind(rear, 1) /\ front' = front
        /\ ret' = TRUE /\ out' = out
    BY <1>0, <1>2, RingArithmetic DEF enQueue
  <2> DEFINE n == Distance(front, rear)
  <2>2. n \in 0 .. LEN - 1 /\ n # LEN - 1
    BY <1>0, <1>2, RingArithmetic DEF queueIsFull
  <2>3. Distance(front', rear') = n + 1
    BY <1>0, <2>1, <2>2 DEF Distance, Behind, Slots
  <2>4. /\ Items \in Seq(Data) /\ Len(Items) = n
        /\ \A i \in 1 .. n : Items[i] = queueArr[Behind(front, i - 1)]
    BY ItemsFacts
  <2>5. /\ Items' \in Seq(Data) /\ Len(Items') = n + 1
        /\ \A i \in 1 .. n + 1 : Items'[i] = queueArr'[Behind(front, i - 1)]
    <3>1. QueueTypeOK'
      BY QueueStepType DEF QueueNext
    <3> QED BY <2>1, <2>3, <3>1, ItemsAfter
  <2>6. /\ Behind(front, n) = rear
        /\ \A i \in 1 .. n : /\ Behind(front, i - 1) \in Slots
                             /\ Behind(front, i - 1) # rear
    BY <1>0, <2>2 DEF Distance, Behind, Slots
  <2> HIDE DEF n
  <2>7. Items' = Append(Items, d)
    <3>1. /\ Append(Items, d) \in Seq(Data) /\ Len(Append(Items, d)) = n + 1
          /\ \A i \in 1 .. n : Append(Items, d)[i] = Items[i]
          /\ Append(Items, d)[n + 1] = d
      BY <2>4, AppendProperties
    <3>2. ASSUME NEW i \in 1 .. n + 1 PROVE Items'[i] = Append(Items, d)[i]
      <4>1. CASE i = n + 1
        <5>1. Items'[i] = queueArr'[Behind(front, i - 1)] /\ i - 1 = n
          BY <2>2, <2>5, <4>1
        <5>2. queueArr'[rear] = d
          BY <1>0, <2>1
        <5> QED BY <2>6, <3>1, <4>1, <5>1, <5>2
      <4>2. CASE i # n + 1
        <5>1. i \in 1 .. n
          BY <2>2, <4>2
        <5>2. Items'[i] = queueArr[Behind(front, i - 1)]
          BY <1>0, <2>1, <2>5, <2>6, <5>1
        <5> QED BY <2>4, <3>1, <5>1, <5>2
      <4> QED BY <4>1, <4>2
    <3> QED BY <2>5, <3>1, <3>2, SeqEqual
  <2>8. Len(Items) # LEN - 1
    BY <2>2, <2>4
  <2> QED BY <2>1, <2>7, <2>8 DEF AbsQueue!Put
<1> QED BY <1>1, <1>2

\* deQueue delivers the oldest item, or nothing when the ring is empty.
LEMMA DeQueueGets ==
    ASSUME QueueTypeOK, deQueue
    PROVE  AbsQueue!Get
<1>0. /\ front \in Slots /\ rear \in Slots /\ queueArr \in [Slots -> Data]
      /\ LEN \in Nat \ {0}
  BY RingQueueAssumption DEF QueueTypeOK
<1> DEFINE n == Distance(front, rear)
<1>1. /\ Items \in Seq(Data) /\ Len(Items) = n /\ n \in 0 .. LEN - 1
      /\ \A i \in 1 .. n : Items[i] = queueArr[Behind(front, i - 1)]
  BY <1>0, ItemsFacts, RingArithmetic
<1>2. CASE queueIsEmpty
  <2>1. ret' = FALSE /\ UNCHANGED <<front, rear, queueArr, out>>
    BY <1>2 DEF deQueue
  <2>2. Items' = Items
    BY <2>1 DEF Items, Used
  <2>3. Items = <<>>
    <3>1. n = 0
      BY <1>0, <1>2, RingArithmetic DEF queueIsEmpty
    <3> HIDE DEF n
    <3> QED BY <1>1, <3>1, EmptySeq
  <2> QED BY <2>1, <2>2, <2>3 DEF AbsQueue!Get
<1>3. CASE ~queueIsEmpty
  <2>1. /\ out' = queueArr[front] /\ front' = Behind(front, 1)
        /\ ret' = TRUE /\ rear' = rear /\ queueArr' = queueArr
    BY <1>0, <1>3, RingArithmetic DEF deQueue
  <2>2. n # 0
    BY <1>0, <1>3, RingArithmetic DEF queueIsEmpty
  <2>3. Distance(front', rear') = n - 1
    BY <1>0, <1>3, <2>1 DEF queueIsEmpty, Distance, Behind, Slots
  <2>4. /\ Items' \in Seq(Data) /\ Len(Items') = n - 1
        /\ \A i \in 1 .. n - 1 : Items'[i] = queueArr[Behind(front', i - 1)]
    <3>1. QueueTypeOK'
      BY QueueStepType DEF QueueNext
    <3> QED BY <2>1, <2>3, <3>1, ItemsAfter
  <2>5. /\ Behind(front, 1 - 1) = front
        /\ \A i \in 1 .. n - 1 : Behind(front', i - 1) = Behind(front, i + 1 - 1)
    BY <1>0, <1>1, <2>1 DEF Behind, Slots
  <2> HIDE DEF n
  <2>6. Items # <<>> /\ 1 \in 1 .. n
    BY <1>1, <2>2, EmptySeq
  <2>7. Head(Items) = out'
    <3>1. Head(Items) = Items[1] /\ Items[1] = queueArr[Behind(front, 1 - 1)]
      BY <1>1, <2>6
    <3> QED BY <2>1, <2>5, <3>1
  <2>8. Items' = Tail(Items)
    <3>1. /\ Tail(Items) \in Seq(Data) /\ Len(Tail(Items)) = n - 1
          /\ \A i \in 1 .. n - 1 : Tail(Items)[i] = Items[i + 1]
      BY <1>1, <2>6, HeadTailProperties
    <3>2. ASSUME NEW i \in 1 .. n - 1 PROVE Items'[i] = Tail(Items)[i]
      <4>1. i + 1 \in 1 .. n
        BY <1>1
      <4>2. Items[i + 1] = queueArr[Behind(front, i + 1 - 1)]
        BY <1>1, <4>1
      <4> QED BY <2>4, <2>5, <3>1, <4>2
    <3> QED BY <2>4, <3>1, <3>2, SeqEqual
  <2> QED BY <2>1, <2>6, <2>7, <2>8 DEF AbsQueue!Get
<1> QED BY <1>2, <1>3

\* Queue.c: the indices stay inside the buffer.
THEOREM QueueTypeCorrect == QueueSpec => []QueueTypeOK
<1>1. initQueue => QueueTypeOK
  BY RingQueueAssumption DEF initQueue, QueueTypeOK, Slots
<1> QED BY <1>1, QueueStepType, PTL DEF QueueSpec

\* Queue.c is a FIFO of LEN - 1 items: every call of enQueue and deQueue is one
\* of Put and Get on the items between front and rear.
THEOREM RingQueueImplements == QueueSpec => ImplementsQueue
<1>1. initQueue => AbsQueue!Init
  <2> SUFFICES ASSUME initQueue PROVE AbsQueue!Init
    OBVIOUS
  <2>1. QueueTypeOK /\ front = rear /\ front \in Slots
    BY RingQueueAssumption DEF initQueue, QueueTypeOK, Slots
  <2>2. Items = <<>>
    BY <2>1, ItemsFacts, RingArithmetic, EmptySeq
  <2> QED BY <2>2, RingQueueAssumption DEF initQueue, AbsQueue!Init
<1>2. QueueTypeOK /\ [QueueNext]_queueVars => [AbsQueue!Next]_<<Items, ret, out>>
  <2>1. ASSUME UNCHANGED queueVars PROVE UNCHANGED <<Items, ret, out>>
    BY <2>1 DEF queueVars, Items, Used
  <2> QED BY <2>1, EnQueuePuts, DeQueueGets DEF QueueNext, AbsQueue!Next
<1> QED
  BY <1>1, <1>2, QueueTypeCorrect, PTL DEF QueueSpec, ImplementsQueue, AbsQueue!Spec

-----------------------------------------------------------------------------
(* The stopwatch.                                                          *)

\* Whole numbers of reload periods.
Periods == {k * RELOAD : k \in Nat}

LEMMA PeriodFacts ==
    /\ RELOAD \in Nat /\ RELOAD > 1
    /\ Periods \subseteq Nat
    /\ 0 \in Periods
    /\ \A x \in Periods : /\ x + RELOAD \in Periods
                          /\ x % RELOAD = 0
                          /\ x < RELOAD => x = 0
                          /\ \A y \in Periods : x + y \in Periods
<1>1. RELOAD \in Nat /\ RELOAD > 1
  BY StopwatchAssumption
<1>2. 0 * RELOAD = 0 /\ 0 \in Nat
  BY <1>1
<1>3. ASSUME NEW k \in Nat, NEW m \in Nat
      PROVE  /\ k * RELOAD + RELOAD = (k + 1) * RELOAD
             /\ k * RELOAD + m * RELOAD = (k + m) * RELOAD
             /\ (k * RELOAD) % RELOAD = 0
             /\ k * RELOAD < RELOAD => k * RELOAD = 0
             /\ k * RELOAD \in Nat /\ k + 1 \in Nat /\ k + m \in Nat
  BY <1>1
<1>4. Periods \subseteq Nat /\ 0 \in Periods
  BY <1>2, <1>3 DEF Periods
<1>5. ASSUME NEW x \in Periods
      PROVE  /\ x + RELOAD \in Periods
             /\ x % RELOAD = 0
             /\ x < RELOAD => x = 0
             /\ \A y \in Periods : x + y \in Periods
  <2>1. PICK k \in Nat : x = k * RELOAD
    BY DEF Periods
  <2>2. /\ x + RELOAD = (k + 1) * RELOAD /\ k + 1 \in Nat
        /\ x % RELOAD = 0 /\ x < RELOAD => x = 0
    BY <1>3, <2>1
  <2>3. ASSUME NEW y \in Periods PROVE x + y \in Periods
    <3>1. PICK m \in Nat : y = m * RELOAD
      BY DEF Periods
    <3>2. x + y = (k + m) * RELOAD /\ k + m \in Nat
      BY <1>3, <2>1, <3>1
    <3> QED BY <3>2 DEF Periods
  <2>4. x + RELOAD \in Periods
    BY <2>2 DEF Periods
  <2>5. x % RELOAD = 0 /\ (x < RELOAD => x = 0)
    BY <1>3, <2>1, Zenon
  <2> QED BY <2>3, <2>4, <2>5, Zenon
<1> QED BY <1>1, <1>4, <1>5

\* What the loop has not yet measured is a whole number of periods more than what
\* its next poll will add, and none when it was never preempted: then it polled
\* within the last period.
WatchInv ==
    /\ WatchTypeOK
    /\ elapsedClock <= polled /\ polled - elapsedClock \in Periods
    /\ real - polled - elapsedSince(lastCounter, counter) \in Periods
    /\ ~preempted => onCpu /\ ran = real - polled /\ elapsedClock = polled

LEMMA WatchStep == ASSUME WatchInv, [WatchNext]_watchVars PROVE WatchInv'
<1>1. /\ RELOAD \in Nat /\ RELOAD > 1 /\ POLL_GAP \in 1 .. RELOAD - 1
      /\ MaxSlices \in Nat /\ MaxReal \in Nat
  BY StopwatchAssumption
<1> DEFINE since == elapsedSince(lastCounter, counter)
<1>2. /\ counter \in 1 .. RELOAD /\ lastCounter \in 1 .. RELOAD
      /\ since \in 0 .. RELOAD - 1
  BY <1>1 DEF WatchInv, WatchTypeOK, elapsedSince
<1>3. ASSUME countDown PROVE WatchInv'
  <2>1. real' - polled' - elapsedSince(lastCounter', counter') \in Periods
    <3>1. \/ real' - polled' - elapsedSince(lastCounter', counter') = real - polled - since
          \/ real' - polled' - elapsedSince(lastCounter', counter')
               = real - polled - since + RELOAD
      BY <1>1, <1>2, <1>3 DEF countDown, elapsedSince, WatchInv, WatchTypeOK
    <3> QED BY <3>1, PeriodFacts DEF WatchInv
  <2>2. WatchTypeOK'
    BY <1>1, <1>3 DEF countDown, WatchInv, WatchTypeOK
  <2> QED BY <1>1, <1>2, <1>3, <2>1, <2>2
          DEF countDown, elapsedSince, WatchInv, WatchTypeOK
<1>4. ASSUME reload PROVE WatchInv'
  <2>1. real' - polled' - elapsedSince(lastCounter', counter') \in Periods
    <3>1. \/ real' - polled' - elapsedSince(lastCounter', counter') = real - polled - since
          \/ real' - polled' - elapsedSince(lastCounter', counter')
               = real - polled - since + RELOAD
      BY <1>1, <1>2, <1>4 DEF reload, elapsedSince, WatchInv, WatchTypeOK
    <3> QED BY <3>1, PeriodFacts DEF WatchInv
  <2>2. WatchTypeOK'
    <3>1. /\ counter' \in 1 .. RELOAD /\ real' \in 0 .. MaxReal
          /\ polled' \in 0 .. real'
      BY <1>1, <1>4 DEF reload, WatchInv, WatchTypeOK
    <3>2. /\ onCpu' \in BOOLEAN /\ preempted' \in BOOLEAN
      BY <1>4, Zenon DEF reload, WatchInv, WatchTypeOK
    <3>3. slices' \in 0 .. MaxSlices
      BY <1>1, <1>4 DEF reload, WatchInv, WatchTypeOK
    <3>4. ran' \in 0 .. POLL_GAP
      BY <1>1, <1>4 DEF reload, WatchInv, WatchTypeOK
    <3> QED BY <1>4, <3>1, <3>2, <3>3, <3>4 DEF reload, WatchInv, WatchTypeOK
  <2> QED BY <1>1, <1>2, <1>4, <2>1, <2>2
          DEF reload, elapsedSince, WatchInv, WatchTypeOK
<1>5. ASSUME poll PROVE WatchInv'
  <2>1. /\ elapsedClock' = elapsedClock + since /\ lastCounter' = counter
        /\ polled' = real /\ counter' = counter /\ real' = real
        /\ preempted' = preempted /\ ran' = 0 /\ onCpu' = onCpu
    BY <1>5 DEF poll, getElapsedClock
  <2>2. elapsedSince(lastCounter', counter') = 0
    BY <1>2, <2>1 DEF elapsedSince
  <2> DEFINE rest == real - polled - since
             lost == polled - elapsedClock
  <2>3. rest \in Periods /\ lost \in Periods /\ since \in Nat
    BY <1>2 DEF WatchInv
  <2>4. real \in Nat /\ polled \in Nat /\ elapsedClock \in Nat
    BY DEF WatchInv, WatchTypeOK
  <2>5. polled' - elapsedClock' = rest + lost
    BY <1>2, <2>1, <2>4
  <2>6. ~preempted => rest = 0
    <3>1. ~preempted => rest < RELOAD
      BY <1>1, <1>2, <2>4 DEF WatchInv, WatchTypeOK
    <3> HIDE DEF rest
    <3> QED BY <2>3, <3>1, PeriodFacts
  <2>7. rest + lost \in Periods /\ rest + lost >= 0
    <3> HIDE DEF rest, lost
    <3> QED BY <2>3, PeriodFacts
  <2>8. WatchTypeOK'
    BY <1>1, <1>2, <1>5, <2>1, <2>4 DEF poll, WatchInv, WatchTypeOK
  <2>9. elapsedClock' <= polled' /\ polled' - elapsedClock' \in Periods
    BY <1>2, <2>1, <2>4, <2>5, <2>7
  <2>10. real' - polled' - elapsedSince(lastCounter', counter') \in Periods
    BY <2>1, <2>2, <2>4, PeriodFacts
  <2>11. ~preempted' => onCpu' /\ ran' = real' - polled' /\ elapsedClock' = polled'
    BY <1>2, <2>1, <2>4, <2>6 DEF WatchInv
  <2> QED BY <2>8, <2>9, <2>10, <2>11 DEF WatchInv
<1>6. ASSUME UNCHANGED watchVars PROVE WatchInv'
  BY <1>6 DEF watchVars, WatchInv, WatchTypeOK, elapsedSince
<1> QED BY <1>3, <1>4, <1>5, <1>6 DEF WatchNext

\* PIT.c: however often the polling process is preempted, a wait never gives up
\* early, what it loses are whole reload periods, and it loses none when it is not
\* preempted.
THEOREM WholePeriodsLostAlways == WatchSpec => []WholePeriodsLost
<1>1. WatchInit => WatchInv
  <2> SUFFICES ASSUME WatchInit PROVE WatchInv
    OBVIOUS
  <2>1. WatchTypeOK
    <3>1. timedOut \in BOOLEAN /\ onCpu \in BOOLEAN /\ preempted \in BOOLEAN
      BY Zenon DEF WatchInit
    <3>2. /\ counter \in 1 .. RELOAD /\ lastCounter = counter
          /\ elapsedClock = 0 /\ slices = 0 /\ ran = 0 /\ real = 0 /\ polled = 0
      BY Zenon DEF WatchInit, startStopwatch
    <3> QED BY <3>1, <3>2, StopwatchAssumption DEF WatchTypeOK
  <2>2. elapsedSince(lastCounter, counter) = 0
    BY StopwatchAssumption DEF WatchInit, startStopwatch, elapsedSince
  <2> QED BY <2>1, <2>2, PeriodFacts DEF WatchInit, startStopwatch, WatchInv
<1>2. WatchInv => WholePeriodsLost
  BY PeriodFacts DEF WatchInv, WholePeriodsLost
<1> QED BY <1>1, <1>2, WatchStep, PTL DEF WatchSpec

-----------------------------------------------------------------------------
(* The boot sequence.                                                      *)

\* What BootAssumption says of the constants, one fact each.
LEMMA BootConstants ==
    /\ SECTOR_SIZE \in Nat /\ SECTOR_SIZE > 0 /\ PAGE_SIZE \in Nat /\ PAGE_SIZE > 0
    /\ SHORT_RANGE \in Nat /\ PROTECTED_START \in Nat /\ PAGE_TABLE_START \in Nat
    /\ PTABLE_BASE \in Nat /\ IA32_START \in Nat /\ IA32_END \in Nat
    /\ PRESENT_PAGES \in Nat /\ MAX_PAGES \in Nat
    /\ SCREEN_START \in Nat /\ SCREEN_END \in Nat
    /\ SCREEN_START <= SCREEN_END /\ SCREEN_END <= PAGE_TABLE_START
    /\ PAGE_TABLE_START <= PTABLE_BASE
    /\ PTABLE_BASE + PRESENT_PAGES <= IA32_START
    /\ IA32_END <= PRESENT_PAGES * PAGE_SIZE
    /\ PRESENT_PAGES <= MAX_PAGES
BY BootAssumption

\* The sectors of a file hold all of it.
LEMMA SectorsCover ==
    ASSUME NEW size \in Nat
    PROVE  /\ Sectors(size) \in Nat
           /\ Sectors(size) * SECTOR_SIZE \in Nat
           /\ size <= Sectors(size) * SECTOR_SIZE
<1> DEFINE sum == size + SECTOR_SIZE - 1
<1>1. sum \in Nat /\ SECTOR_SIZE \in Nat /\ SECTOR_SIZE > 0
  BY BootConstants
<1> HIDE DEF sum
<1>2. /\ sum \div SECTOR_SIZE \in Nat
      /\ sum < (sum \div SECTOR_SIZE) * SECTOR_SIZE + SECTOR_SIZE
  BY <1>1
<1>3. Sectors(size) = sum \div SECTOR_SIZE
  BY DEF Sectors, sum
<1> DEFINE n == Sectors(size)
<1>4. n \in Nat /\ sum < n * SECTOR_SIZE + SECTOR_SIZE
  BY <1>2, <1>3
<1>5. n * SECTOR_SIZE \in Nat
  BY <1>1, <1>4
<1> QED BY <1>1, <1>4, <1>5 DEF sum

\* The page of an address is one of the mapped ones.
LEMMA PageIsPresent ==
    ASSUME NEW a \in Addresses
    PROVE  a \div PAGE_SIZE \in 0 .. PRESENT_PAGES - 1
<1> DEFINE q == a \div PAGE_SIZE
<1>1. a \in Nat /\ a < PRESENT_PAGES * PAGE_SIZE
  BY BootConstants DEF Addresses
<1>2. q \in Nat /\ q * PAGE_SIZE <= a
  BY <1>1, BootConstants
<1> HIDE DEF q
<1>3. ASSUME q >= PRESENT_PAGES PROVE FALSE
  <2>1. q * PAGE_SIZE >= PRESENT_PAGES * PAGE_SIZE
    BY <1>2, <1>3, BootConstants
  <2>2. q * PAGE_SIZE \in Int /\ PRESENT_PAGES * PAGE_SIZE \in Int
    BY <1>2, BootConstants
  <2> QED BY <1>1, <1>2, <2>1, <2>2
<1>4. q \in 0 .. PRESENT_PAGES - 1
  BY <1>2, <1>3, BootConstants
<1> QED BY <1>4 DEF q

\* The bytes the two files take in the image.
LoaderBytes == Sectors(loader) * SECTOR_SIZE
KernelBytes == Sectors(kernel) * SECTOR_SIZE
Built == appendFile("loader", loader) \o appendFile("kernel", kernel)

SizesOK == loader \in LoaderSizes /\ kernel \in KernelSizes /\ bss \in BssSizes

\* The image and what it is loaded next to.
LEMMA ImageFacts ==
    ASSUME SizesOK
    PROVE  /\ loader \in Nat /\ kernel \in Nat /\ bss \in Nat
           /\ Sectors(loader) \in Nat /\ Sectors(kernel) \in Nat
           /\ LoaderBytes \in Nat /\ KernelBytes \in Nat /\ kernel <= KernelBytes
           /\ (Sectors(loader) + Sectors(kernel)) * SECTOR_SIZE = LoaderBytes + KernelBytes
           /\ SECTOR_SIZE * (Sectors(loader) + Sectors(kernel) - Sectors(loader))
                = KernelBytes
           /\ (Sectors(loader) + Sectors(kernel)) % SHORT_RANGE
                = Sectors(loader) + Sectors(kernel)
           /\ Sectors(loader) % SHORT_RANGE = Sectors(loader)
           /\ PROTECTED_START + LoaderBytes + KernelBytes <= SCREEN_START
           /\ IA32_START + KernelBytes <= IA32_END
           /\ IA32_START + kernel + bss <= IA32_END
           /\ \A i \in 0 .. kernel - 1 : Built[LoaderBytes + i + 1] = <<"kernel", i>>
<1> DEFINE l == Sectors(loader)
           k == Sectors(kernel)
<1>1. loader \in Nat /\ kernel \in Nat /\ bss \in Nat
  BY BootAssumption DEF SizesOK
<1>2. /\ l \in Nat /\ k \in Nat /\ kernel <= KernelBytes
      /\ LoaderBytes \in Nat /\ KernelBytes \in Nat
  BY <1>1, SectorsCover DEF LoaderBytes, KernelBytes
<1>3. /\ l + k < SHORT_RANGE
      /\ PROTECTED_START + (l + k) * SECTOR_SIZE <= SCREEN_START
      /\ IA32_START + k * SECTOR_SIZE <= IA32_END
      /\ IA32_START + kernel + bss <= IA32_END
  BY BootAssumption DEF SizesOK
<1>4. \A i \in 0 .. kernel - 1 : Built[LoaderBytes + i + 1] = <<"kernel", i>>
  <2> DEFINE S == {<<n, i>> : n \in {"loader", "kernel", "zero"}, i \in Nat}
             f == appendFile("loader", loader)
             g == appendFile("kernel", kernel)
  <2>1. ASSUME NEW name \in {"loader", "kernel"}, NEW size \in Nat,
               NEW n \in Nat, n = Sectors(size) * SECTOR_SIZE, size <= n
        PROVE  /\ appendFile(name, size) \in Seq(S)
               /\ Len(appendFile(name, size)) = n
               /\ \A i \in 1 .. size : appendFile(name, size)[i] = <<name, i - 1>>
    <3> DEFINE e(i) == IF i <= size THEN <<name, i - 1>> ELSE ZERO
    <3>1. \A i \in 1 .. n : e(i) \in S
      <4>1. ASSUME NEW i \in 1 .. n, i <= size PROVE <<name, i - 1>> \in S
        <5>1. i - 1 \in Nat
          OBVIOUS
        <5> QED BY <5>1
      <4>2. ZERO \in S
        BY DEF ZERO
      <4> QED BY <4>1, <4>2
    <3>2. appendFile(name, size) = [i \in 1 .. n |-> e(i)]
      BY <2>1 DEF appendFile
    <3>3. \A i \in 1 .. size : i \in 1 .. n /\ e(i) = <<name, i - 1>>
      BY <2>1
    <3> HIDE DEF S, e
    <3> QED BY <2>1, <3>1, <3>2, <3>3
  <2> HIDE DEF S
  <2>2. /\ f \in Seq(S) /\ Len(f) = LoaderBytes
    BY <1>1, <1>2, <2>1, SectorsCover DEF LoaderBytes
  <2>3. /\ g \in Seq(S) /\ Len(g) = KernelBytes
        /\ \A i \in 1 .. kernel : g[i] = <<"kernel", i - 1>>
    BY <1>1, <1>2, <2>1 DEF KernelBytes
  <2>4. Built = f \o g
    BY DEF Built
  <2> HIDE DEF f, g
  <2> TAKE i \in 0 .. kernel - 1
  <2>5. /\ LoaderBytes + i + 1 \in 1 .. LoaderBytes + KernelBytes
        /\ ~(LoaderBytes + i + 1 <= LoaderBytes)
        /\ LoaderBytes + i + 1 - LoaderBytes = i + 1
        /\ i + 1 \in 1 .. kernel /\ i + 1 - 1 = i
    BY <1>1, <1>2
  <2>6. (f \o g)[LoaderBytes + i + 1] = g[i + 1]
    BY <2>2, <2>3, <2>5, ConcatProperties
  <2> QED BY <2>3, <2>4, <2>5, <2>6
<1>5. (l + k) * SECTOR_SIZE = LoaderBytes + KernelBytes
  <2> HIDE DEF l, k
  <2> QED BY <1>2, BootConstants DEF LoaderBytes, KernelBytes, l, k
<1>6. SECTOR_SIZE * (l + k - l) = KernelBytes
  <2>1. l + k - l = k
    BY <1>2
  <2>2. SECTOR_SIZE * k = k * SECTOR_SIZE
    BY <1>2, BootConstants
  <2> QED BY <2>1, <2>2 DEF KernelBytes
<1>7. (l + k) % SHORT_RANGE = l + k /\ l % SHORT_RANGE = l
  <2> HIDE DEF l, k
  <2> QED BY <1>2, <1>3, BootConstants
<1>8. IA32_START + KernelBytes <= IA32_END
  BY <1>3 DEF KernelBytes
<1>9. PROTECTED_START + LoaderBytes + KernelBytes <= SCREEN_START
  BY <1>2, <1>3, <1>5, BootConstants
<1> QED BY <1>1, <1>2, <1>3, <1>4, <1>5, <1>6, <1>7, <1>8, <1>9

\* The first n sectors of the image are in low memory.
Loaded(n) ==
    \A a \in Addresses :
        a - PROTECTED_START \in 0 .. n * SECTOR_SIZE - 1
            => memory[a] = image[a - PROTECTED_START + 1]

KernelCopied == \A i \in 0 .. kernel - 1 : memory[IA32_START + i] = <<"kernel", i>>
BssCleared   == \A i \in 0 .. bss - 1 : memory[IA32_START + kernel + i] = ZERO

\* What each stage of the boot leaves to the next ones.
BootInv ==
    /\ SizesOK
    /\ lba \in Nat /\ di \in Nat
    /\ step \in {"build", "reset"} => lba = 0
    /\ step \in {"reset", "read", "zero", "paging", "copy"} =>
         /\ image = Built
         /\ total = Sectors(loader) + Sectors(kernel)
         /\ loaderCount = Sectors(loader)
    /\ step = "read" => di + lba = total /\ Loaded(lba)
    /\ step \in {"zero", "paging", "copy"} => Loaded(total)
    /\ KernelMapped
    /\ step \in {"bss", "run"} => KernelCopied
    /\ step = "run" => BssCleared

LEMMA BuildKept ==
    ASSUME BootInv, unchangedBuild
    PROVE  /\ SizesOK' /\ Built' = Built /\ image' = image
           /\ kernel' = kernel /\ bss' = bss
           /\ total' = total /\ loaderCount' = loaderCount
           /\ Sectors(loader)' = Sectors(loader) /\ Sectors(kernel)' = Sectors(kernel)
BY DEF BootInv, SizesOK, unchangedBuild, Built, appendFile, Sectors

\* The image lies below the screen and the page tables: memory that differs from
\* what it was only from the screen on still holds it.
LEMMA ImageKept ==
    ASSUME SizesOK, total = Sectors(loader) + Sectors(kernel), Loaded(total),
           unchangedBuild,
           \A a \in Addresses : a < SCREEN_START => memory'[a] = memory[a]
    PROVE  Loaded(total)'
<1> DEFINE n == total * SECTOR_SIZE
<1>1. n = LoaderBytes + KernelBytes
  BY ImageFacts
<1>2. \A a \in Addresses : a - PROTECTED_START \in 0 .. n - 1
                            => memory[a] = image[a - PROTECTED_START + 1]
  BY DEF Loaded
<1>3. n' = n /\ image' = image
  BY DEF unchangedBuild
<1> HIDE DEF n
<1>4. ASSUME NEW a \in Addresses, a - PROTECTED_START \in 0 .. n - 1
      PROVE  memory'[a] = image[a - PROTECTED_START + 1]
  <2>1. a < SCREEN_START
    BY <1>1, <1>4, ImageFacts, BootConstants DEF Addresses
  <2> QED BY <1>2, <1>4, <2>1
<1>5. \A a \in Addresses : a - PROTECTED_START \in 0 .. n' - 1
                            => memory'[a] = image'[a - PROTECTED_START + 1]
  BY <1>3, <1>4
<1> QED BY <1>5 DEF Loaded, n

\* A message changes nothing outside the screen.
LEMMA PutsBeside ==
    ASSUME NEW mem
    PROVE  \A a \in Addresses : a < SCREEN_START => Puts(mem)[a] = mem[a]
BY BootConstants DEF Puts, Addresses

LEMMA ReadKeepsInv == ASSUME BootInv, ReadDisk PROVE BootInv'
<1>1. /\ step = "read" /\ step' = "read" /\ di > 0 /\ di \in Nat /\ lba \in Nat
      /\ di' = di - 1 /\ lba' = lba + 1 /\ unchangedBuild
      /\ di + lba = total /\ Loaded(lba) /\ image = Built
  BY DEF ReadDisk, BootInv
<1> DEFINE ls == lba * SECTOR_SIZE
<1>2. ls \in Nat /\ (lba + 1) * SECTOR_SIZE = ls + SECTOR_SIZE /\ SECTOR_SIZE \in Nat
  BY <1>1, BootConstants
<1>3. Loaded(lba)'
  <2> HIDE DEF ls
  <2> SUFFICES ASSUME NEW a \in Addresses,
                      a - PROTECTED_START \in 0 .. ls + SECTOR_SIZE - 1
               PROVE  memory'[a] = image[a - PROTECTED_START + 1]
    BY <1>1, <1>2, BuildKept DEF Loaded
  <2>1. a \in Int /\ PROTECTED_START \in Nat
    BY BootConstants DEF Addresses
  <2>2. memory'[a] = IF a - PROTECTED_START - ls \in 0 .. SECTOR_SIZE - 1
                     THEN image[ls + (a - PROTECTED_START - ls) + 1]
                     ELSE memory[a]
    BY DEF ReadDisk, ls
  <2>3. CASE a - PROTECTED_START - ls \in 0 .. SECTOR_SIZE - 1
    <3>1. ls + (a - PROTECTED_START - ls) + 1 = a - PROTECTED_START + 1
      BY <1>2, <2>1
    <3> QED BY <2>2, <2>3, <3>1
  <2>4. CASE a - PROTECTED_START - ls \notin 0 .. SECTOR_SIZE - 1
    <3>1. a - PROTECTED_START \in 0 .. ls - 1
      BY <1>2, <2>1, <2>4
    <3>2. memory[a] = image[a - PROTECTED_START + 1]
      BY <1>1, <3>1 DEF Loaded, ls
    <3> QED BY <2>2, <2>4, <3>2
  <2> QED BY <2>3, <2>4
<1>4. di' \in Nat /\ lba' \in Nat /\ di' + lba' = total
  BY <1>1
<1> QED BY <1>1, <1>3, <1>4, BuildKept DEF BootInv, KernelMapped

\* Zeroing starts behind the image.
LEMMA ZeroKeepsInv == ASSUME BootInv, InitializeMemory PROVE BootInv'
<1>1. /\ step = "zero" /\ unchangedBuild /\ UNCHANGED <<di, lba>>
      /\ Loaded(total) /\ total = Sectors(loader) + Sectors(kernel) /\ SizesOK
  BY DEF InitializeMemory, BootInv
<1>2. CASE step' = "paging" /\ memory' = [a \in Addresses |->
                IF a >= PAGE_TABLE_START THEN ZERO ELSE Puts(memory)[a]]
  <2>1. Loaded(total)'
    <3>1. ASSUME NEW a \in Addresses, a < SCREEN_START PROVE memory'[a] = memory[a]
      <4>1. ~(a >= PAGE_TABLE_START)
        BY <3>1, BootConstants DEF Addresses
      <4> QED BY <1>2, <3>1, <4>1, PutsBeside
    <3> QED BY <1>1, <3>1, ImageKept
  <2> QED BY <1>1, <1>2, <2>1, BuildKept DEF BootInv, KernelMapped
<1>3. CASE step' = "failed"
  BY <1>1, <1>3, BuildKept DEF BootInv, KernelMapped
<1> QED BY <1>2, <1>3 DEF InitializeMemory

\* The page tables lie behind the image, and the entry of every page is written.
LEMMA PagingKeepsInv == ASSUME BootInv, InitializePaging PROVE BootInv'
<1>1. /\ step = "paging" /\ step' = "copy" /\ unchangedBuild /\ UNCHANGED <<di, lba>>
      /\ Loaded(total) /\ total = Sectors(loader) + Sectors(kernel) /\ SizesOK
      /\ memory' = [a \in Addresses |->
           IF a \in PTABLE_BASE .. PTABLE_BASE + MAX_PAGES - 1
           THEN pageEntry(a - PTABLE_BASE) ELSE Puts(memory)[a]]
  BY DEF InitializePaging, BootInv
<1>2. Loaded(total)'
  <2>1. ASSUME NEW a \in Addresses, a < SCREEN_START PROVE memory'[a] = memory[a]
    <3>1. a \notin PTABLE_BASE .. PTABLE_BASE + MAX_PAGES - 1
      BY <2>1, BootConstants DEF Addresses
    <3> QED BY <1>1, <2>1, <3>1, PutsBeside
  <2> QED BY <1>1, <2>1, ImageKept
<1>3. KernelMapped'
  <2> SUFFICES ASSUME NEW a \in Addresses
               PROVE  memory'[PTABLE_BASE + a \div PAGE_SIZE] = <<"pte", a \div PAGE_SIZE>>
    BY DEF KernelMapped
  <2> DEFINE q == a \div PAGE_SIZE
  <2>1. q \in 0 .. PRESENT_PAGES - 1
    BY PageIsPresent
  <2> HIDE DEF q
  <2> DEFINE x == PTABLE_BASE + q
  <2>2. /\ x \in Addresses
        /\ x \in PTABLE_BASE .. PTABLE_BASE + MAX_PAGES - 1
        /\ x - PTABLE_BASE = q
    <3>1. IA32_START <= IA32_END
      BY <1>1, ImageFacts, BootConstants
    <3> QED BY <2>1, <3>1, BootConstants DEF Addresses
  <2>3. pageEntry(q) = <<"pte", q>>
    BY <2>1, BootConstants DEF pageEntry
  <2> HIDE DEF x
  <2>4. memory'[x] = <<"pte", q>>
    BY <1>1, <2>2, <2>3
  <2> QED BY <2>4 DEF q, x
<1> QED BY <1>1, <1>2, <1>3, BuildKept DEF BootInv

\* The kernel is copied out of the image and behind the entries of its pages.
LEMMA CopyKeepsInv ==
    ASSUME BootInv, copyIA32ModeImage, step' = "bss"
    PROVE  BootInv'
<1>1. /\ step = "copy" /\ step' = "bss" /\ unchangedBuild /\ UNCHANGED <<di, lba>>
      /\ Loaded(total) /\ total = Sectors(loader) + Sectors(kernel) /\ SizesOK
      /\ loaderCount = Sectors(loader) /\ image = Built /\ KernelMapped
  BY DEF copyIA32ModeImage, BootInv
<1>2. \A a \in Addresses : memory'[a] =
         IF a - IA32_START \in 0 .. KernelBytes - 1
         THEN memory[PROTECTED_START + LoaderBytes + (a - IA32_START)] ELSE memory[a]
  <2>1. SECTOR_SIZE * (total - loaderCount) = KernelBytes
    BY <1>1, ImageFacts
  <2>2. loaderCount * SECTOR_SIZE = LoaderBytes
    BY <1>1 DEF LoaderBytes
  <2> QED BY <2>1, <2>2 DEF copyIA32ModeImage
<1>3. KernelCopied'
  <2> SUFFICES ASSUME NEW i \in 0 .. kernel - 1
               PROVE  memory'[IA32_START + i] = <<"kernel", i>>
    BY <1>1, BuildKept DEF KernelCopied
  <2> DEFINE from == PROTECTED_START + LoaderBytes + i
             x == IA32_START + i
  <2>1. /\ x \in Addresses
        /\ x - IA32_START = i /\ i \in 0 .. KernelBytes - 1
    BY <1>1, ImageFacts, BootConstants DEF Addresses
  <2>2. /\ from \in Addresses
        /\ from - PROTECTED_START = LoaderBytes + i
        /\ LoaderBytes + i \in 0 .. LoaderBytes + KernelBytes - 1
    <3>1. /\ i \in Nat /\ i < KernelBytes
          /\ LoaderBytes \in Nat /\ KernelBytes \in Nat
          /\ PROTECTED_START + LoaderBytes + KernelBytes <= SCREEN_START
          /\ IA32_START <= IA32_END
      BY <1>1, ImageFacts, BootConstants
    <3>2. from \in Nat /\ from < IA32_END
      BY <3>1, BootConstants
    <3> QED BY <3>1, <3>2, BootConstants DEF Addresses
  <2>3. total * SECTOR_SIZE = LoaderBytes + KernelBytes
    BY <1>1, ImageFacts
  <2> HIDE DEF from, x
  <2>4. memory[from] = image[from - PROTECTED_START + 1]
    <3>1. from - PROTECTED_START \in 0 .. total * SECTOR_SIZE - 1
      <4> DEFINE n == total * SECTOR_SIZE
      <4>1. n = LoaderBytes + KernelBytes
        BY <2>3
      <4> HIDE DEF n
      <4>2. from - PROTECTED_START \in 0 .. n - 1
        BY <1>1, <2>2, <4>1, ImageFacts
      <4> QED BY <4>2 DEF n
    <3> QED BY <1>1, <2>2, <3>1 DEF Loaded
  <2>5. memory[from] = <<"kernel", i>>
    BY <1>1, <2>2, <2>4, ImageFacts
  <2>6. memory'[x] = memory[PROTECTED_START + LoaderBytes + i]
    BY <1>2, <2>1
  <2> QED BY <2>5, <2>6 DEF from, x
<1>4. KernelMapped'
  <2> SUFFICES ASSUME NEW a \in Addresses
               PROVE  memory'[PTABLE_BASE + a \div PAGE_SIZE] = <<"pte", a \div PAGE_SIZE>>
    BY DEF KernelMapped
  <2> DEFINE q == a \div PAGE_SIZE
  <2>1. q \in 0 .. PRESENT_PAGES - 1
    BY PageIsPresent
  <2>2. memory[PTABLE_BASE + q] = <<"pte", q>>
    BY <1>1 DEF KernelMapped
  <2> HIDE DEF q
  <2> DEFINE x == PTABLE_BASE + q
  <2>3. x \in Addresses /\ x - IA32_START \notin 0 .. KernelBytes - 1
    <3>1. IA32_START <= IA32_END
      BY <1>1, ImageFacts, BootConstants
    <3> QED BY <2>1, <3>1, BootConstants DEF Addresses
  <2> HIDE DEF x
  <2>4. memory'[x] = memory[x]
    BY <1>2, <2>3
  <2> QED BY <2>2, <2>4 DEF q, x
<1> QED BY <1>1, <1>3, <1>4, BuildKept DEF BootInv

\* .bss lies behind the file of the kernel.
LEMMA BssKeepsInv == ASSUME BootInv, clearBss PROVE BootInv'
<1>1. /\ step = "bss" /\ step' = "run" /\ unchangedBuild /\ UNCHANGED <<di, lba>>
      /\ SizesOK /\ KernelMapped /\ KernelCopied
      /\ \A a \in Addresses : memory'[a] =
            IF a - IA32_START - kernel \in 0 .. bss - 1 THEN ZERO ELSE memory[a]
  BY DEF clearBss, BootInv
<1>2. KernelCopied'
  <2> SUFFICES ASSUME NEW i \in 0 .. kernel - 1
               PROVE  memory'[IA32_START + i] = <<"kernel", i>>
    BY <1>1, BuildKept DEF KernelCopied
  <2> DEFINE x == IA32_START + i
  <2>1. x \in Addresses /\ x - IA32_START - kernel \notin 0 .. bss - 1
    BY <1>1, ImageFacts, BootConstants DEF Addresses
  <2>2. memory[x] = <<"kernel", i>>
    BY <1>1 DEF KernelCopied
  <2> HIDE DEF x
  <2>3. memory'[x] = memory[x]
    BY <1>1, <2>1
  <2> QED BY <2>2, <2>3 DEF x
<1>3. BssCleared'
  <2> SUFFICES ASSUME NEW i \in 0 .. bss - 1
               PROVE  memory'[IA32_START + kernel + i] = ZERO
    BY <1>1, BuildKept DEF BssCleared
  <2> DEFINE x == IA32_START + kernel + i
  <2>1. x \in Addresses /\ x - IA32_START - kernel \in 0 .. bss - 1
    BY <1>1, ImageFacts, BootConstants DEF Addresses
  <2> HIDE DEF x
  <2>2. memory'[x] = ZERO
    BY <1>1, <2>1
  <2> QED BY <2>2 DEF x
<1>4. KernelMapped'
  <2> SUFFICES ASSUME NEW a \in Addresses
               PROVE  memory'[PTABLE_BASE + a \div PAGE_SIZE] = <<"pte", a \div PAGE_SIZE>>
    BY DEF KernelMapped
  <2> DEFINE q == a \div PAGE_SIZE
  <2>1. q \in 0 .. PRESENT_PAGES - 1
    BY PageIsPresent
  <2>2. memory[PTABLE_BASE + q] = <<"pte", q>>
    BY <1>1 DEF KernelMapped
  <2> HIDE DEF q
  <2> DEFINE x == PTABLE_BASE + q
  <2>3. x \in Addresses /\ x - IA32_START - kernel \notin 0 .. bss - 1
    BY <1>1, <2>1, ImageFacts, BootConstants DEF Addresses
  <2> HIDE DEF x
  <2>4. memory'[x] = memory[x]
    BY <1>1, <2>3
  <2> QED BY <2>2, <2>4 DEF q, x
<1> QED BY <1>1, <1>2, <1>3, <1>4, BuildKept DEF BootInv

LEMMA BootStep == ASSUME BootInv, [BootNext]_bootVars PROVE BootInv'
<1>1. ASSUME imageMaker PROVE BootInv'
  <2>1. /\ step = "build" /\ UNCHANGED <<loader, kernel, bss, di, lba, memory>>
        /\ SizesOK /\ lba = 0 /\ lba \in Nat /\ di \in Nat
    BY <1>1 DEF imageMaker, BootInv
  <2>2. /\ SizesOK' /\ Built' = Built
        /\ Sectors(loader)' = Sectors(loader) /\ Sectors(kernel)' = Sectors(kernel)
    BY <2>1 DEF SizesOK, Built, appendFile, Sectors
  <2>3. CASE step' = "reset" /\ image' = Built
             /\ total' = (Sectors(loader) + Sectors(kernel)) % SHORT_RANGE
             /\ loaderCount' = Sectors(loader) % SHORT_RANGE
    BY <2>1, <2>2, <2>3, ImageFacts DEF BootInv, KernelMapped
  <2>4. CASE step' = "failed"
    BY <2>1, <2>2, <2>4 DEF BootInv, KernelMapped
  <2> QED BY <1>1, <2>3, <2>4 DEF imageMaker, Built
<1>2. ASSUME NEW from \in {"reset", "read"}, diskError(from) PROVE BootInv'
  BY <1>2, BuildKept DEF diskError, BootInv, KernelMapped
<1>3. ASSUME ResetDisk PROVE BootInv'
  <2>1. /\ step = "reset" /\ step' = "read" /\ di' = total /\ lba = 0 /\ lba' = 0
        /\ unchangedBuild /\ SizesOK
        /\ total = Sectors(loader) + Sectors(kernel)
    BY <1>3 DEF ResetDisk, BootInv
  <2>2. total \in Nat
    BY <2>1, ImageFacts
  <2>3. Loaded(lba)'
    <3>1. 0 * SECTOR_SIZE = 0
      BY BootConstants
    <3> QED BY <2>1, <3>1 DEF Loaded
  <2> QED BY <1>3, <2>1, <2>2, <2>3, BuildKept DEF BootInv, KernelMapped
<1>4. ASSUME ReadEnd PROVE BootInv'
  <2>1. /\ step = "read" /\ step' = "zero" /\ di = 0 /\ lba \in Nat /\ di + lba = total
        /\ unchangedBuild /\ UNCHANGED <<di, lba>> /\ memory' = Puts(memory)
        /\ Loaded(lba) /\ SizesOK /\ total = Sectors(loader) + Sectors(kernel)
    BY <1>4 DEF ReadEnd, BootInv
  <2>2. Loaded(total)'
    <3>1. lba = total
      BY <2>1
    <3> QED BY <2>1, <3>1, PutsBeside, ImageKept
  <2> QED BY <2>1, <2>2, BuildKept DEF BootInv, KernelMapped
<1>5. ASSUME UNCHANGED bootVars PROVE BootInv'
  BY <1>5 DEF bootVars, BootInv, SizesOK, Built, appendFile, Sectors, Loaded,
              KernelMapped, KernelCopied, BssCleared
<1>6. ASSUME copyIA32ModeImage, step' = "failed" PROVE BootInv'
  <2>1. step = "copy" /\ unchangedBuild /\ UNCHANGED <<di, lba>>
    BY <1>6 DEF copyIA32ModeImage
  <2> QED BY <1>6, <2>1, BuildKept DEF BootInv, KernelMapped
<1>7. ASSUME copyIA32ModeImage PROVE step' \in {"bss", "failed"}
  BY <1>7 DEF copyIA32ModeImage
<1> QED BY <1>1, <1>2, <1>3, <1>4, <1>5, <1>6, <1>7, ReadKeepsInv, ZeroKeepsInv,
           PagingKeepsInv, CopyKeepsInv, BssKeepsInv DEF BootNext

\* From ImageMaker.c to Main: when the kernel runs, its file is where it was
\* linked, byte for byte, .bss is zero, and the pages of all of it are mapped.
THEOREM KernelReadyAlways == BootSpec => []KernelReady
<1>1. BootInit => BootInv
  BY DEF BootInit, BootInv, SizesOK, KernelMapped
<1>2. BootInv => KernelReady
  BY DEF BootInv, KernelReady, KernelCopied, BssCleared
<1> QED BY <1>1, <1>2, BootStep, PTL DEF BootSpec

-----------------------------------------------------------------------------
(* The linked list: what the pointers stand for, for any values of them.   *)

\* Walk and ContentsOf as operators of the pointers.
WalkFrom(first, nx) ==
    LET cur[k \in 0 .. Cardinality(Nodes)] ==
            IF k = 0 THEN first
            ELSE IF cur[k - 1] = NULL THEN NULL ELSE nx[cur[k - 1]]
    IN  cur

IsWalk(f, first, nx) ==
    f = [k \in 0 .. Cardinality(Nodes) |->
            IF k = 0 THEN first
            ELSE IF f[k - 1] = NULL THEN NULL ELSE nx[f[k - 1]]]

NodesOf(walk) ==
    LET len == Cardinality({k \in 0 .. Cardinality(Nodes) - 1 : walk[k] # NULL})
    IN  [i \in 1 .. len |-> walk[i - 1]]

\* The next fields lead through s, and end there.
Follows(nx, s) ==
    \A i \in 1 .. Len(s) : nx[s[i]] = IF i = Len(s) THEN NULL ELSE s[i + 1]

LastOf(s) == IF s = <<>> THEN NULL ELSE s[Len(s)]

\* A list with head h, tail t and count n holds the nodes of s.
Holds(h, t, n, nx, s) ==
    /\ s \in Seq(Nodes) /\ IsInjectiveList(s) /\ Follows(nx, s)
    /\ h = HeadOf(s) /\ t = LastOf(s) /\ n = Len(s)

\* The pointers hd, tl, nx and the counts ct hold the lists c.
Chained(hd, tl, ct, nx, c) ==
    /\ c = [l \in ListNames |-> c[l]]
    /\ \A l \in ListNames : Holds(hd[l], tl[l], ct[l], nx, c[l])
    /\ \A l, k \in ListNames : l # k => Elems(c[l]) \cap Elems(c[k]) = {}

\* The first rounds of a walk visit the nodes of s.
Visits(walk, s) ==
    walk = [k \in 0 .. Cardinality(Nodes) |-> IF k < Len(s) THEN s[k + 1] ELSE NULL]

\* No list is longer than there are nodes.
LEMMA ShortList ==
    ASSUME NEW s \in Seq(Nodes), IsInjectiveList(s)
    PROVE  /\ Len(s) \in Nat /\ Cardinality(Nodes) \in Nat
           /\ Len(s) <= Cardinality(Nodes)
<1>1. IsFiniteSet(Nodes) /\ Cardinality(Nodes) \in Nat
  BY LinkedListAssumption, FS_CardinalityType
<1>2. Len(s) \in Nat /\ s \in [1 .. Len(s) -> Nodes]
  BY LenProperties
<1>3. Cardinality(1 .. Len(s)) = Len(s)
  <2>1. 1 \in Int /\ Len(s) \in Int
    BY <1>2
  <2>2. Cardinality(1 .. Len(s)) = IF 1 > Len(s) THEN 0 ELSE Len(s) - 1 + 1
    BY <2>1, FS_Interval
  <2> QED BY <1>2, <2>2
<1>4. s \in Injection(1 .. Len(s), Nodes)
  <2>1. DOMAIN s = 1 .. Len(s)
    BY <1>2
  <2> QED BY <1>2, <2>1 DEF IsInjectiveList, Injection, IsInjective
<1> QED BY <1>1, <1>2, <1>3, <1>4, FS_Injection

\* A walk along next fields that lead through s visits s and ends.
LEMMA WalkVisits ==
    ASSUME NEW nx, NEW s \in Seq(Nodes), IsInjectiveList(s), Follows(nx, s),
           NEW walk, walk = WalkFrom(HeadOf(s), nx)
    PROVE  Visits(walk, s)
<1> DEFINE N == Cardinality(Nodes)
           v == [k \in 0 .. N |-> IF k < Len(s) THEN s[k + 1] ELSE NULL]
<1>1. Len(s) \in Nat /\ N \in Nat /\ Len(s) <= N
  BY ShortList
<1>2. \A i \in 1 .. Len(s) : s[i] \in Nodes /\ s[i] # NULL
  BY ElementOfSeq, LinkedListAssumption
<1>3. \A k \in 0 .. N : v[k] = IF k = 0 THEN HeadOf(s)
                               ELSE IF v[k - 1] = NULL THEN NULL ELSE nx[v[k - 1]]
  <2> SUFFICES ASSUME NEW k \in 0 .. N
               PROVE  v[k] = IF k = 0 THEN HeadOf(s)
                             ELSE IF v[k - 1] = NULL THEN NULL ELSE nx[v[k - 1]]
    OBVIOUS
  <2>1. CASE k = 0
    BY <1>1, <2>1 DEF HeadOf
  <2>2. CASE k # 0 /\ k - 1 < Len(s)
    <3>1. k \in 1 .. Len(s) /\ v[k - 1] = s[k] /\ v[k - 1] # NULL
      BY <1>1, <1>2, <2>2
    <3>2. nx[s[k]] = IF k = Len(s) THEN NULL ELSE s[k + 1]
      BY <3>1 DEF Follows
    <3> QED BY <1>1, <2>2, <3>1, <3>2
  <2>3. CASE k # 0 /\ ~(k - 1 < Len(s))
    BY <1>1, <2>3
  <2> QED BY <2>1, <2>2, <2>3
<1>4. IsWalk(v, HeadOf(s), nx)
  BY <1>3 DEF IsWalk
<1>a. IsWalk(CHOOSE f : IsWalk(f, HeadOf(s), nx), HeadOf(s), nx)
  BY <1>4
<1>b. walk = CHOOSE f : IsWalk(f, HeadOf(s), nx)
  BY DEF WalkFrom, IsWalk
<1>5. IsWalk(walk, HeadOf(s), nx)
  BY <1>a, <1>b
<1>c. /\ walk = [k \in 0 .. N |-> walk[k]]
      /\ \A k \in 0 .. N : walk[k] = IF k = 0 THEN HeadOf(s)
                 ELSE IF walk[k - 1] = NULL THEN NULL ELSE nx[walk[k - 1]]
  BY <1>5 DEF IsWalk
<1> HIDE DEF v
<1>6. \A k \in 0 .. N : walk[k] = v[k]
  <2> DEFINE T == {k \in Nat : k \in 0 .. N => walk[k] = v[k]}
  <2>1. 0 \in T
    BY <1>1, <1>3, <1>c
  <2>2. ASSUME NEW k \in T PROVE k + 1 \in T
    <3>1. k \in Nat /\ (k \in 0 .. N => walk[k] = v[k])
      OBVIOUS
    <3>2. ASSUME k + 1 \in 0 .. N PROVE walk[k + 1] = v[k + 1]
      <4>1. k \in 0 .. N /\ (k + 1) - 1 = k /\ k + 1 # 0
        BY <1>1, <3>1, <3>2
      <4>2. walk[k + 1] = IF walk[k] = NULL THEN NULL ELSE nx[walk[k]]
        BY <1>c, <3>2, <4>1
      <4>3. v[k + 1] = IF v[k] = NULL THEN NULL ELSE nx[v[k]]
        BY <1>3, <3>2, <4>1
      <4> QED BY <3>1, <4>1, <4>2, <4>3
    <3> QED BY <3>1, <3>2
  <2>3. T \subseteq Nat
    OBVIOUS
  <2>4. T = Nat
    <3> HIDE DEF T
    <3> QED BY <2>1, <2>2, <2>3, NatInductionOnSets
  <2>5. \A k \in Nat : k \in 0 .. N => walk[k] = v[k]
    BY <2>4
  <2> QED BY <1>1, <2>5
<1>7. walk = v
  BY <1>6, <1>c DEF v
<1> QED BY <1>7 DEF Visits, v

\* The nodes of such a walk are those of s.
LEMMA VisitedNodes ==
    ASSUME NEW s \in Seq(Nodes), IsInjectiveList(s), NEW walk, Visits(walk, s)
    PROVE  NodesOf(walk) = s
<1> DEFINE N == Cardinality(Nodes)
           K == {k \in 0 .. N - 1 : walk[k] # NULL}
<1>1. Len(s) \in Nat /\ N \in Nat /\ Len(s) <= N
  BY ShortList
<1>2. \A i \in 1 .. Len(s) : s[i] # NULL
  BY ElementOfSeq, LinkedListAssumption
<1>3. \A k \in 0 .. N : walk[k] = IF k < Len(s) THEN s[k + 1] ELSE NULL
  BY DEF Visits
<1>4. K = 0 .. Len(s) - 1
  BY <1>1, <1>2, <1>3
<1>5. Cardinality(K) = Len(s)
  <2>1. 0 \in Int /\ Len(s) - 1 \in Int
    BY <1>1
  <2>2. Cardinality(0 .. Len(s) - 1)
            = IF 0 > Len(s) - 1 THEN 0 ELSE Len(s) - 1 - 0 + 1
    BY <2>1, FS_Interval
  <2>3. Cardinality(K) = Cardinality(0 .. Len(s) - 1)
    BY <1>4
  <2> QED BY <1>1, <2>2, <2>3
<1>6. NodesOf(walk) = [i \in 1 .. Len(s) |-> walk[i - 1]]
  BY <1>5 DEF NodesOf
<1>7. \A i \in 1 .. Len(s) : walk[i - 1] = s[i]
  BY <1>1, <1>3
<1> QED BY <1>6, <1>7, LenProperties

\* So the lists are determined by the pointers.
LEMMA ContentsAre ==
    ASSUME NEW hd, NEW tl, NEW ct, NEW nx, NEW c, Chained(hd, tl, ct, nx, c)
    PROVE  [l \in ListNames |-> NodesOf(WalkFrom(hd[l], nx))] = c
<1> SUFFICES ASSUME NEW l \in ListNames
             PROVE  NodesOf(WalkFrom(hd[l], nx)) = c[l]
  BY DEF Chained
<1>1. PICK s, walk : s = c[l] /\ walk = WalkFrom(HeadOf(s), nx)
  OBVIOUS
<1>2. /\ s \in Seq(Nodes) /\ IsInjectiveList(s) /\ Follows(nx, s)
      /\ walk = WalkFrom(hd[l], nx)
  BY <1>1 DEF Chained, Holds
<1>3. NodesOf(walk) = s
  BY <1>1, <1>2, WalkVisits, VisitedNodes
<1> QED BY <1>1, <1>2, <1>3

\* A list does not notice what happens to the next fields of other nodes.
LEMMA StillHolds ==
    ASSUME NEW h, NEW t, NEW n, NEW nx, NEW s, Holds(h, t, n, nx, s),
           NEW nx2, \A x \in Elems(s) : nx2[x] = nx[x]
    PROVE  Holds(h, t, n, nx2, s)
<1>1. \A i \in 1 .. Len(s) : s[i] \in Elems(s)
  BY DEF Elems
<1> QED BY <1>1 DEF Holds, Follows

NextFields == [Nodes -> Nodes \cup {NULL}]

\* The next fields after a node was linked behind tail t of a list with head h.
Linked(h, t, nx, item) ==
    IF h = NULL THEN [nx EXCEPT ![item] = NULL]
    ELSE [nx EXCEPT ![item] = NULL, ![t] = item]

\* Other nodes than those in S keep their next field.
SameElsewhere(nx, nx2, S) == \A x \in Nodes : x \notin S => nx2[x] = nx[x]

\* insertNode appends item to the list s.
Appending(h, t, n, nx, s, item, h2, n2, nx2) ==
    /\ Holds(h, t, n, nx, s) /\ nx \in NextFields
    /\ item \in Nodes /\ item \notin Elems(s)
    /\ h2 = (IF h = NULL THEN item ELSE h) /\ n2 = n + 1
    /\ nx2 = Linked(h, t, nx, item)

\* What insertNode does to the list it appends to, and to the other next fields.
LEMMA Appends ==
    ASSUME NEW h, NEW t, NEW n, NEW nx, NEW s, NEW item, NEW h2, NEW n2, NEW nx2,
           Appending(h, t, n, nx, s, item, h2, n2, nx2)
    PROVE  /\ nx2 \in NextFields
           /\ SameElsewhere(nx, nx2, Elems(s) \cup {item})
           /\ Holds(h2, item, n2, nx2, insertList(s, item))
<1> USE DEF Appending, SameElsewhere
<1> DEFINE new == insertList(s, item)
<1>1. /\ s \in Seq(Nodes) /\ IsInjectiveList(s) /\ Follows(nx, s) /\ Len(s) \in Nat
      /\ h = HeadOf(s) /\ t = LastOf(s) /\ n = Len(s)
  BY DEF Holds
<1>2. new \in Seq(Nodes) /\ IsInjectiveList(new)
  BY <1>1, FreshInsert
<1>3. /\ Len(new) = Len(s) + 1 /\ new[Len(s) + 1] = item
      /\ \A i \in 1 .. Len(s) : new[i] = s[i]
  BY <1>1 DEF insertList
<1>4. \A i \in 1 .. Len(s) : s[i] \in Nodes /\ s[i] # NULL /\ s[i] \in Elems(s)
  BY <1>1, ElementOfSeq, LinkedListAssumption DEF Elems
<1> HIDE DEF new
<1>5. CASE s = <<>>
  <2>1. h = NULL /\ nx2 = [nx EXCEPT ![item] = NULL]
    BY <1>1, <1>5 DEF HeadOf, Linked
  <2>2. Len(s) = 0
    BY <1>5
  <2>3. Follows(nx2, new)
    BY <1>3, <2>1, <2>2 DEF Follows, NextFields
  <2>4. HeadOf(new) = item /\ LastOf(new) = item
    <3>1. Len(new) = 1 /\ new[1] = item
      BY <1>3, <2>2
    <3>2. new # <<>> /\ Head(new) = new[1]
      BY <1>2, <3>1
    <3> QED BY <3>1, <3>2 DEF HeadOf, LastOf
  <2>5. nx2 \in NextFields /\ \A x \in Nodes : x # item => nx2[x] = nx[x]
    BY <2>1 DEF NextFields
  <2> QED BY <1>1, <1>2, <1>3, <2>1, <2>2, <2>3, <2>4, <2>5 DEF Holds, new
<1>6. CASE s # <<>>
  <2>1. /\ Len(s) \in 1 .. Len(s) /\ 1 \in 1 .. Len(s)
        /\ t = s[Len(s)] /\ h = s[1]
    BY <1>1, <1>6 DEF HeadOf, LastOf
  <2>2. h # NULL /\ t \in Nodes /\ t \in Elems(s) /\ t # item
    BY <1>4, <2>1
  <2>3. /\ nx2 \in NextFields /\ nx2[item] = NULL /\ nx2[t] = item
        /\ \A x \in Nodes : x # item /\ x # t => nx2[x] = nx[x]
    BY <2>2 DEF NextFields, Linked
  <2>4. Follows(nx2, new)
    <3> SUFFICES ASSUME NEW i \in 1 .. Len(new)
                 PROVE  nx2[new[i]] = IF i = Len(new) THEN NULL ELSE new[i + 1]
      BY DEF Follows
    <3>1. CASE i = Len(s) + 1
      BY <1>3, <2>3, <3>1
    <3>2. CASE i = Len(s)
      BY <1>1, <1>3, <2>1, <2>3, <3>2
    <3>3. CASE i \in 1 .. Len(s) /\ i # Len(s)
      <4>1. nx[s[i]] = s[i + 1] /\ s[i] # t /\ s[i] # item /\ s[i] \in Nodes
        BY <1>1, <1>4, <2>1, <3>3 DEF Follows, IsInjectiveList
      <4> QED BY <1>1, <1>3, <2>3, <3>3, <4>1
    <3> QED BY <1>1, <1>3, <3>1, <3>2, <3>3
  <2>5. HeadOf(new) = h /\ LastOf(new) = item
    BY <1>1, <1>2, <1>3, <2>1 DEF HeadOf, LastOf
  <2>6. \A x \in Nodes : x # item /\ x \notin Elems(s) => nx2[x] = nx[x]
    BY <2>2, <2>3
  <2> QED BY <1>1, <1>2, <1>3, <2>2, <2>3, <2>4, <2>5, <2>6 DEF Holds, new
<1> QED BY <1>5, <1>6

\* What unlink does to the pointers of its list and to the next fields.
Unlinked(h, t, nx, pre, cur, h2, t2, nx2) ==
    \/ cur = h /\ cur = t /\ h2 = NULL /\ t2 = NULL /\ nx2 = nx
    \/ cur = h /\ cur # t /\ h2 = nx[cur] /\ t2 = t /\ nx2 = nx
    \/ cur # h /\ cur = t /\ h2 = h /\ t2 = pre /\ nx2 = [nx EXCEPT ![pre] = NULL]
    \/ cur # h /\ cur # t /\ h2 = h /\ t2 = t /\ nx2 = [nx EXCEPT ![pre] = nx[cur]]

Unlinking(h, t, n, nx, s, k, h2, t2, n2, nx2) ==
    /\ Holds(h, t, n, nx, s) /\ nx \in NextFields
    /\ k \in 1 .. Len(s) /\ n2 = n - 1
    /\ Unlinked(h, t, nx, s[IF k = 1 THEN 1 ELSE k - 1], s[k], h2, t2, nx2)

\* Unlinking the k-th node, with the node before it as pre, takes exactly that
\* node off the list.
LEMMA Unlinks ==
    ASSUME NEW h, NEW t, NEW n, NEW nx, NEW s, NEW k, NEW h2, NEW t2, NEW n2, NEW nx2,
           Unlinking(h, t, n, nx, s, k, h2, t2, n2, nx2)
    PROVE  /\ nx2 \in NextFields
           /\ SameElsewhere(nx, nx2, Elems(s))
           /\ Holds(h2, t2, n2, nx2, removeList(s, s[k]))
<1> USE DEF Unlinking, SameElsewhere
<1> DEFINE new == removeList(s, s[k])
           m == Len(s)
           pre == s[IF k = 1 THEN 1 ELSE k - 1]
<1>1. /\ s \in Seq(Nodes) /\ IsInjectiveList(s) /\ m \in Nat /\ k \in 1 .. m
      /\ t = s[m] /\ h = s[1] /\ n = m /\ 1 \in 1 .. m /\ m \in 1 .. m
  <2>1. s # <<>>
    OBVIOUS
  <2> QED BY <2>1 DEF Holds, HeadOf, LastOf
<1>2. new \in Seq(Nodes) /\ IsInjectiveList(new)
  BY <1>1, RemoveProperties
<1>3. /\ Len(new) = m - 1
      /\ \A i \in 1 .. m - 1 : new[i] = IF i < k THEN s[i] ELSE s[i + 1]
  BY <1>1, RemoveShifts
<1>4. \A i \in 1 .. m : s[i] \in Nodes /\ s[i] # NULL /\ s[i] \in Elems(s)
  BY <1>1, ElementOfSeq, LinkedListAssumption DEF Elems
<1>5. \A i \in 1 .. m : nx[s[i]] = IF i = m THEN NULL ELSE s[i + 1]
  BY DEF Holds, Follows
<1>6. \A i, j \in 1 .. m : s[i] = s[j] => i = j
  BY <1>1 DEF IsInjectiveList
<1>7. (s[k] = h <=> k = 1) /\ (s[k] = t <=> k = m)
  BY <1>1, <1>6
<1> HIDE DEF new, m
<1>a. CASE k = 1 /\ k = m
  <2>1. h2 = NULL /\ t2 = NULL /\ nx2 = nx
    BY <1>7, <1>a DEF Unlinked
  <2>2. Len(new) = 0
    BY <1>3, <1>a
  <2>3. new = <<>>
    BY <1>2, <2>2
  <2>4. HeadOf(new) = NULL /\ LastOf(new) = NULL /\ Follows(nx2, new)
    BY <2>2, <2>3 DEF HeadOf, LastOf, Follows
  <2> QED BY <1>1, <1>2, <1>3, <2>1, <2>4 DEF Holds, new
<1>b. CASE k = 1 /\ k # m
  <2>1. h2 = nx[s[1]] /\ t2 = t /\ nx2 = nx
    BY <1>7, <1>b DEF Unlinked
  <2>2. /\ Len(new) = m - 1 /\ 1 \in 1 .. m - 1 /\ m - 1 \in 1 .. m - 1
        /\ \A i \in 1 .. m - 1 : new[i] = s[i + 1]
    BY <1>1, <1>3, <1>b
  <2>3. h2 = new[1] /\ t2 = new[m - 1]
    BY <1>1, <1>5, <1>b, <2>1, <2>2
  <2>4. HeadOf(new) = h2 /\ LastOf(new) = t2
    BY <1>2, <2>2, <2>3 DEF HeadOf, LastOf
  <2>5. Follows(nx2, new)
    BY <1>1, <1>5, <2>1, <2>2 DEF Follows
  <2> QED BY <1>1, <1>2, <2>1, <2>2, <2>4, <2>5 DEF Holds, new
<1>c. CASE k # 1 /\ k = m
  <2>0. pre = s[k - 1] /\ k - 1 \in 1 .. m /\ pre \in Nodes /\ pre \in Elems(s)
    <3>1. k - 1 \in 1 .. m /\ k # 1
      BY <1>1, <1>c
    <3>2. pre = s[k - 1]
      BY <3>1
    <3> HIDE DEF pre, Unlinking
    <3> QED BY <1>4, <3>1, <3>2
  <2>1. h2 = h /\ t2 = pre /\ nx2 = [nx EXCEPT ![pre] = NULL]
    BY <1>7, <1>c DEF Unlinked
  <2>2. /\ Len(new) = m - 1 /\ 1 \in 1 .. m - 1 /\ m - 1 \in 1 .. m - 1
        /\ \A i \in 1 .. m - 1 : new[i] = s[i]
    BY <1>1, <1>3, <1>c
  <2>3. HeadOf(new) = h2 /\ LastOf(new) = t2
    BY <1>1, <1>2, <1>c, <2>0, <2>1, <2>2 DEF HeadOf, LastOf
  <2>4. /\ nx2 \in NextFields /\ nx2[pre] = NULL
        /\ \A x \in Nodes : x # pre => nx2[x] = nx[x]
    BY <2>0, <2>1 DEF NextFields
  <2>5. Follows(nx2, new)
    <3> SUFFICES ASSUME NEW i \in 1 .. m - 1
                 PROVE  nx2[new[i]] = IF i = m - 1 THEN NULL ELSE new[i + 1]
      BY <2>2 DEF Follows
    <3>1. CASE i = m - 1
      BY <1>c, <2>0, <2>2, <2>4, <3>1
    <3>2. CASE i # m - 1
      <4>1. i \in 1 .. m /\ i # k - 1 /\ i # m /\ i + 1 \in 1 .. m - 1
        BY <1>1, <1>c, <3>2
      <4>2. s[i] # pre /\ s[i] \in Nodes /\ nx[s[i]] = s[i + 1]
        BY <1>4, <1>5, <1>6, <2>0, <4>1
      <4> QED BY <2>2, <2>4, <3>2, <4>1, <4>2
    <3> QED BY <3>1, <3>2
  <2> QED BY <1>1, <1>2, <2>0, <2>1, <2>2, <2>3, <2>4, <2>5 DEF Holds, new
<1>d. CASE k # 1 /\ k # m
  <2>0. /\ pre = s[k - 1] /\ k - 1 \in 1 .. m /\ pre \in Nodes /\ pre \in Elems(s)
        /\ k + 1 \in 1 .. m /\ s[k + 1] \in Nodes /\ nx[s[k]] = s[k + 1]
    <3>1. k - 1 \in 1 .. m /\ k + 1 \in 1 .. m /\ k \in 1 .. m /\ k # 1 /\ k # m
      BY <1>1, <1>d
    <3>2. pre = s[k - 1]
      BY <3>1
    <3> HIDE DEF pre, Unlinking
    <3> QED BY <1>4, <1>5, <3>1, <3>2
  <2>1. h2 = h /\ t2 = t /\ nx2 = [nx EXCEPT ![pre] = s[k + 1]]
    BY <1>7, <1>d, <2>0 DEF Unlinked
  <2>2. /\ Len(new) = m - 1 /\ 1 \in 1 .. m - 1 /\ m - 1 \in 1 .. m - 1
        /\ new[1] = s[1] /\ new[m - 1] = s[m]
    <3>1. /\ 1 \in 1 .. m - 1 /\ m - 1 \in 1 .. m - 1 /\ 1 < k
          /\ ~(m - 1 < k) /\ (m - 1) + 1 = m
      BY <1>1, <1>d
    <3> QED BY <1>3, <3>1
  <2>3. HeadOf(new) = h2 /\ LastOf(new) = t2
    BY <1>1, <1>2, <2>1, <2>2 DEF HeadOf, LastOf
  <2>4. /\ nx2 \in NextFields /\ nx2[pre] = s[k + 1]
        /\ \A x \in Nodes : x # pre => nx2[x] = nx[x]
    BY <2>0, <2>1 DEF NextFields
  <2>5. Follows(nx2, new)
    <3> SUFFICES ASSUME NEW i \in 1 .. m - 1
                 PROVE  nx2[new[i]] = IF i = m - 1 THEN NULL ELSE new[i + 1]
      BY <2>2 DEF Follows
    <3>1. CASE i = k - 1
      <4>1. /\ i < k /\ ~(i + 1 < k) /\ i + 1 \in 1 .. m - 1 /\ i # m - 1
            /\ (i + 1) + 1 = k + 1
        BY <1>1, <1>d, <3>1
      <4>2. new[i] = pre /\ new[i + 1] = s[k + 1]
        BY <1>3, <2>0, <3>1, <4>1
      <4> QED BY <2>4, <4>1, <4>2
    <3>2. CASE i < k - 1
      <4>1. /\ i \in 1 .. m /\ i + 1 \in 1 .. m - 1 /\ i # k - 1 /\ i # m
            /\ i < k /\ i + 1 < k /\ i # m - 1
        BY <1>1, <1>d, <3>2
      <4>2. s[i] # pre /\ s[i] \in Nodes /\ nx[s[i]] = s[i + 1]
        BY <1>4, <1>5, <1>6, <2>0, <4>1
      <4> QED BY <1>3, <2>4, <4>1, <4>2
    <3>3. CASE i > k - 1
      <4>1. i + 1 \in 1 .. m /\ i + 1 # k - 1 /\ ~(i < k) /\ (i = m - 1 <=> i + 1 = m)
        BY <1>1, <1>d, <3>3
      <4>2. /\ s[i + 1] # pre /\ s[i + 1] \in Nodes
            /\ nx[s[i + 1]] = IF i + 1 = m THEN NULL ELSE s[(i + 1) + 1]
        BY <1>4, <1>5, <1>6, <2>0, <4>1
      <4>3. new[i] = s[i + 1] /\ nx2[new[i]] = nx[s[i + 1]]
        BY <1>3, <2>4, <4>1, <4>2
      <4>4. i # m - 1 => new[i + 1] = s[(i + 1) + 1]
        <5>1. i # m - 1 => i + 1 \in 1 .. m - 1 /\ ~(i + 1 < k)
          BY <1>1, <3>3, <4>1
        <5> QED BY <1>3, <5>1
      <4> QED BY <4>1, <4>2, <4>3, <4>4
    <3> QED BY <1>1, <3>1, <3>2, <3>3
  <2>6. \A x \in Nodes : x \notin Elems(s) => nx2[x] = nx[x]
    BY <2>0, <2>4
  <2> QED BY <1>1, <1>2, <2>1, <2>2, <2>3, <2>4, <2>5, <2>6 DEF Holds, new
<1> QED BY <1>a, <1>b, <1>c, <1>d

\* One list changes to s2, and the next fields of the other lists stay.
LEMMA OneChanges ==
    ASSUME NEW hd, NEW tl, NEW ct, NEW nx, NEW c, Chained(hd, tl, ct, nx, c),
           DOMAIN hd = ListNames, DOMAIN tl = ListNames, DOMAIN ct = ListNames,
           NEW l \in ListNames, NEW h2, NEW t2, NEW n2, NEW nx2, NEW s2,
           Holds(h2, t2, n2, nx2, s2),
           \A k \in ListNames \ {l} : /\ \A x \in Elems(c[k]) : nx2[x] = nx[x]
                                     /\ Elems(s2) \cap Elems(c[k]) = {}
    PROVE  Chained([hd EXCEPT ![l] = h2], [tl EXCEPT ![l] = t2], [ct EXCEPT ![l] = n2],
                   nx2, [c EXCEPT ![l] = s2])
<1>1. \A k \in ListNames \ {l} : Holds(hd[k], tl[k], ct[k], nx2, c[k])
  BY StillHolds DEF Chained
<1>2. DOMAIN c = ListNames /\ \A a, b \in ListNames : a # b => Elems(c[a]) \cap Elems(c[b]) = {}
  BY DEF Chained
<1> DEFINE hd2 == [hd EXCEPT ![l] = h2]
           tl2 == [tl EXCEPT ![l] = t2]
           ct2 == [ct EXCEPT ![l] = n2]
           c2 == [c EXCEPT ![l] = s2]
<1>3. /\ hd2[l] = h2 /\ tl2[l] = t2 /\ ct2[l] = n2 /\ c2[l] = s2
      /\ c2 = [k \in ListNames |-> c2[k]]
      /\ \A k \in ListNames \ {l} : /\ hd2[k] = hd[k] /\ tl2[k] = tl[k]
                                    /\ ct2[k] = ct[k] /\ c2[k] = c[k]
  BY <1>2
<1> HIDE DEF hd2, tl2, ct2, c2
<1>4. \A k \in ListNames : Holds(hd2[k], tl2[k], ct2[k], nx2, c2[k])
  BY <1>1, <1>3
<1>5. \A a, b \in ListNames : a # b => Elems(c2[a]) \cap Elems(c2[b]) = {}
  BY <1>2, <1>3
<1> QED BY <1>3, <1>4, <1>5 DEF Chained, hd2, tl2, ct2, c2

\* Head and tail are nodes or NULL, and the count is a number.
LEMMA HoldsTypes ==
    ASSUME NEW h, NEW t, NEW n, NEW nx, NEW s, Holds(h, t, n, nx, s)
    PROVE  /\ h \in Nodes \cup {NULL} /\ t \in Nodes \cup {NULL} /\ n \in Nat
           /\ n = 0 <=> s = <<>>
           /\ n # 0 => h \in Elems(s) /\ h \in Nodes
<1>1. s \in Seq(Nodes) /\ h = HeadOf(s) /\ t = LastOf(s) /\ n = Len(s)
  BY DEF Holds
<1>2. CASE s = <<>>
  BY <1>1, <1>2 DEF HeadOf, LastOf
<1>3. CASE s # <<>>
  <2>1. h = s[1] /\ t = s[Len(s)] /\ 1 \in 1 .. Len(s) /\ Len(s) \in 1 .. Len(s)
    BY <1>1, <1>3 DEF HeadOf, LastOf
  <2> QED BY <1>1, <1>3, <2>1, ElementOfSeq DEF Elems
<1> QED BY <1>2, <1>3

-----------------------------------------------------------------------------
\* The inductive invariant: the pointers hold the lists their walks visit.
ListInv == ListTypeOK /\ Chained(head, tail, count, next, Contents)

LEMMA ContentsFromWalks ==
    Contents = [l \in ListNames |-> NodesOf(WalkFrom(head[l], next))]
BY DEF Contents, ContentsOf, NodesOf, Walk, WalkFrom

\* The pointers after a step hold the lists their walks visit.
LEMMA ContentsAfter ==
    ASSUME NEW c, Chained(head', tail', count', next', c)
    PROVE  Contents' = c
<1>1. Contents' = [l \in ListNames |-> NodesOf(WalkFrom(head'[l], next'))]
  BY DEF Contents, ContentsOf, NodesOf, Walk, WalkFrom
<1>2. PICK hd, tl, ct, nx : hd = head' /\ tl = tail' /\ ct = count' /\ nx = next'
  OBVIOUS
<1>3. Chained(hd, tl, ct, nx, c)
  BY <1>2
<1>4. [l \in ListNames |-> NodesOf(WalkFrom(hd[l], nx))] = c
  BY <1>3, ContentsAre
<1> QED BY <1>1, <1>2, <1>4

\* A call that turns one list into s2 keeps the invariant.
LEMMA ListChanges ==
    ASSUME ListInv, NEW l \in ListNames, NEW h2, NEW t2, NEW n2, NEW s2,
           Holds(h2, t2, n2, next', s2), next' \in NextFields,
           \A k \in ListNames \ {l} : /\ \A x \in Elems(Contents[k]) : next'[x] = next[x]
                                     /\ Elems(s2) \cap Elems(Contents[k]) = {},
           head' = [head EXCEPT ![l] = h2], tail' = [tail EXCEPT ![l] = t2],
           count' = [count EXCEPT ![l] = n2], result' \in Nodes \cup {NULL}
    PROVE  ListInv' /\ Contents' = [Contents EXCEPT ![l] = s2]
<1>1. PICK hd, tl, ct, nx, c, nx2 :
         /\ hd = head /\ tl = tail /\ ct = count /\ nx = next /\ c = Contents
         /\ nx2 = next'
  OBVIOUS
<1>2. /\ Chained(hd, tl, ct, nx, c) /\ Holds(h2, t2, n2, nx2, s2)
      /\ DOMAIN hd = ListNames /\ DOMAIN tl = ListNames /\ DOMAIN ct = ListNames
      /\ \A k \in ListNames \ {l} : /\ \A x \in Elems(c[k]) : nx2[x] = nx[x]
                                    /\ Elems(s2) \cap Elems(c[k]) = {}
  BY <1>1 DEF ListInv, ListTypeOK
<1>3. Chained([hd EXCEPT ![l] = h2], [tl EXCEPT ![l] = t2], [ct EXCEPT ![l] = n2],
              nx2, [c EXCEPT ![l] = s2])
  BY <1>2, OneChanges
<1>4. Chained(head', tail', count', next', [c EXCEPT ![l] = s2])
  BY <1>1, <1>3
<1>5. Contents' = [c EXCEPT ![l] = s2]
  BY <1>4, ContentsAfter
<1>6. h2 \in Nodes \cup {NULL} /\ t2 \in Nodes \cup {NULL} /\ n2 \in Nat
  BY <1>2, HoldsTypes
<1>7. ListTypeOK'
  BY <1>6 DEF ListInv, ListTypeOK, NextFields
<1> QED BY <1>1, <1>4, <1>5, <1>7 DEF ListInv

\* What the invariant says of one list.
LEMMA ListHolds ==
    ASSUME ListInv, NEW l \in ListNames
    PROVE  /\ Holds(head[l], tail[l], count[l], next, Contents[l])
           /\ next \in NextFields
           /\ Visits(Walk(l), Contents[l])
<1>1. Holds(head[l], tail[l], count[l], next, Contents[l]) /\ next \in NextFields
  BY DEF ListInv, ListTypeOK, Chained, NextFields
<1>2. PICK s, nx, walk : s = Contents[l] /\ nx = next /\ walk = Walk(l)
  OBVIOUS
<1>3. walk = WalkFrom(HeadOf(s), nx)
  BY <1>1, <1>2 DEF Walk, WalkFrom, Holds
<1>4. s \in Seq(Nodes) /\ IsInjectiveList(s) /\ Follows(nx, s)
  BY <1>1, <1>2 DEF Holds
<1>5. Visits(walk, s)
  BY <1>3, <1>4, WalkVisits
<1> QED BY <1>1, <1>2, <1>5

\* insertNode appends, to a list that no list shares a node with.
LEMMA InsertStep ==
    ASSUME ListInv, NEW l \in ListNames, NEW item \in Nodes,
           \A k \in ListNames : item \notin Elems(Contents[k]),
           insertNode(l, item)
    PROVE  ListInv' /\ Contents' = [Contents EXCEPT ![l] = insertList(@, item)]
<1>1. PICK h, t, n, nx, s, nx2, h2, n2 :
         /\ h = head[l] /\ t = tail[l] /\ n = count[l] /\ nx = next /\ s = Contents[l]
         /\ h2 = (IF h = NULL THEN item ELSE h) /\ n2 = n + 1
         /\ nx2 = Linked(h, t, nx, item)
  OBVIOUS
<1>2. Holds(h, t, n, nx, s) /\ nx \in NextFields /\ item \notin Elems(s)
  BY <1>1, ListHolds
<1> DEFINE s2 == insertList(s, item)
<1>3. /\ nx2 \in NextFields /\ Holds(h2, item, n2, nx2, s2)
      /\ SameElsewhere(nx, nx2, Elems(s) \cup {item})
  <2>1. Appending(h, t, n, nx, s, item, h2, n2, nx2)
    BY <1>1, <1>2 DEF Appending
  <2> QED BY <2>1, Appends
<1>4. /\ head' = [head EXCEPT ![l] = h2] /\ tail' = [tail EXCEPT ![l] = item]
      /\ count' = [count EXCEPT ![l] = n2] /\ next' = nx2 /\ result' = result
  <2>1. head \in [ListNames -> Nodes \cup {NULL}]
    BY DEF ListInv, ListTypeOK
  <2> QED BY <1>1, <2>1 DEF insertNode, Linked
<1>5. s \in Seq(Nodes) /\ Elems(s2) = Elems(s) \cup {item}
  BY <1>2, InsertProperties DEF Holds
<1> HIDE DEF s2
<1>6. ASSUME NEW k \in ListNames \ {l}
      PROVE  /\ \A x \in Elems(Contents[k]) : next'[x] = next[x]
             /\ Elems(s2) \cap Elems(Contents[k]) = {}
  <2>1. Contents[k] \in Seq(Nodes) /\ Elems(s) \cap Elems(Contents[k]) = {}
    BY <1>1 DEF ListInv, Chained, Holds
  <2>2. Elems(Contents[k]) \subseteq Nodes
    BY <2>1, ElemsInSet
  <2> QED BY <1>1, <1>3, <1>4, <1>5, <2>1, <2>2 DEF SameElsewhere
<1>7. result' \in Nodes \cup {NULL}
  BY <1>4 DEF ListInv, ListTypeOK
<1>8. ListInv' /\ Contents' = [Contents EXCEPT ![l] = s2]
  BY <1>3, <1>4, <1>6, <1>7, ListChanges
<1> QED BY <1>1, <1>8 DEF s2

\* removeNode's walk finds the node with the id, and the node before it.
LEMMA RemoveFinds ==
    ASSUME ListInv, NEW l \in ListNames, NEW id \in Nodes, removeNode(l, id)
    PROVE  \/ /\ id \notin Elems(Contents[l])
              /\ result' = NULL /\ UNCHANGED <<head, tail, count, next>>
           \/ \E k \in 1 .. Len(Contents[l]) :
                /\ Contents[l][k] = id
                /\ unlink(l, Contents[l][IF k = 1 THEN 1 ELSE k - 1], id)
<1>1. PICK s, walk, N : s = Contents[l] /\ walk = Walk(l) /\ N = Cardinality(Nodes)
  OBVIOUS
<1>2. /\ s \in Seq(Nodes) /\ IsInjectiveList(s) /\ Len(s) \in Nat /\ N \in Nat
      /\ Len(s) <= N /\ \A k \in 0 .. N : walk[k] = IF k < Len(s) THEN s[k + 1] ELSE NULL
  <2>1. s \in Seq(Nodes) /\ IsInjectiveList(s)
    BY <1>1, ListHolds DEF Holds
  <2> QED BY <1>1, <2>1, ShortList, ListHolds DEF Visits
<1>3. id # NULL
  BY LinkedListAssumption
<1>4. Hits(l, id) = {k \in 0 .. N : walk[k] = id}
  BY <1>1 DEF Hits
<1>5. CASE id \notin Elems(s)
  <2>1. \A k \in 0 .. N : walk[k] # id
    BY <1>2, <1>3, <1>5 DEF Elems
  <2>2. Hits(l, id) = {}
    BY <1>4, <2>1
  <2> QED BY <1>1, <1>5, <2>2 DEF removeNode
<1>6. CASE id \in Elems(s)
  <2>1. PICK j \in 1 .. Len(s) : s[j] = id
    BY <1>6 DEF Elems
  <2>2. \A k \in 0 .. N : walk[k] = id <=> k = j - 1
    <3> SUFFICES ASSUME NEW k \in 0 .. N PROVE walk[k] = id <=> k = j - 1
      OBVIOUS
    <3>1. CASE k < Len(s)
      <4>1. k + 1 \in 1 .. Len(s) /\ walk[k] = s[k + 1]
        BY <1>2, <3>1
      <4>2. s[k + 1] = s[j] <=> k + 1 = j
        BY <1>2, <2>1, <4>1 DEF IsInjectiveList
      <4> QED BY <1>2, <2>1, <4>1, <4>2
    <3>2. CASE ~(k < Len(s))
      BY <1>2, <1>3, <2>1, <3>2
    <3> QED BY <3>1, <3>2
  <2>3. j - 1 \in 0 .. N
    BY <1>2, <2>1
  <2>4. Hits(l, id) = {j - 1}
    BY <1>4, <2>2, <2>3
  <2>5. (CHOOSE k \in Hits(l, id) : \A i \in Hits(l, id) : k <= i) = j - 1
    BY <1>2, <2>1, <2>3, <2>4
  <2>6. unlink(l, Walk(l)[IF j - 1 = 0 THEN 0 ELSE (j - 1) - 1], Walk(l)[j - 1])
    BY <2>4, <2>5, Zenon DEF removeNode
  <2>7. walk[j - 1] = id
    BY <2>2, <2>3
  <2>8. walk[IF j - 1 = 0 THEN 0 ELSE (j - 1) - 1] = s[IF j = 1 THEN 1 ELSE j - 1]
    BY <1>2, <2>1
  <2>9. unlink(l, s[IF j = 1 THEN 1 ELSE j - 1], id)
    BY <1>1, <2>6, <2>7, <2>8
  <2> QED BY <1>1, <2>1, <2>9
<1> QED BY <1>5, <1>6

\* removeNode takes the node off its list, or does nothing.
LEMMA RemoveStep ==
    ASSUME ListInv, NEW l \in ListNames, NEW id \in Nodes, removeNode(l, id)
    PROVE  /\ ListInv'
           /\ Contents' = [Contents EXCEPT ![l] = removeList(@, id)]
           /\ result' = IF id \in Elems(Contents[l]) THEN id ELSE NULL
<1>1. CASE /\ id \notin Elems(Contents[l])
           /\ result' = NULL /\ UNCHANGED <<head, tail, count, next>>
  <2>1. Contents' = Contents
    BY <1>1 DEF Contents, ContentsOf, Walk
  <2>2. ListInv'
    BY <1>1, <2>1 DEF ListInv, ListTypeOK
  <2>3. DOMAIN Contents = ListNames /\ removeList(Contents[l], id) = Contents[l]
        /\ Contents = [k \in ListNames |-> Contents[k]]
    BY <1>1 DEF ListInv, Chained, removeList
  <2>4. Contents = [Contents EXCEPT ![l] = removeList(@, id)]
    BY <2>3
  <2> QED BY <1>1, <2>1, <2>2, <2>4
<1>2. ASSUME NEW k \in 1 .. Len(Contents[l]), Contents[l][k] = id,
             unlink(l, Contents[l][IF k = 1 THEN 1 ELSE k - 1], id)
      PROVE  /\ ListInv'
             /\ Contents' = [Contents EXCEPT ![l] = removeList(@, id)]
             /\ id \in Elems(Contents[l]) /\ result' = id
  <2>1. PICK h, t, n, nx, s, pre, h2, t2, nx2, n2 :
           /\ n2 = n - 1 /\ h = head[l] /\ t = tail[l] /\ n = count[l] /\ nx = next /\ s = Contents[l]
           /\ pre = s[IF k = 1 THEN 1 ELSE k - 1]
           /\ h2 = head'[l] /\ t2 = tail'[l] /\ nx2 = next'
    OBVIOUS
  <2>2. Holds(h, t, n, nx, s) /\ nx \in NextFields
    BY <2>1, ListHolds
  <2>3. /\ head \in [ListNames -> Nodes \cup {NULL}]
        /\ tail \in [ListNames -> Nodes \cup {NULL}]
    BY DEF ListInv, ListTypeOK
  <2>4. unlink(l, pre, id) /\ s[k] = id
    BY <1>2, <2>1
  <2>5. Unlinked(h, t, nx, pre, id, h2, t2, nx2)
    BY <2>1, <2>3, <2>4 DEF unlink, Unlinked
  <2>6. head' = [head EXCEPT ![l] = h2] /\ tail' = [tail EXCEPT ![l] = t2]
    BY <2>1, <2>3, <2>4 DEF unlink
  <2>7. /\ nx2 \in NextFields /\ Holds(h2, t2, n2, nx2, removeList(s, id))
        /\ SameElsewhere(nx, nx2, Elems(s))
    <3>1. Unlinking(h, t, n, nx, s, k, h2, t2, n2, nx2)
      BY <2>1, <2>2, <2>4, <2>5 DEF Unlinking
    <3> QED BY <2>4, <3>1, Unlinks
  <2>8. count' = [count EXCEPT ![l] = n2] /\ result' = id
    BY <2>1, <2>4 DEF unlink
  <2>9. ASSUME NEW m \in ListNames \ {l}
        PROVE  /\ \A x \in Elems(Contents[m]) : next'[x] = next[x]
               /\ Elems(removeList(s, id)) \cap Elems(Contents[m]) = {}
    <3>1. Contents[m] \in Seq(Nodes) /\ Elems(s) \cap Elems(Contents[m]) = {}
      BY <2>1 DEF ListInv, Chained, Holds
    <3>2. Elems(Contents[m]) \subseteq Nodes
      BY <3>1, ElemsInSet
    <3>3. Elems(removeList(s, id)) \subseteq Elems(s)
      BY <2>2, RemoveProperties DEF Holds
    <3> QED BY <2>1, <2>7, <3>1, <3>2, <3>3 DEF SameElsewhere
  <2>10. ListInv' /\ Contents' = [Contents EXCEPT ![l] = removeList(s, id)]
    <3>1. PICK s2 : s2 = removeList(s, id)
      OBVIOUS
    <3>2. /\ Holds(h2, t2, n2, next', s2) /\ next' \in NextFields
          /\ result' \in Nodes \cup {NULL}
      BY <2>1, <2>7, <2>8, <3>1
    <3>3. \A m \in ListNames \ {l} : /\ \A x \in Elems(Contents[m]) : next'[x] = next[x]
                                    /\ Elems(s2) \cap Elems(Contents[m]) = {}
      BY <2>9, <3>1
    <3>4. ListInv' /\ Contents' = [Contents EXCEPT ![l] = s2]
      BY <2>6, <2>8, <3>2, <3>3, ListChanges
    <3> QED BY <3>1, <3>4
  <2>11. id \in Elems(Contents[l])
    BY <1>2 DEF Elems
  <2> QED BY <2>1, <2>8, <2>10, <2>11
<1> QED BY <1>1, <1>2, RemoveFinds

\* removeHead removes by the id of the head, which is the first node.
LEMMA RemoveHeadStep ==
    ASSUME ListInv, NEW l \in ListNames, removeHead(l)
    PROVE  /\ ListInv'
           /\ Contents' = [Contents EXCEPT ![l] = HeadRemove(@)]
           /\ result' = HeadOf(Contents[l])
<1>1. /\ Holds(head[l], tail[l], count[l], next, Contents[l])
      /\ head[l] = HeadOf(Contents[l])
      /\ Contents = [k \in ListNames |-> Contents[k]]
  BY ListHolds DEF Holds, ListInv, Chained
<1>2. CASE count[l] = 0
  <2>1. Contents[l] = <<>>
    BY <1>1, <1>2, HoldsTypes
  <2>2. result' = NULL /\ UNCHANGED <<head, tail, count, next>>
    BY <1>2 DEF removeHead
  <2>3. Contents' = Contents
    BY <2>2 DEF Contents, ContentsOf, Walk
  <2>4. ListInv'
    BY <2>2, <2>3 DEF ListInv, ListTypeOK
  <2>5. HeadRemove(Contents[l]) = Contents[l] /\ HeadOf(Contents[l]) = NULL
    BY <2>1, EmptyProperties
  <2> QED BY <1>1, <2>2, <2>3, <2>4, <2>5
<1>3. CASE count[l] # 0
  <2>1. /\ Contents[l] # <<>> /\ head[l] \in Elems(Contents[l]) /\ head[l] \in Nodes
    BY <1>1, <1>3, HoldsTypes
  <2>2. removeNode(l, head[l])
    BY <1>3 DEF removeHead
  <2>3. /\ ListInv'
        /\ Contents' = [Contents EXCEPT ![l] = removeList(@, head[l])]
        /\ result' = head[l]
    BY <2>1, <2>2, RemoveStep
  <2>4. HeadRemove(Contents[l]) = removeList(Contents[l], head[l])
    BY <1>1, <2>1 DEF HeadRemove, HeadOf
  <2> QED BY <1>1, <2>3, <2>4
<1> QED BY <1>2, <1>3

LEMMA ListInit ==
    initList => ListInv /\ Contents = [l \in ListNames |-> <<>>]
<1> SUFFICES ASSUME initList
             PROVE  ListInv /\ Contents = [l \in ListNames |-> <<>>]
  OBVIOUS
<1>1. ListTypeOK
  BY DEF initList, ListTypeOK
<1>2. PICK hd, tl, ct, nx, c :
         /\ hd = head /\ tl = tail /\ ct = count /\ nx = next
         /\ c = [l \in ListNames |-> <<>>]
  OBVIOUS
<1>3. \A l \in ListNames :
        hd[l] = NULL /\ tl[l] = NULL /\ ct[l] = 0 /\ c[l] = <<>>
  BY <1>2 DEF initList
<1>4. Holds(NULL, NULL, 0, nx, <<>>)
  BY EmptyProperties DEF Holds, Follows, LastOf
<1>5. Chained(hd, tl, ct, nx, c)
  BY <1>2, <1>3, <1>4, EmptyProperties DEF Chained
<1>6. [l \in ListNames |-> NodesOf(WalkFrom(hd[l], nx))] = c
  BY <1>5, ContentsAre
<1>7. Contents = c
  BY <1>2, <1>6, ContentsFromWalks
<1> QED BY <1>1, <1>2, <1>5, <1>7 DEF ListInv

\* Every call does to the sequences what ListSpec says.
LEMMA ListStep ==
    ASSUME ListInv, ListNext
    PROVE  ListInv' /\ AbsLists!Next
<1>1. PICK l \in ListNames :
        \/ \E n \in Nodes : /\ \A k \in ListNames : n \notin Elems(Contents[k])
                            /\ insertNode(l, n)
        \/ \E n \in Nodes : removeNode(l, n)
        \/ removeHead(l)
  BY DEF ListNext
<1>2. ASSUME NEW n \in Nodes, \A k \in ListNames : n \notin Elems(Contents[k]),
             insertNode(l, n)
      PROVE  ListInv' /\ AbsLists!Insert(l, n)
  <2>1. ListInv' /\ Contents' = [Contents EXCEPT ![l] = insertList(@, n)]
    BY <1>2, InsertStep
  <2>2. UNCHANGED result
    BY <1>2 DEF insertNode
  <2> QED BY <1>2, <2>1, <2>2 DEF AbsLists!Insert, AbsLists!insertList, AbsLists!Elems,
             insertList, Elems
<1>3. ASSUME NEW n \in Nodes, removeNode(l, n)
      PROVE  ListInv' /\ AbsLists!RemoveById(l, n)
  <2>1. /\ ListInv'
        /\ Contents' = [Contents EXCEPT ![l] = removeList(@, n)]
        /\ result' = IF n \in Elems(Contents[l]) THEN n ELSE NULL
    BY <1>3, RemoveStep
  <2> QED BY <2>1 DEF AbsLists!RemoveById, AbsLists!removeList, AbsLists!Elems,
             AbsLists!FirstAt, AbsLists!NULL, AbsLists!RemoveAt, removeList, Elems, FirstAt,
             NULL, RemoveAt
<1>4. ASSUME removeHead(l)
      PROVE  ListInv' /\ AbsLists!RemoveHead(l)
  <2>1. /\ ListInv'
        /\ Contents' = [Contents EXCEPT ![l] = HeadRemove(@)]
        /\ result' = HeadOf(Contents[l])
    BY <1>4, RemoveHeadStep
  <2> QED BY <2>1 DEF AbsLists!RemoveHead, AbsLists!HeadRemove, AbsLists!HeadOf,
             AbsLists!removeList, AbsLists!Elems, AbsLists!FirstAt, AbsLists!NULL, AbsLists!RemoveAt,
             HeadRemove, HeadOf, removeList, Elems, FirstAt, NULL, RemoveAt
<1> QED BY <1>1, <1>2, <1>3, <1>4, Zenon DEF AbsLists!Next

LEMMA ListStutter ==
    ASSUME UNCHANGED listVars
    PROVE  (ListInv => ListInv') /\ UNCHANGED <<Contents, result>>
<1>1. UNCHANGED <<head, tail, count, next, result>>
  BY DEF listVars
<1>2. Contents' = Contents
  BY <1>1 DEF Contents, ContentsOf, Walk
<1> QED BY <1>1, <1>2 DEF ListInv, ListTypeOK

LEMMA ListInvAlways == ListsSpec => []ListInv
<1>1. initList => ListInv
  BY ListInit
<1>2. ListInv /\ [ListNext]_listVars => ListInv'
  BY ListStep, ListStutter
<1> QED BY <1>1, <1>2, PTL DEF ListsSpec

\* LinkedList.c: whatever is inserted and removed, a walk along a list ends,
\* its tail and its count are right, and two lists share no node.
THEOREM ChainOKAlways == ListsSpec => []ChainOK
<1>1. ListInv => ChainOK
  <2> SUFFICES ASSUME ListInv PROVE ChainOK
    OBVIOUS
  <2>1. ListTypeOK
    BY DEF ListInv
  <2>2. ASSUME NEW l \in ListNames
        PROVE  /\ Walk(l)[Cardinality(Nodes)] = NULL
               /\ count[l] = Len(Contents[l])
               /\ tail[l] = IF Contents[l] = <<>> THEN NULL ELSE Last(Contents[l])
               /\ \A k \in ListNames \ {l} : Elems(Contents[l]) \cap Elems(Contents[k]) = {}
    <3>1. /\ Holds(head[l], tail[l], count[l], next, Contents[l])
          /\ Visits(Walk(l), Contents[l])
      BY ListHolds
    <3>2. /\ Contents[l] \in Seq(Nodes) /\ IsInjectiveList(Contents[l])
          /\ count[l] = Len(Contents[l]) /\ tail[l] = LastOf(Contents[l])
      BY <3>1 DEF Holds
    <3>3. /\ Len(Contents[l]) \in Nat /\ Cardinality(Nodes) \in Nat
          /\ Len(Contents[l]) <= Cardinality(Nodes)
      BY <3>2, ShortList
    <3>4. Walk(l)[Cardinality(Nodes)] = NULL
      BY <3>1, <3>3 DEF Visits
    <3> QED BY <3>2, <3>4 DEF LastOf, Last, ListInv, Chained
  <2> QED BY <2>1, <2>2 DEF ChainOK
<1> QED BY <1>1, ListInvAlways, PTL

\* The pointer code of LinkedList.c computes the sequence operators that the
\* model of the scheduler uses for its lists.
THEOREM LinkedListImplements == ListsSpec => ImplementsLists
<1>1. initList => AbsLists!Init
  BY ListInit DEF AbsLists!Init, initList, AbsLists!NULL, NULL
<1>2. ListInv /\ [ListNext]_listVars => [AbsLists!Next]_<<Contents, result>>
  BY ListStep, ListStutter
<1> QED BY <1>1, <1>2, ListInvAlways, PTL DEF ListsSpec, ImplementsLists, AbsLists!Spec

-----------------------------------------------------------------------------
(* The editor.                                                             *)

\* The string at the beginning of b has n characters.
StringLength(b, n) ==
    /\ b \in Cluster /\ n \in 0 .. BUF - 1
    /\ b[n] = NUL /\ \A i \in 0 .. n - 1 : b[i] # NUL

\* The first n characters of b.
FirstOf(b, n) == [i \in 1 .. n |-> b[i - 1]]

\* The inductive invariant: strIdx is where the text in the buffer ends, and the
\* cluster has a text that ends too, which need not be fileSize long.
TextInv ==
    /\ StringLength(buffer, strIdx)
    /\ StringLength(cluster, strlen(cluster))
    /\ fileSize \in -1 .. BUF - 1

LEMMA StringOf ==
    ASSUME NEW b, NEW n, StringLength(b, n)
    PROVE  strlen(b) = n /\ stringIn(b) = FirstOf(b, n)
<1>1. DOMAIN b = 0 .. BUF - 1 /\ BUF \in Nat \ {0}
  BY TerminalAssumption DEF StringLength, Cluster
<1>2. ASSUME NEW m \in DOMAIN b, b[m] = NUL, \A i \in 0 .. m - 1 : b[i] # NUL
      PROVE  m = n
  <2>1. ~(m < n) /\ ~(n < m)
    BY <1>1, <1>2 DEF StringLength
  <2> QED BY <1>1, <2>1 DEF StringLength
<1>3. strlen(b) = n
  BY <1>1, <1>2 DEF strlen, StringLength
<1> QED BY <1>3 DEF stringIn, FirstOf

LEMMA OldTextEnds == \A b \in OldTexts : StringLength(b, strlen(b))
<1> SUFFICES ASSUME NEW b \in OldTexts PROVE StringLength(b, strlen(b))
  OBVIOUS
<1>1. PICK n \in 0 .. BUF - 1 : StringLength(b, n)
  BY OldTextAssumption DEF StringLength
<1> QED BY <1>1, StringOf

LEMMA EmptyString ==
    StringLength(EmptyFile, 0) /\ \A b : FirstOf(b, 0) = <<>>
BY TerminalAssumption DEF StringLength, EmptyFile, Cluster, FirstOf

\* text is the string of length n at the beginning of b, as a sequence.
IsText(text, b, n) ==
    /\ text \in Seq(Chars \cup {NUL, Space}) /\ Len(text) = n /\ n \in Nat
    /\ \A i \in 1 .. n : text[i] = b[i - 1]

LEMMA TextIsSeq ==
    ASSUME NEW b, NEW n, StringLength(b, n)
    PROVE  IsText(FirstOf(b, n), b, n)
<1>1. n \in Nat /\ n <= BUF - 1 /\ BUF \in Nat
  BY TerminalAssumption DEF StringLength
<1>2. \A i \in 1 .. n : b[i - 1] \in Chars \cup {NUL, Space}
  BY <1>1 DEF StringLength, Cluster
<1> QED BY <1>1, <1>2 DEF FirstOf, IsText

LEMMA LengthFacts ==
    ASSUME NEW b, NEW n, StringLength(b, n)
    PROVE  n \in Nat /\ n <= BUF - 1 /\ BUF \in Nat /\ b \in Cluster /\ b[n] = NUL
BY TerminalAssumption DEF StringLength

\* A character is typed behind the text.
Typed(b, n, ch, b2, m) ==
    /\ StringLength(b, n) /\ n < BUF - 1 /\ ch \in Chars
    /\ m = n + 1 /\ b2 = [b EXCEPT ![n] = ch, ![n + 1] = NUL]

LEMMA TypedText ==
    ASSUME NEW b, NEW n, NEW ch, NEW b2, NEW m, Typed(b, n, ch, b2, m)
    PROVE  StringLength(b2, m) /\ FirstOf(b2, m) = Append(FirstOf(b, n), ch)
<1> USE DEF Typed
<1>1. n \in Nat /\ n <= BUF - 1 /\ BUF \in Nat /\ b \in Cluster /\ ch # NUL
  BY LengthFacts, TerminalAssumption
<1>2. /\ b2 \in Cluster /\ b2[n] = ch /\ b2[m] = NUL
      /\ \A i \in 0 .. n - 1 : b2[i] = b[i]
  BY <1>1 DEF Cluster
<1>3. StringLength(b2, m)
  <2>1. m \in 0 .. BUF - 1
    BY <1>1
  <2>2. ASSUME NEW i \in 0 .. m - 1 PROVE b2[i] # NUL
    <3>1. CASE i = n
      BY <1>1, <1>2, <3>1
    <3>2. CASE i # n
      <4>1. i \in 0 .. n - 1
        BY <1>1, <3>2
      <4> QED BY <1>2, <4>1 DEF StringLength
    <3> QED BY <3>1, <3>2
  <2> QED BY <1>2, <2>1, <2>2 DEF StringLength
<1>4. PICK text, text2 : text = FirstOf(b, n) /\ text2 = FirstOf(b2, m)
  OBVIOUS
<1>5. IsText(text, b, n) /\ IsText(text2, b2, m)
  BY <1>3, <1>4, TextIsSeq
<1>6. /\ Len(text) = n /\ text \in Seq(Chars \cup {NUL, Space})
      /\ \A i \in 1 .. n : text[i] = b[i - 1]
      /\ Len(text2) = m /\ text2 \in Seq(Chars \cup {NUL, Space})
      /\ \A i \in 1 .. m : text2[i] = b2[i - 1]
  BY <1>5 DEF IsText
<1>7. ASSUME NEW i \in 1 .. m PROVE text2[i] = IF i = m THEN ch ELSE text[i]
  <2>1. i = m => i - 1 = n
    BY <1>1
  <2>2. i # m => i \in 1 .. n /\ i - 1 \in 0 .. n - 1
    BY <1>1
  <2> QED BY <1>2, <1>6, <2>1, <2>2
<1>8. text2 = Append(text, ch)
  BY <1>1, <1>6, <1>7
<1> QED BY <1>3, <1>4, <1>8

\* The last character is erased.
LEMMA ErasedText ==
    ASSUME NEW b, NEW n, StringLength(b, n), n > 0, NEW m, m = n - 1,
           NEW b2, b2 = [b EXCEPT ![m] = NUL]
    PROVE  /\ StringLength(b2, m) /\ FirstOf(b, n) # <<>>
           /\ FirstOf(b2, m) = SubSeq(FirstOf(b, n), 1, Len(FirstOf(b, n)) - 1)
<1>1. n \in Nat /\ m \in Nat /\ n <= BUF - 1 /\ BUF \in Nat /\ b \in Cluster
  BY LengthFacts
<1>2. /\ b2 \in Cluster /\ b2[m] = NUL
      /\ \A i \in 0 .. m - 1 : b2[i] = b[i]
  BY <1>1 DEF Cluster
<1>3. StringLength(b2, m)
  BY <1>1, <1>2 DEF StringLength
<1>4. PICK text, text2 : text = FirstOf(b, n) /\ text2 = FirstOf(b2, m)
  OBVIOUS
<1>5. IsText(text, b, n) /\ IsText(text2, b2, m)
  BY <1>3, <1>4, TextIsSeq
<1>6. /\ Len(text) = n /\ text \in Seq(Chars \cup {NUL, Space})
      /\ \A i \in 1 .. n : text[i] = b[i - 1]
      /\ Len(text2) = m /\ text2 \in Seq(Chars \cup {NUL, Space})
      /\ \A i \in 1 .. m : text2[i] = b2[i - 1]
  BY <1>5 DEF IsText
<1>7. ASSUME NEW i \in 1 .. m PROVE text2[i] = text[i]
  <2>1. i \in 1 .. n /\ i - 1 \in 0 .. m - 1
    BY <1>1
  <2> QED BY <1>2, <1>6, <2>1
<1>8. text2 = SubSeq(text, 1, Len(text) - 1) /\ text # <<>>
  BY <1>1, <1>6, <1>7
<1> QED BY <1>3, <1>4, <1>8

\* The rest of the line is filled with k spaces.
Filled(b, n, k, b2, m, fill) ==
    /\ StringLength(b, n) /\ k \in Nat \ {0}
    /\ m = n + k /\ m <= BUF - 1
    /\ b2 = [i \in 0 .. BUF - 1 |->
                IF i = m THEN NUL ELSE IF i \in n .. m - 1 THEN Space ELSE b[i]]
    /\ fill = [i \in 1 .. k |-> Space]

LEMMA FilledText ==
    ASSUME NEW b, NEW n, NEW k, NEW b2, NEW m, NEW fill, Filled(b, n, k, b2, m, fill)
    PROVE  StringLength(b2, m) /\ FirstOf(b2, m) = FirstOf(b, n) \o fill
<1> USE DEF Filled
<1>1. n \in Nat /\ n <= BUF - 1 /\ BUF \in Nat /\ b \in Cluster
  BY LengthFacts
<1>a. Space # NUL
  BY DEF Space, NUL
<1>2. /\ b2 \in Cluster /\ b2[m] = NUL
      /\ \A i \in 0 .. n - 1 : b2[i] = b[i]
      /\ \A i \in n .. m - 1 : b2[i] = Space
  BY <1>1 DEF Cluster
<1>3. StringLength(b2, m)
  <2>1. m \in 0 .. BUF - 1
    BY <1>1
  <2>2. ASSUME NEW i \in 0 .. m - 1 PROVE b2[i] # NUL
    <3>1. CASE i \in n .. m - 1
      BY <1>a, <1>2, <3>1
    <3>2. CASE i \notin n .. m - 1
      <4>1. i \in 0 .. n - 1
        BY <1>1, <3>2
      <4> QED BY <1>2, <4>1 DEF StringLength
    <3> QED BY <3>1, <3>2
  <2> QED BY <1>2, <2>1, <2>2 DEF StringLength
<1>4. PICK text, text2 : text = FirstOf(b, n) /\ text2 = FirstOf(b2, m)
  OBVIOUS
<1>5. IsText(text, b, n) /\ IsText(text2, b2, m)
  BY <1>3, <1>4, TextIsSeq
<1>6. /\ Len(text) = n /\ text \in Seq(Chars \cup {NUL, Space})
      /\ \A i \in 1 .. n : text[i] = b[i - 1]
      /\ Len(text2) = m /\ text2 \in Seq(Chars \cup {NUL, Space})
      /\ \A i \in 1 .. m : text2[i] = b2[i - 1]
  BY <1>5 DEF IsText
<1>7. /\ fill \in Seq(Chars \cup {NUL, Space}) /\ Len(fill) = k
      /\ \A i \in 1 .. k : fill[i] = Space
  OBVIOUS
<1>8. ASSUME NEW i \in 1 .. m
      PROVE  text2[i] = IF i <= n THEN text[i] ELSE fill[i - n]
  <2>1. CASE i <= n
    <3>1. i \in 1 .. n /\ i - 1 \in 0 .. n - 1
      BY <1>1, <2>1
    <3> QED BY <1>2, <1>6, <2>1, <3>1
  <2>2. CASE ~(i <= n)
    <3>1. i - 1 \in n .. m - 1 /\ i - n \in 1 .. k
      BY <1>1, <2>2
    <3> QED BY <1>2, <1>6, <1>7, <2>2, <3>1
  <2> QED BY <2>1, <2>2
<1>9. text2 = text \o fill
  <2>1. /\ text \o fill \in Seq(Chars \cup {NUL, Space})
        /\ Len(text \o fill) = Len(text) + Len(fill)
        /\ \A i \in 1 .. Len(text) + Len(fill) : (text \o fill)[i] =
              IF i <= Len(text) THEN text[i] ELSE fill[i - Len(text)]
    BY ONLY <1>6, <1>7, ConcatProperties, Zenon
  <2>2. Len(text \o fill) = m /\ \A i \in 1 .. m : (text \o fill)[i] = text2[i]
    BY <1>6, <1>7, <1>8, <2>1
  <2>3. PICK both : both = text \o fill
    OBVIOUS
  <2>4. /\ both \in Seq(Chars \cup {NUL, Space}) /\ Len(both) = Len(text2)
        /\ \A i \in 1 .. Len(both) : both[i] = text2[i]
    BY <1>6, <2>1, <2>2, <2>3
  <2>5. both = text2
    BY ONLY <1>6, <2>4, SeqEqual
  <2> QED BY <2>3, <2>5
<1> QED BY <1>3, <1>4, <1>9

\* What TextEditor sees.
Text == IF mode = "shell" THEN <<>> ELSE stringIn(buffer)
File == stringIn(cluster)

\* Text and file, where the invariant holds.
LEMMA TextFacts ==
    ASSUME TextInv
    PROVE  /\ strlen(buffer) = strIdx
           /\ Text = IF mode = "shell" THEN <<>> ELSE FirstOf(buffer, strIdx)
           /\ File = FirstOf(cluster, strlen(cluster))
BY StringOf DEF TextInv, Text, File

\* And after a step.
LEMMA TextFactsAfter ==
    ASSUME TextInv'
    PROVE  /\ Text' = IF mode' = "shell" THEN <<>> ELSE FirstOf(buffer', strIdx')
           /\ \A n : StringLength(cluster', n) => File' = FirstOf(cluster', n)
<1>1. PICK b, n, c : b = buffer' /\ n = strIdx' /\ c = cluster'
  OBVIOUS
<1>2. StringLength(b, n)
  BY <1>1 DEF TextInv
<1>3. stringIn(b) = FirstOf(b, n)
  BY <1>2, StringOf
<1>4. \A m : StringLength(c, m) => stringIn(c) = FirstOf(c, m)
  BY StringOf
<1> QED BY <1>1, <1>3, <1>4 DEF Text, File

\* A step of the editor, as TextEditor sees it.
Sees ==
    /\ TextInv'
    /\ Editor!Next \/ UNCHANGED <<mode # "shell", Text, File, fileSize>>

\* Steps that change neither the text nor the file.
LEMMA SeesNothing ==
    ASSUME TextInv, UNCHANGED <<buffer, strIdx, fileVars>>,
           (mode = "shell") <=> (mode' = "shell")
    PROVE  Sees
<1>1. TextInv'
  BY DEF TextInv, fileVars
<1>2. (mode # "shell")' = (mode # "shell") /\ Text' = Text /\ File' = File
  BY DEF Text, File, stringIn, strlen, fileVars
<1> QED BY <1>1, <1>2 DEF Sees, fileVars

\* In the shell there is no text, and the commands leave the file alone.
LEMMA SeesShell ==
    ASSUME TextInv, mode = "shell", mode' = "shell", UNCHANGED fileVars,
           StringLength(buffer', strIdx')
    PROVE  Sees
<1>1. TextInv'
  BY DEF TextInv, fileVars
<1>2. (mode # "shell")' = (mode # "shell") /\ Text' = Text /\ File' = File
  BY DEF Text, File, fileVars
<1> QED BY <1>1, <1>2 DEF Sees, fileVars

\* A file is created, in a cluster with an old text.
LEMMA SeesTouch == ASSUME TextInv, shellTouch PROVE Sees
<1>1. /\ mode = "shell" /\ fileSize = -1 /\ fileSize' = 0 /\ UNCHANGED <<mode, editVars>>
      /\ cluster' \in OldTexts \/ cluster' = cluster
  BY DEF shellTouch, enter
<1>2. PICK c : c = cluster'
  OBVIOUS
<1>3. StringLength(c, strlen(c))
  BY <1>1, <1>2, OldTextEnds DEF TextInv
<1>4. TextInv'
  BY <1>1, <1>2, <1>3, TerminalAssumption DEF TextInv, editVars
<1>5. Text' = Text
  BY <1>1 DEF Text
<1>6. Editor!Create
  BY <1>1, <1>5, Zenon DEF Editor!Create, Text
<1> QED BY <1>4, <1>6, Zenon DEF Sees, Editor!Next

\* It is removed, and the text stays in the cluster.
LEMMA SeesRemove == ASSUME TextInv, shellRemove PROVE Sees
<1>1. /\ mode = "shell" /\ fileSize # -1 /\ fileSize' = -1
      /\ UNCHANGED <<mode, editVars, cluster>>
  BY DEF shellRemove, enter
<1>2. TextInv'
  BY <1>1, TerminalAssumption DEF TextInv, editVars
<1>3. Text' = Text /\ File' = File
  BY <1>1 DEF Text, File
<1>4. Editor!Remove
  BY <1>1, <1>3, Zenon DEF Editor!Remove, Text, File
<1> QED BY <1>2, <1>4, Zenon DEF Sees, Editor!Next

LEMMA SeesOpen == ASSUME TextInv, openEditor PROVE Sees
<1>1. /\ mode = "shell" /\ mode' = "edit" /\ buffer' = cluster
      /\ strIdx' = strlen(cluster) /\ UNCHANGED fileVars /\ fileSize # -1
  BY DEF openEditor, enter
<1>2. cluster' = cluster /\ fileSize' = fileSize
  BY <1>1 DEF fileVars
<1>3. TextInv'
  BY <1>1, <1>2 DEF TextInv
<1>4. Text' = File /\ File' = File
  BY <1>1, <1>2, <1>3, TextFacts, TextFactsAfter DEF File
<1>5. Editor!Open
  BY <1>1, <1>2, <1>4, Zenon DEF Editor!Open, Text, File
<1> QED BY <1>3, <1>5, Zenon DEF Sees, Editor!Next

\* The steps that change the text while the editor is open.
LEMMA SeesEdit ==
    ASSUME TextInv, mode = "edit", UNCHANGED <<mode, fileVars>>,
           StringLength(buffer', strIdx')
    PROVE  /\ TextInv' /\ File' = File
           /\ Text = FirstOf(buffer, strIdx) /\ Text' = FirstOf(buffer', strIdx')
           /\ \A t : t = Text' /\ Len(t) <= BUF - 1 => Editor!Edit(t)
<1>1. TextInv' /\ File' = File /\ fileSize' = fileSize
  BY DEF TextInv, File, fileVars
<1>2. Text = FirstOf(buffer, strIdx) /\ Text' = FirstOf(buffer', strIdx')
  BY <1>1, TextFacts, TextFactsAfter
<1>3. ASSUME NEW t, t = Text', Len(t) <= BUF - 1
      PROVE  Editor!Edit(t)
  BY <1>1, <1>3 DEF Editor!Edit, Text, File
<1> QED BY <1>1, <1>2, <1>3

LEMMA SeesKey == ASSUME TextInv, NEW ch \in Chars, editKey(ch) PROVE Sees
<1>1. /\ mode = "edit" /\ UNCHANGED <<mode, fileVars>> /\ strIdx < BUF - 1
      /\ buffer' = [buffer EXCEPT ![strIdx] = ch, ![strIdx + 1] = NUL]
      /\ strIdx' = strIdx + 1
  BY DEF editKey, typing
<1>2. PICK b, n, b2, m : b = buffer /\ n = strIdx /\ b2 = buffer' /\ m = strIdx'
  OBVIOUS
<1>3. Typed(b, n, ch, b2, m)
  BY <1>1, <1>2 DEF TextInv, Typed
<1>4. StringLength(b2, m) /\ FirstOf(b2, m) = Append(FirstOf(b, n), ch)
  BY <1>3, TypedText
<1>5. IsText(FirstOf(b2, m), b2, m) /\ m <= BUF - 1
  BY <1>4, TextIsSeq, LengthFacts
<1>6. Len(FirstOf(b2, m)) <= BUF - 1
  BY <1>5 DEF IsText
<1>7. /\ TextInv' /\ File' = File /\ Text = FirstOf(b, n) /\ Text' = FirstOf(b2, m)
      /\ \A t : t = Text' /\ Len(t) <= BUF - 1 => Editor!Edit(t)
  BY <1>1, <1>2, <1>4, SeesEdit
<1>8. Editor!Edit(Append(Text, ch))
  BY <1>4, <1>6, <1>7, Zenon
<1>9. Editor!Type(ch)
  BY <1>8, Zenon DEF Editor!Type, Text
<1> QED BY <1>7, <1>9, Zenon DEF Sees, Editor!Next

LEMMA SeesBackspace == ASSUME TextInv, editBackspace PROVE Sees
<1>1. /\ mode = "edit" /\ UNCHANGED <<mode, fileVars>> /\ strIdx > 0
      /\ buffer' = [buffer EXCEPT ![strIdx - 1] = NUL]
      /\ strIdx' = strIdx - 1
  BY DEF editBackspace, typing
<1>2. PICK b, n, b2, m : b = buffer /\ n = strIdx /\ b2 = buffer' /\ m = strIdx'
  OBVIOUS
<1>3. StringLength(b, n) /\ n > 0 /\ m = n - 1 /\ b2 = [b EXCEPT ![m] = NUL]
  BY <1>1, <1>2 DEF TextInv
<1>4. /\ StringLength(b2, m) /\ FirstOf(b, n) # <<>>
      /\ FirstOf(b2, m) = SubSeq(FirstOf(b, n), 1, Len(FirstOf(b, n)) - 1)
  BY <1>3, ErasedText
<1>5. IsText(FirstOf(b2, m), b2, m) /\ m <= BUF - 1
  BY <1>4, TextIsSeq, LengthFacts
<1>6. Len(FirstOf(b2, m)) <= BUF - 1
  BY <1>5 DEF IsText
<1>7. /\ TextInv' /\ File' = File /\ Text = FirstOf(b, n) /\ Text' = FirstOf(b2, m)
      /\ \A t : t = Text' /\ Len(t) <= BUF - 1 => Editor!Edit(t)
  BY <1>1, <1>2, <1>4, SeesEdit
<1>8. Text # <<>> /\ Editor!Edit(SubSeq(Text, 1, Len(Text) - 1))
  BY <1>4, <1>6, <1>7, Zenon
<1>9. Editor!Erase
  BY <1>8, Zenon DEF Editor!Erase, Text
<1> QED BY <1>7, <1>9, Zenon DEF Sees, Editor!Next

LEMMA SeesEnter == ASSUME TextInv, editEnter PROVE Sees
<1>1. PICK b, n, b2, m, k, fill :
        /\ b = buffer /\ n = strIdx /\ b2 = buffer' /\ m = strIdx'
        /\ k = WIDTH - (n % WIDTH) /\ fill = [i \in 1 .. k |-> Space]
  OBVIOUS
<1>2. StringLength(b, n) /\ n \in Nat /\ WIDTH \in Nat \ {0}
  BY <1>1, LengthFacts, ConsoleAssumption DEF TextInv
<1>3. n % WIDTH \in 0 .. WIDTH - 1
  BY <1>2
<1>4. k \in Nat \ {0} /\ n - (n % WIDTH) + WIDTH = n + k
  BY <1>1, <1>2, <1>3
<1>5. /\ mode = "edit" /\ UNCHANGED <<mode, fileVars>>
      /\ m = n + k /\ m <= BUF - 1
      /\ b2 = [i \in 0 .. BUF - 1 |->
                  IF i = m THEN NUL ELSE IF i \in n .. m - 1 THEN Space ELSE b[i]]
  BY <1>1, <1>4 DEF editEnter, typing
<1>6. StringLength(b2, m) /\ FirstOf(b2, m) = FirstOf(b, n) \o fill
  <2>1. Filled(b, n, k, b2, m, fill)
    BY <1>1, <1>2, <1>4, <1>5 DEF Filled
  <2> QED BY <2>1, FilledText
<1>7. IsText(FirstOf(b2, m), b2, m) /\ IsText(FirstOf(b, n), b, n)
  BY <1>2, <1>6, TextIsSeq
<1>8. Len(FirstOf(b2, m)) <= BUF - 1 /\ Len(FirstOf(b, n)) = n
  BY <1>5, <1>7 DEF IsText
<1>9. /\ TextInv' /\ File' = File /\ Text = FirstOf(b, n) /\ Text' = FirstOf(b2, m)
      /\ \A t : t = Text' /\ Len(t) <= BUF - 1 => Editor!Edit(t)
  BY <1>1, <1>5, <1>6, SeesEdit
<1>10. Editor!Edit(Text \o fill)
  BY <1>6, <1>8, <1>9, Zenon
<1>11. fill = [i \in 1 .. WIDTH - (Len(Text) % WIDTH) |-> " "]
  BY <1>1, <1>8, <1>9 DEF Space
<1>12. Editor!NewLine
  BY <1>10, <1>11, Zenon DEF Editor!NewLine, Text
<1> QED BY <1>9, <1>12, Zenon DEF Sees, Editor!Next

\* Leaving the editor empties the buffer.
LEMMA SeesLeave ==
    ASSUME TextInv, leaveEditor, mode # "shell",
           StringLength(cluster', strlen(cluster')), fileSize' \in -1 .. BUF - 1
    PROVE  TextInv' /\ mode' = "shell" /\ Text' = <<>>
<1>1. mode' = "shell" /\ buffer' = EmptyFile /\ strIdx' = 0
  BY DEF leaveEditor
<1>2. TextInv'
  BY <1>1, EmptyString DEF TextInv
<1> QED BY <1>1, <1>2 DEF Text

LEMMA SeesSave == ASSUME TextInv, stateSave PROVE Sees
<1>1. /\ mode = "state" /\ leaveEditor /\ cluster' = buffer /\ fileSize' = strlen(buffer)
  BY DEF stateSave
<1>2. strlen(buffer) = strIdx /\ Text = stringIn(buffer)
  BY <1>1, TextFacts DEF Text
<1>3. StringLength(cluster', strlen(cluster')) /\ fileSize' \in -1 .. BUF - 1
  BY <1>1, <1>2, LengthFacts DEF TextInv
<1>4. TextInv' /\ mode' = "shell" /\ Text' = <<>>
  BY <1>1, <1>3, SeesLeave
<1>5. File' = Text /\ fileSize' = Len(Text)
  <2>1. IsText(FirstOf(buffer, strIdx), buffer, strIdx)
    BY TextIsSeq DEF TextInv
  <2>2. Text = FirstOf(buffer, strIdx)
    BY <1>1, TextFacts
  <2> QED BY <1>1, <1>2, <2>1, <2>2 DEF File, IsText
<1>6. Editor!Save
  BY <1>1, <1>4, <1>5, Zenon DEF Editor!Save, Text, File
<1> QED BY <1>4, <1>6, Zenon DEF Sees, Editor!Next

LEMMA SeesQuit == ASSUME TextInv, stateQuit PROVE Sees
<1>1. /\ mode = "state" /\ leaveEditor /\ cluster' = cluster /\ fileSize' = fileSize
  BY DEF stateQuit, fileVars
<1>2. TextInv' /\ mode' = "shell" /\ Text' = <<>>
  BY <1>1, SeesLeave DEF TextInv
<1>3. File' = File
  BY <1>1 DEF File
<1>4. Editor!Discard
  BY <1>1, <1>2, <1>3, Zenon DEF Editor!Discard, Text, File
<1> QED BY <1>2, <1>4, Zenon DEF Sees, Editor!Next

LEMMA EditorStep == ASSUME TextInv, Next PROVE Sees
<1>1. ASSUME NEW ch \in Chars \cup {ESC}, shellKey(ch) PROVE Sees
  BY <1>1, SeesNothing DEF shellKey, editVars
<1>2. CASE shellBackspace
  BY <1>2, SeesNothing DEF shellBackspace, editVars
<1>3. CASE shellEnter
  BY <1>3, SeesNothing DEF shellEnter, editVars
<1>4. CASE shellDemo
  BY <1>4, SeesNothing DEF shellDemo, editVars
<1>5. CASE shellReboot
  BY <1>5, SeesShell, EmptyString DEF shellReboot, enter
<1>6. CASE openEditor
  BY <1>6, SeesOpen
<1>7. ASSUME NEW ch \in Chars, editKey(ch) PROVE Sees
  BY <1>7, SeesKey
<1>8. ASSUME NEW ch \in Commands, stateKey(ch) PROVE Sees
  BY <1>8, SeesNothing DEF stateKey, typing
<1>9. CASE editEnter
  BY <1>9, SeesEnter
<1>10. CASE editBackspace
  BY <1>10, SeesBackspace
<1>11. CASE editEscape
  BY <1>11, SeesNothing DEF editEscape, typing
<1>12. CASE stateBackspace
  BY <1>12, SeesNothing DEF stateBackspace, typing
<1>13. CASE stateEscape
  BY <1>13, SeesNothing DEF stateEscape, fileVars
<1>14. CASE stateSave
  BY <1>14, SeesSave
<1>15. CASE stateQuit
  BY <1>15, SeesQuit
<1>16. CASE drawDemo
  BY <1>16, SeesNothing DEF drawDemo, editVars
<1>17. CASE endDemo
  BY <1>17, SeesNothing DEF endDemo, editVars
<1>18. CASE report
  BY <1>18, SeesNothing DEF report, editVars
<1>19. CASE shellTouch
  BY <1>19, SeesTouch
<1>20. CASE shellRemove
  BY <1>20, SeesRemove
<1> QED BY <1>1, <1>2, <1>3, <1>4, <1>5, <1>6, <1>7, <1>8, <1>9, <1>10, <1>11, <1>12,
           <1>13, <1>14, <1>15, <1>16, <1>17, <1>18, <1>19, <1>20 DEF Next

LEMMA EditorStutter == ASSUME TextInv, UNCHANGED vars PROVE Sees
BY SeesNothing DEF vars, editVars

LEMMA InitTexts == Init => TextInv
<1> SUFFICES ASSUME Init PROVE TextInv
  OBVIOUS
<1>1. StringLength(cluster, strlen(cluster)) /\ StringLength(buffer, strIdx)
  BY EmptyString, OldTextEnds DEF Init
<1>2. fileSize \in -1 .. BUF - 1
  BY <1>1, LengthFacts, TerminalAssumption DEF Init
<1> QED BY <1>1, <1>2 DEF TextInv

\* The editor opens with the text that is on the disk, keeps what is typed, erased and
\* broken into lines, and only a save puts text and length on the disk, whatever comes
\* between two keys and whatever was in the cluster of a file that was just created.
THEOREM EditorImplements == Spec => ImplementsEditor
<1>1. Init => TextInv /\ Editor!Init
  BY InitTexts DEF Editor!Init, Init
<1>2. TextInv /\ [Next]_vars => TextInv' /\ [Editor!Next]_(Editor!vars)
  <2>1. TextInv /\ [Next]_vars => Sees
    BY EditorStep, EditorStutter
  <2> QED BY <2>1 DEF Sees, Editor!vars, Text, File
<1> QED BY <1>1, <1>2, PTL DEF Spec, ImplementsEditor, Editor!Spec

-----------------------------------------------------------------------------
(* The screen: what each function of Print.c does to cells and cursor.     *)

LEMMA ScreenSize ==
    /\ WIDTH \in Nat /\ WIDTH >= 2 /\ LINE_COUNT \in Nat /\ LINE_COUNT >= 2
    /\ End \in Nat /\ End >= 2 * WIDTH
    /\ MAX_LENGTH \in Nat /\ MAX_LENGTH = End - WIDTH
    /\ Cells = {c \in Int : 0 <= c /\ c < End}
<1>1. WIDTH \in Nat /\ WIDTH >= 2 /\ LINE_COUNT \in Nat /\ LINE_COUNT >= 2
  BY ConsoleAssumption
<1>2. End \in Nat /\ End >= 2 * WIDTH
  BY <1>1 DEF End
<1>3. MAX_LENGTH \in Nat /\ MAX_LENGTH = End - WIDTH
  BY <1>1 DEF End, MAX_LENGTH
<1>4. Cells = {c \in Int : 0 <= c /\ c < End}
  BY <1>2 DEF Cells
<1> QED BY <1>1, <1>2, <1>3, <1>4

LEMMA GlyphFacts ==
    /\ \A ch \in Glyphs : ch # BACK_SPACE /\ ch # NEWLINE /\ ch # NUL
    /\ Chars \subseteq Glyphs /\ Commands \subseteq Glyphs
    /\ Space \in Glyphs /\ ESC \in Glyphs /\ Other \in Glyphs
BY TerminalAssumption DEF Glyphs, Commands, Space, ESC, Other, BACK_SPACE, NEWLINE, NUL

LEMMA ClearFacts ==
    clear \in Screens /\ clear.cp = 0 /\ \A c \in Cells : clear.cell[c] = NUL
BY DEF clear, Screens

\* A character: it stands before the new cursor.
LEMMA CharFacts ==
    ASSUME NEW v \in Screens, NEW ch \in Glyphs, NEW w, w = viewCharacter(v, ch)
    PROVE  /\ w \in Screens
           /\ w.cp = IF v.cp + 1 >= End THEN v.cp + 1 - WIDTH ELSE v.cp + 1
           /\ \A c \in Cells :
                w.cell[c] = IF c = w.cp - 1 THEN ch
                            ELSE IF v.cp + 1 < End THEN v.cell[c]
                            ELSE IF c + WIDTH < End THEN v.cell[c + WIDTH] ELSE NUL
<1>1. /\ v = [cell |-> v.cell, cp |-> v.cp] /\ v.cp \in Int
      /\ v.cell \in [Cells -> Glyphs \cup {NUL}]
  BY DEF Screens
<1>2. ch # BACK_SPACE
  BY GlyphFacts
<1>3. CASE v.cp + 1 < End
  <2> DEFINE x == put(v, v.cp, ch)
  <2>1. ~(v.cp + 1 >= End)
    BY <1>1, <1>3, ScreenSize
  <2>2. w = [x EXCEPT !.cp = @ + 1]
    BY <1>2, <2>1 DEF viewCharacter
  <2>3. /\ x.cp = v.cp /\ x.cell \in [Cells -> Glyphs \cup {NUL}]
        /\ x = [cell |-> x.cell, cp |-> x.cp]
        /\ \A c \in Cells : x.cell[c] = IF c = v.cp THEN ch ELSE v.cell[c]
    BY <1>1 DEF put
  <2> HIDE DEF x
  <2>4. w = [cell |-> x.cell, cp |-> v.cp + 1]
    BY <2>2, <2>3
  <2>5. w.cp - 1 = v.cp
    BY <1>1, <2>4
  <2> QED BY <1>1, <1>3, <2>1, <2>3, <2>4, <2>5 DEF Screens
<1>4. CASE ~(v.cp + 1 < End)
  <2> DEFINE s == scroll(v)
             x == put(s, v.cp - WIDTH, ch)
  <2>1. v.cp + 1 >= End /\ WIDTH \in Nat
    BY <1>1, <1>4, ScreenSize
  <2>2. w = [x EXCEPT !.cp = @ + 1 - WIDTH]
    BY <1>2, <2>1 DEF viewCharacter
  <2>a. \A c \in Cells : c + WIDTH < End => c + WIDTH \in Cells
    BY ScreenSize
  <2>3. /\ s.cp = v.cp /\ s.cell \in [Cells -> Glyphs \cup {NUL}]
        /\ s = [cell |-> s.cell, cp |-> s.cp]
        /\ \A c \in Cells : s.cell[c] = IF c + WIDTH < End THEN v.cell[c + WIDTH] ELSE NUL
    BY <1>1, <2>a DEF scroll
  <2> HIDE DEF s
  <2>4. /\ x.cp = v.cp /\ x.cell \in [Cells -> Glyphs \cup {NUL}]
        /\ x = [cell |-> x.cell, cp |-> x.cp]
        /\ \A c \in Cells : x.cell[c] = IF c = v.cp - WIDTH THEN ch ELSE s.cell[c]
    BY <2>3 DEF put
  <2> HIDE DEF x
  <2>5. w = [cell |-> x.cell, cp |-> v.cp + 1 - WIDTH]
    BY <2>2, <2>4
  <2>6. w.cp - 1 = v.cp - WIDTH
    BY <1>1, <2>1, <2>5
  <2>7. \A c \in Cells :
                w.cell[c] = IF c = w.cp - 1 THEN ch
                            ELSE IF c + WIDTH < End THEN v.cell[c + WIDTH] ELSE NUL
    BY <2>3, <2>4, <2>5, <2>6
  <2> QED BY <1>1, <1>4, <2>1, <2>4, <2>5, <2>7 DEF Screens
<1> QED BY <1>3, <1>4

\* The character before the cursor is erased.
LEMMA EraseFacts ==
    ASSUME NEW v \in Screens, NEW w, w = viewCharacter(v, BACK_SPACE)
    PROVE  /\ w \in Screens /\ w.cp = v.cp - 1
           /\ \A c \in Cells : w.cell[c] = IF c = w.cp THEN NUL ELSE v.cell[c]
<1> DEFINE x == put(v, v.cp - 1, NUL)
<1>1. /\ v = [cell |-> v.cell, cp |-> v.cp] /\ v.cp \in Int
      /\ v.cell \in [Cells -> Glyphs \cup {NUL}]
  BY DEF Screens
<1>2. w = [x EXCEPT !.cp = @ - 1]
  BY DEF viewCharacter
<1>3. /\ x.cp = v.cp /\ x.cell \in [Cells -> Glyphs \cup {NUL}]
      /\ x = [cell |-> x.cell, cp |-> x.cp]
      /\ \A c \in Cells : x.cell[c] = IF c = v.cp - 1 THEN NUL ELSE v.cell[c]
  BY <1>1 DEF put
<1> HIDE DEF x
<1>4. w = [cell |-> x.cell, cp |-> v.cp - 1]
  BY <1>2, <1>3
<1> QED BY <1>1, <1>3, <1>4 DEF Screens

\* A new line: the cursor goes to the beginning of a line, but not further.
LEMMA LineFacts ==
    ASSUME NEW v \in Screens, NEW w, w = moveToNextLine(v)
    PROVE  /\ w \in Screens /\ w.cell = v.cell
           /\ v.cp \in Cells => w.cp = v.cp + WIDTH - (v.cp % WIDTH)
           /\ v.cp < End => w.cp <= End
           /\ v.cp < End + WIDTH => w.cp <= End + WIDTH
           /\ v.cp <= End + WIDTH => w.cp <= End + 2 * WIDTH
<1>1. /\ v = [cell |-> v.cell, cp |-> v.cp] /\ v.cp \in Int
      /\ v.cell \in [Cells -> Glyphs \cup {NUL}]
  BY DEF Screens
<1>2. PICK p, W, L : p = v.cp /\ W = WIDTH /\ L = LINE_COUNT
  OBVIOUS
<1>3. /\ p \in Int /\ W \in Nat /\ W >= 2 /\ L \in Nat /\ L >= 2 /\ End = W * L
      /\ End \in Nat /\ End >= 2 * W
  BY <1>1, <1>2, ScreenSize DEF End
<1>4. w = [cell |-> v.cell, cp |-> p + W - xIdx(p)]
  BY <1>1, <1>2 DEF moveToNextLine
<1>5. CASE p >= 0
  <2>1. xIdx(p) = p % W
    BY <1>2, <1>5 DEF xIdx
  <2>2. PICK q \in Int : p = W * q + (p % W) /\ p % W \in 0 .. W - 1
    <3>1. /\ p \div W \in Int /\ p % W \in 0 .. W - 1
          /\ p = W * (p \div W) + (p % W)
      BY <1>3
    <3> QED BY <3>1
  <2>3. PICK n \in Int : n = W * (q + 1) /\ p + W - (p % W) = n
    <3>1. W * (q + 1) = W * q + W /\ W * (q + 1) \in Int
      BY <1>3
    <3> QED BY <1>3, <2>2, <3>1
  <2>4. ASSUME NEW m \in Int, p < W * m PROVE n <= W * m
    <3>1. q < m
      BY <1>3, <2>2, <2>4
    <3>2. q + 1 <= m
      BY <3>1
    <3> QED BY <1>3, <2>3, <3>2
  <2>5. /\ W * L = End /\ W * (L + 1) = End + W /\ W * (L + 2) = End + 2 * W
        /\ L \in Int /\ L + 1 \in Int /\ L + 2 \in Int
    BY <1>3
  <2>6. /\ p < End => n <= End
        /\ p < End + W => n <= End + W
        /\ p < End + 2 * W => n <= End + 2 * W
    BY <2>4, <2>5
  <2>7. p <= End + W => p < End + 2 * W
    BY <1>3
  <2>8. w.cp = n /\ w.cp = p + W - (p % W)
    BY <1>4, <2>1, <2>3
  <2> QED BY <1>1, <1>2, <1>4, <2>6, <2>7, <2>8 DEF Screens
<1>6. CASE ~(p >= 0)
  <2>1. xIdx(p) = -((-p) % W)
    BY <1>2, <1>6 DEF xIdx
  <2>2. (-p) % W \in Int /\ (-p) % W <= -p
    <3>1. PICK m \in Nat : m = -p
      BY <1>3, <1>6
    <3>2. m % W \in Int /\ m % W <= m
      BY <1>3
    <3> QED BY <3>1, <3>2
  <2>3. w.cp \in Int /\ w.cp <= W
    BY <1>3, <1>4, <2>1, <2>2
  <2>4. p \notin Cells
    BY <1>3, <1>6, ScreenSize
  <2> QED BY <1>1, <1>2, <1>3, <1>4, <2>3, <2>4 DEF Screens
<1> QED BY <1>5, <1>6
-----------------------------------------------------------------------------
(* The loops over a string.                                                *)

\* f is the sequence of screens behind the first n rounds of the loop of printString.
PrintRounds(f, n, v, str) ==
    f = [i \in 0 .. n |-> IF i = 0 THEN v ELSE printed(f[i - 1], str[i])]

LEMMA PrintRoundsExist ==
    ASSUME NEW v, NEW str, NEW n \in Nat
    PROVE  \E f : PrintRounds(f, n, v, str)
<1> DEFINE T == {m \in Nat : \E f : PrintRounds(f, m, v, str)}
<1>1. 0 \in T
  <2>1. PrintRounds([i \in 0 .. 0 |-> v], 0, v, str)
    BY DEF PrintRounds
  <2> QED BY <2>1
<1>2. ASSUME NEW m \in T PROVE m + 1 \in T
  <2>1. PICK f : PrintRounds(f, m, v, str)
    OBVIOUS
  <2> DEFINE g == [i \in 0 .. m + 1 |->
                     IF i <= m THEN f[i] ELSE printed(f[m], str[m + 1])]
  <2>2. m \in Nat /\ m + 1 \in Nat
    OBVIOUS
  <2>3. ASSUME NEW i \in 0 .. m + 1
        PROVE  g[i] = IF i = 0 THEN v ELSE printed(g[i - 1], str[i])
    <3>1. CASE i = 0
      BY <2>1, <2>2, <3>1 DEF PrintRounds
    <3>2. CASE i # 0 /\ i <= m
      <4>1. i \in 0 .. m /\ i - 1 \in 0 .. m + 1 /\ i - 1 <= m
        BY <2>2, <3>2
      <4>2. f[i] = printed(f[i - 1], str[i])
        BY <2>1, <3>2, <4>1 DEF PrintRounds
      <4> QED BY <3>2, <4>1, <4>2
    <3>3. CASE i = m + 1
      <4>1. ~(i <= m) /\ i # 0 /\ i - 1 = m /\ m \in 0 .. m + 1 /\ m <= m
        BY <2>2, <3>3
      <4> QED BY <3>3, <4>1
    <3> QED BY <2>2, <3>1, <3>2, <3>3
  <2>4. PrintRounds(g, m + 1, v, str)
    <3> DEFINE h == [i \in 0 .. m + 1 |->
                       IF i = 0 THEN v ELSE printed(g[i - 1], str[i])]
    <3>1. \A i \in 0 .. m + 1 : g[i] = h[i]
      BY <2>3
    <3>2. g = h
      BY <3>1
    <3> QED BY <3>2 DEF PrintRounds
  <2> QED BY <2>2, <2>4
<1> HIDE DEF T
<1>3. T = Nat
  <2>1. T \subseteq Nat
    BY DEF T
  <2> QED BY <1>1, <1>2, <2>1, NatInductionOnSets
<1> QED BY <1>3 DEF T

\* f is what the loop goes through when it prints the n characters of str on v.
Printing(f, n, v, str) ==
    /\ printString(v, str) = f[n] /\ f[0] = v
    /\ \A i \in 1 .. n : f[i] = printed(f[i - 1], str[i])

\* printString returns the last of its rounds.
LEMMA PrintIsRounds ==
    ASSUME NEW v, NEW str, NEW n \in Nat, n = Len(str)
    PROVE  \E f : Printing(f, n, v, str)
<1>1. PICK g : g = CHOOSE f : PrintRounds(f, n, v, str)
  OBVIOUS
<1>2. PrintRounds(g, n, v, str)
  BY <1>1, PrintRoundsExist
<1>3. printString(v, str) = g[n]
  BY <1>1 DEF printString, PrintRounds
<1>4. 0 \in 0 .. n /\ \A i \in 1 .. n : i \in 0 .. n /\ i # 0
  OBVIOUS
<1>5. g[0] = v /\ \A i \in 1 .. n : g[i] = printed(g[i - 1], str[i])
  BY <1>2, <1>4 DEF PrintRounds
<1> QED BY <1>3, <1>5 DEF Printing

LEMMA ShortStrings ==
    ASSUME NEW v
    PROVE  /\ printString(v, <<>>) = v /\ puts(v, <<>>) = moveToNextLine(v)
           /\ printString(v, <<Other>>) = viewCharacter(v, Other)
<1>1. printString(v, <<>>) = v
  <2>1. PICK str, n : str = <<>> /\ n = 0
    OBVIOUS
  <2>2. n \in Nat /\ n = Len(str)
    BY <2>1
  <2>3. PICK f : Printing(f, n, v, str)
    BY <2>2, PrintIsRounds
  <2> QED BY <2>1, <2>3 DEF Printing
<1>2. printString(v, <<Other>>) = viewCharacter(v, Other)
  <2>1. PICK str, n : str = <<Other>> /\ n = 1
    OBVIOUS
  <2>2. n \in Nat /\ n = Len(str)
    BY <2>1
  <2>a. str[1] = Other
    BY <2>1
  <2>3. PICK f : Printing(f, n, v, str)
    BY <2>2, PrintIsRounds
  <2>4. 1 \in 1 .. n /\ 1 - 1 = 0
    BY <2>1
  <2>5. f[1] = printed(v, Other)
    BY <2>a, <2>3, <2>4 DEF Printing
  <2> QED BY <2>1, <2>3, <2>5, GlyphFacts DEF printed, Printing
<1> QED BY <1>1, <1>2 DEF puts

\* A message ends on the screen, even from the third line below it.
LEMMA MessageFacts ==
    ASSUME NEW v \in Screens, NEW w, w = printString(v, Message)
    PROVE  w \in Screens /\ (v.cp <= End + 2 * WIDTH => w.cp < End)
<1>1. PICK str, n : str = Message /\ n = 5
  OBVIOUS
<1>2. n \in Nat /\ n = Len(str) /\ \A i \in 1 .. n : str[i] = Other
  BY <1>1 DEF Message
<1>3. PICK f : Printing(f, n, v, str)
  BY <1>2, PrintIsRounds
<1>4. \A i \in 1 .. 5 : f[i] = viewCharacter(f[i - 1], Other)
  BY <1>1, <1>2, <1>3, GlyphFacts DEF printed, Printing
<1>5. /\ f[1] = viewCharacter(v, Other) /\ f[2] = viewCharacter(f[1], Other)
      /\ f[3] = viewCharacter(f[2], Other) /\ f[4] = viewCharacter(f[3], Other)
      /\ w = viewCharacter(f[4], Other)
  <2>1. \A i \in 1 .. 5 : i - 1 \in 0 .. 4
    OBVIOUS
  <2> QED BY <1>1, <1>3, <1>4, <2>1 DEF Printing
<1>6. /\ WIDTH \in Nat /\ WIDTH >= 2 /\ End \in Nat
      /\ \A s \in Screens : s.cp \in Int
  BY ScreenSize DEF Screens
<1> DEFINE Above(t, d) == t.cp < End \/ t.cp <= End + 2 * WIDTH - d
<1>7. ASSUME NEW s \in Screens, NEW d \in Nat, NEW t, t = viewCharacter(s, Other),
             NEW e, e = d + WIDTH - 1
      PROVE  t \in Screens /\ (Above(s, d) => Above(t, e))
  <2>1. /\ t \in Screens
        /\ t.cp = IF s.cp + 1 >= End THEN s.cp + 1 - WIDTH ELSE s.cp + 1
    BY <1>7, CharFacts, GlyphFacts
  <2> QED BY <1>6, <1>7, <2>1
<1>8. /\ 0 \in Nat /\ WIDTH - 1 \in Nat /\ 2 * WIDTH - 2 \in Nat
      /\ 3 * WIDTH - 3 \in Nat /\ 4 * WIDTH - 4 \in Nat
      /\ WIDTH - 1 = 0 + WIDTH - 1
      /\ 2 * WIDTH - 2 = (WIDTH - 1) + WIDTH - 1
      /\ 3 * WIDTH - 3 = (2 * WIDTH - 2) + WIDTH - 1
      /\ 4 * WIDTH - 4 = (3 * WIDTH - 3) + WIDTH - 1
      /\ 5 * WIDTH - 5 = (4 * WIDTH - 4) + WIDTH - 1
  BY <1>6
<1>9. /\ v.cp <= End + 2 * WIDTH => Above(v, 0)
      /\ w \in Screens /\ Above(w, 5 * WIDTH - 5) => w.cp < End
  BY <1>6
<1> HIDE DEF Above
<1>10. f[1] \in Screens /\ (Above(v, 0) => Above(f[1], WIDTH - 1))
  BY <1>5, <1>7, <1>8
<1>11. f[2] \in Screens /\ (Above(f[1], WIDTH - 1) => Above(f[2], 2 * WIDTH - 2))
  BY <1>5, <1>7, <1>8, <1>10
<1>12. f[3] \in Screens /\ (Above(f[2], 2 * WIDTH - 2) => Above(f[3], 3 * WIDTH - 3))
  BY <1>5, <1>7, <1>8, <1>11
<1>13. f[4] \in Screens /\ (Above(f[3], 3 * WIDTH - 3) => Above(f[4], 4 * WIDTH - 4))
  BY <1>5, <1>7, <1>8, <1>12
<1>14. w \in Screens /\ (Above(f[4], 4 * WIDTH - 4) => Above(w, 5 * WIDTH - 5))
  BY <1>5, <1>7, <1>8, <1>13
<1> QED BY <1>9, <1>10, <1>11, <1>12, <1>13, <1>14

\* Output without empty lines ends at most one line below the screen.
LEMMA OutputFacts ==
    ASSUME NEW v \in Screens, v.cp <= End + WIDTH, NEW str \in Outputs,
           NEW w, w = printString(v, str)
    PROVE  w \in Screens /\ w.cp < End + WIDTH
<1>1. PICK n : n = Len(str)
  OBVIOUS
<1>2. /\ str \in Seq(Glyphs \cup {NEWLINE}) /\ str # <<>>
      /\ str[1] # NEWLINE /\ str[Len(str)] # NEWLINE
      /\ \A i \in 1 .. Len(str) - 1 : str[i] = NEWLINE => str[i + 1] # NEWLINE
  BY OutputAssumption
<1>3. n \in Nat \ {0} /\ \A i \in 1 .. n : str[i] \in Glyphs \cup {NEWLINE}
  BY <1>1, <1>2, ElementOfSeq, EmptySeq, LenProperties
<1>4. PICK f : Printing(f, n, v, str)
  BY <1>1, <1>3, PrintIsRounds
<1>5. /\ WIDTH \in Nat /\ WIDTH >= 2 /\ End \in Nat
      /\ \A s \in Screens : s.cp \in Int
  BY ScreenSize DEF Screens
<1> DEFINE Near(i) ==
             /\ f[i] \in Screens /\ f[i].cp <= End + WIDTH
             /\ i # 0 /\ str[i] # NEWLINE => f[i].cp < End + WIDTH
           T == {i \in Nat : i <= n => Near(i)}
<1>6. 0 \in T
  BY <1>4 DEF Printing
<1>7. ASSUME NEW i \in T PROVE i + 1 \in T
  <2>1. i \in Nat /\ i + 1 \in Nat /\ (i <= n => Near(i))
    OBVIOUS
  <2> SUFFICES ASSUME i + 1 <= n PROVE Near(i + 1)
    BY <2>1
  <2>2. Near(i) /\ i + 1 \in 1 .. n /\ (i + 1) - 1 = i
    BY <1>3, <2>1
  <2> HIDE DEF Near
  <2>3. f[i + 1] = printed(f[i], str[i + 1]) /\ str[i + 1] \in Glyphs \cup {NEWLINE}
    BY <1>3, <1>4, <2>2 DEF Printing
  <2>4. f[i] \in Screens /\ f[i].cp <= End + WIDTH
    BY <2>2 DEF Near
  <2>5. CASE str[i + 1] = NEWLINE
    <3>1. i # 0 /\ str[i] # NEWLINE
      <4>1. i # 0
        BY <1>2, <2>5
      <4>2. i \in 1 .. Len(str) - 1
        BY <1>1, <1>3, <2>1, <2>2, <4>1
      <4> QED BY <1>2, <2>5, <4>1, <4>2
    <3>2. f[i].cp < End + WIDTH
      BY <2>2, <3>1 DEF Near
    <3>3. f[i + 1] = moveToNextLine(f[i])
      BY <2>3, <2>5 DEF printed
    <3> QED BY <2>4, <2>5, <3>2, <3>3, LineFacts DEF Near
  <2>6. CASE str[i + 1] # NEWLINE
    <3>1. f[i + 1] = viewCharacter(f[i], str[i + 1]) /\ str[i + 1] \in Glyphs
      BY <2>3, <2>6 DEF printed
    <3>2. /\ f[i + 1] \in Screens
          /\ f[i + 1].cp = IF f[i].cp + 1 >= End THEN f[i].cp + 1 - WIDTH ELSE f[i].cp + 1
      BY <2>4, <3>1, CharFacts
    <3>3. f[i + 1].cp < End + WIDTH
      BY <1>5, <2>4, <3>2
    <3> QED BY <1>5, <3>2, <3>3 DEF Near
  <2> QED BY <2>5, <2>6
<1>8. T = Nat
  <2>1. T \subseteq Nat
    OBVIOUS
  <2> HIDE DEF T
  <2> QED BY <1>6, <1>7, <2>1, NatInductionOnSets
<1>9. Near(n)
  <2>1. n \in T /\ n <= n
    BY <1>3, <1>8
  <2> QED BY <2>1
<1> QED BY <1>2, <1>3, <1>1, <1>4, <1>9 DEF Printing

-----------------------------------------------------------------------------
(* What the screen shows of a line or text.                                *)

\* The n characters x end at the cursor of v.
Seen(v, x, n) ==
    \A i \in 1 .. n : \A c \in Cells :
        c = v.cp - n + i - 1 => looks(v.cell[c]) = looks(x[i])

\* Nothing stands at the cursor or behind it.
Blank(v) == \A c \in Cells : c >= v.cp => looks(v.cell[c]) = NUL

\* The characters y are the n characters x, then ch.
Longer(x, n, y, m, ch) ==
    /\ n \in Nat /\ m = n + 1
    /\ \A i \in 1 .. n : y[i] = x[i]
    /\ y[m] = ch

LEMMA SeenChar ==
    ASSUME NEW v \in Screens, v.cp <= End, NEW ch \in Glyphs,
           NEW w, w = viewCharacter(v, ch),
           NEW n, NEW m, NEW x, NEW y, Seen(v, x, n), Longer(x, n, y, m, ch)
    PROVE  Seen(w, y, m)
<1> USE DEF Longer
<1>1. /\ w.cp = IF v.cp + 1 >= End THEN v.cp + 1 - WIDTH ELSE v.cp + 1
      /\ \A c \in Cells :
           w.cell[c] = IF c = w.cp - 1 THEN ch
                       ELSE IF v.cp + 1 < End THEN v.cell[c]
                       ELSE IF c + WIDTH < End THEN v.cell[c + WIDTH] ELSE NUL
  BY CharFacts
<1>2. v.cp \in Int /\ WIDTH \in Nat /\ End \in Nat /\ w.cp \in Int
  BY <1>1, ScreenSize DEF Screens
<1> SUFFICES ASSUME NEW i \in 1 .. m, NEW c \in Cells, c = w.cp - m + i - 1
             PROVE  looks(w.cell[c]) = looks(y[i])
  BY DEF Seen
<1>3. c \in Int /\ 0 <= c /\ c < End
  BY ScreenSize
<1>4. CASE i = m
  <2>1. c = w.cp - 1
    BY <1>2, <1>4
  <2> QED BY <1>1, <1>4, <2>1
<1>5. CASE i # m
  <2>1. i \in 1 .. n /\ c # w.cp - 1
    BY <1>2, <1>3, <1>5
  <2>2. CASE v.cp + 1 < End
    <3>1. c = v.cp - n + i - 1
      BY <1>1, <1>2, <2>1, <2>2
    <3>2. w.cell[c] = v.cell[c]
      BY <1>1, <2>1, <2>2
    <3> QED BY <2>1, <3>1, <3>2 DEF Seen
  <2>3. CASE ~(v.cp + 1 < End)
    <3>1. PICK d : d = c + WIDTH
      OBVIOUS
    <3>a. w.cp = v.cp + 1 - WIDTH
      BY <1>1, <1>2, <2>3
    <3>b. d = v.cp - n + i - 1 /\ d < End /\ d \in Int /\ 0 <= d
      BY <1>2, <1>3, <2>1, <3>1, <3>a
    <3>2. d = v.cp - n + i - 1 /\ d < End /\ d \in Cells
      BY <3>b, ScreenSize
    <3>3. w.cell[c] = v.cell[d]
      BY <1>1, <2>1, <2>3, <3>1, <3>2
    <3> QED BY <2>1, <3>2, <3>3 DEF Seen
  <2> QED BY <2>2, <2>3
<1> QED BY <1>4, <1>5

LEMMA BlankChar ==
    ASSUME NEW v \in Screens, Blank(v), NEW ch \in Glyphs,
           NEW w, w = viewCharacter(v, ch)
    PROVE  Blank(w)
<1>1. /\ w.cp = IF v.cp + 1 >= End THEN v.cp + 1 - WIDTH ELSE v.cp + 1
      /\ \A c \in Cells :
           w.cell[c] = IF c = w.cp - 1 THEN ch
                       ELSE IF v.cp + 1 < End THEN v.cell[c]
                       ELSE IF c + WIDTH < End THEN v.cell[c + WIDTH] ELSE NUL
  BY CharFacts
<1>2. v.cp \in Int /\ WIDTH \in Nat /\ End \in Nat /\ w.cp \in Int
  BY <1>1, ScreenSize DEF Screens
<1> SUFFICES ASSUME NEW c \in Cells, c >= w.cp
             PROVE  looks(w.cell[c]) = NUL
  BY DEF Blank
<1>3. c \in Int /\ 0 <= c /\ c < End /\ c # w.cp - 1
  BY <1>2, ScreenSize
<1>4. CASE v.cp + 1 < End
  <2>1. w.cell[c] = v.cell[c] /\ c >= v.cp
    BY <1>1, <1>2, <1>3, <1>4
  <2> QED BY <2>1 DEF Blank
<1>5. CASE ~(v.cp + 1 < End)
  <2>1. PICK d : d = c + WIDTH
    OBVIOUS
  <2>2. w.cell[c] = IF d < End THEN v.cell[d] ELSE NUL
    BY <1>1, <1>3, <1>5, <2>1
  <2>3. d < End => d \in Cells /\ d >= v.cp
    BY <1>1, <1>2, <1>3, <1>5, <2>1, ScreenSize
  <2> QED BY <2>2, <2>3 DEF Blank, looks, Space, NUL
<1> QED BY <1>4, <1>5

\* The characters y are all but the last of the n characters x.
Shorter(x, n, y, m) == m \in Nat /\ n = m + 1 /\ \A i \in 1 .. m : y[i] = x[i]

LEMMA SeenErase ==
    ASSUME NEW v \in Screens, NEW w, w = viewCharacter(v, BACK_SPACE),
           NEW n, NEW m, NEW x, NEW y, Seen(v, x, n), Shorter(x, n, y, m)
    PROVE  Seen(w, y, m) /\ (Blank(v) => Blank(w))
<1> USE DEF Shorter
<1>1. /\ w.cp = v.cp - 1
      /\ \A c \in Cells : w.cell[c] = IF c = w.cp THEN NUL ELSE v.cell[c]
  BY EraseFacts
<1>2. v.cp \in Int /\ w.cp \in Int
  BY <1>1 DEF Screens
<1>3. ASSUME NEW i \in 1 .. m, NEW c \in Cells, c = w.cp - m + i - 1
      PROVE  looks(w.cell[c]) = looks(y[i])
  <2>1. i \in 1 .. n /\ c = v.cp - n + i - 1 /\ c # w.cp
    BY <1>1, <1>2, <1>3
  <2>2. w.cell[c] = v.cell[c] /\ y[i] = x[i]
    BY <1>1, <2>1
  <2> QED BY <2>1, <2>2 DEF Seen
<1>4. ASSUME Blank(v), NEW c \in Cells, c >= w.cp
      PROVE  looks(w.cell[c]) = NUL
  <2>1. CASE c = w.cp
    BY <1>1, <2>1 DEF looks, Space, NUL
  <2>2. CASE c # w.cp
    <3>1. c >= v.cp
      BY <1>1, <1>2, <1>4, <2>2, ScreenSize
    <3> QED BY <1>1, <1>4, <2>2, <3>1 DEF Blank
  <2> QED BY <2>1, <2>2
<1> QED BY <1>3, <1>4 DEF Seen, Blank

\* A difference that is a whole number of lines.
LEMMA WholeLines ==
    /\ \A d \in Int : d % WIDTH = 0 => (d + WIDTH) % WIDTH = 0
    /\ \A n, c \in Nat : (n - c) % WIDTH = 0 => n % WIDTH = c % WIDTH
<1>1. PICK W : W = WIDTH
  OBVIOUS
<1>2. W \in Nat \ {0}
  BY <1>1, ScreenSize
<1>3. ASSUME NEW q \in Int, NEW k \in 0 .. W - 1 PROVE (W * q + k) % W = k
  BY <1>2
<1>4. ASSUME NEW d \in Int
      PROVE  \E q \in Int : d = W * q + (d % W) /\ d % W \in 0 .. W - 1
  <2>1. d \div W \in Int /\ d % W \in 0 .. W - 1 /\ d = W * (d \div W) + (d % W)
    BY <1>2
  <2> QED BY <2>1
<1>5. ASSUME NEW d \in Int, d % W = 0 PROVE (d + W) % W = 0
  <2>1. PICK q \in Int : d = W * q + (d % W)
    BY <1>4
  <2>2. W * (q + 1) = W * q + W /\ q + 1 \in Int /\ W * q \in Int
    BY <1>2
  <2>3. d + W = W * (q + 1) + 0 /\ 0 \in 0 .. W - 1
    BY <1>2, <1>5, <2>1, <2>2
  <2> QED BY <1>3, <2>2, <2>3
<1>6. ASSUME NEW n \in Nat, NEW c \in Nat, (n - c) % W = 0 PROVE n % W = c % W
  <2>1. n - c \in Int /\ c \in Int
    OBVIOUS
  <2>2. PICK q \in Int : n - c = W * q + ((n - c) % W)
    BY <1>4, <2>1
  <2>3. PICK p \in Int, k \in 0 .. W - 1 : c = W * p + k /\ k = c % W
    BY <1>4, <2>1
  <2>4. W * (q + p) = W * q + W * p /\ q + p \in Int /\ W * q \in Int /\ W * p \in Int
    BY <1>2
  <2>5. n = W * (q + p) + k
    BY <1>2, <1>6, <2>1, <2>2, <2>3, <2>4
  <2> QED BY <1>3, <2>3, <2>4, <2>5
<1> QED BY <1>1, <1>5, <1>6

\* The text of length n in b ends at the cursor of v, in the same column, and
\* nothing stands behind it.
ShowsText(v, b, n) ==
    /\ v \in Screens /\ v.cp <= End /\ (n - v.cp) % WIDTH = 0
    /\ Seen(v, FirstOf(b, n), n) /\ Blank(v)

\* A key is typed in the editor.
LEMMA ShowsKey ==
    ASSUME NEW v, NEW b, NEW n, NEW ch, NEW b2, NEW m, NEW w,
           ShowsText(v, b, n), Typed(b, n, ch, b2, m), w = viewCharacter(v, ch)
    PROVE  ShowsText(w, b2, m)
<1>1. StringLength(b, n) /\ ch \in Chars /\ m = n + 1 /\ StringLength(b2, m)
  <2>1. StringLength(b2, m)
    BY TypedText
  <2> QED BY <2>1 DEF Typed
<1>2. /\ n \in Nat /\ ch \in Glyphs /\ v \in Screens /\ v.cp <= End
      /\ (n - v.cp) % WIDTH = 0
  BY <1>1, LengthFacts, GlyphFacts DEF ShowsText
<1>3. /\ w \in Screens
      /\ w.cp = IF v.cp + 1 >= End THEN v.cp + 1 - WIDTH ELSE v.cp + 1
  BY <1>2, CharFacts
<1>4. v.cp \in Int /\ w.cp \in Int /\ WIDTH \in Nat /\ WIDTH >= 2 /\ End \in Nat
  BY <1>2, <1>3, ScreenSize DEF Screens
<1>5. w.cp <= End
  BY <1>2, <1>3, <1>4
<1>6. (m - w.cp) % WIDTH = 0
  <2>1. PICK d, e : d = n - v.cp /\ e = m - w.cp
    OBVIOUS
  <2>2. d \in Int /\ d % WIDTH = 0
    BY <1>2, <1>4, <2>1
  <2>3. e = d \/ e = d + WIDTH
    <3>1. w.cp = v.cp + 1 \/ w.cp = v.cp + 1 - WIDTH
      BY <1>3
    <3>2. n \in Nat /\ m = n + 1
      BY <1>1, <1>2
    <3> QED BY <1>4, <2>1, <3>1, <3>2
  <2> QED BY <2>1, <2>2, <2>3, WholeLines
<1>7. PICK x, y : x = FirstOf(b, n) /\ y = FirstOf(b2, m)
  OBVIOUS
<1>8. Seen(w, y, m)
  <2>1. /\ \A i \in 1 .. n : x[i] = b[i - 1]
        /\ \A i \in 1 .. m : y[i] = b2[i - 1]
    BY <1>7 DEF FirstOf
  <2>2. /\ \A i \in 1 .. n : i \in 1 .. m /\ i - 1 \in 0 .. n - 1
        /\ m \in 1 .. m /\ m - 1 = n
    BY <1>1, <1>2
  <2>3. b2[n] = ch /\ \A i \in 0 .. n - 1 : b2[i] = b[i]
    BY <1>1, LengthFacts DEF Typed, Cluster
  <2>4. Longer(x, n, y, m, ch)
    BY <1>1, <1>2, <2>1, <2>2, <2>3 DEF Longer
  <2>5. Seen(v, x, n)
    BY <1>7 DEF ShowsText
  <2> QED BY <1>2, <2>4, <2>5, SeenChar
<1>9. Blank(w)
  BY <1>2, BlankChar DEF ShowsText
<1> QED BY <1>3, <1>5, <1>6, <1>7, <1>8, <1>9 DEF ShowsText

\* The last character is erased.
Erased(b, n, b2, m) ==
    StringLength(b, n) /\ n > 0 /\ m = n - 1 /\ b2 = [b EXCEPT ![m] = NUL]

LEMMA ShowsErased ==
    ASSUME NEW v, NEW b, NEW n, NEW b2, NEW m, NEW w,
           ShowsText(v, b, n), Erased(b, n, b2, m), w = viewCharacter(v, BACK_SPACE)
    PROVE  ShowsText(w, b2, m)
<1> USE DEF Erased
<1>1. /\ n \in Nat /\ m \in Nat /\ n = m + 1 /\ v \in Screens /\ v.cp <= End
      /\ (n - v.cp) % WIDTH = 0 /\ Seen(v, FirstOf(b, n), n) /\ Blank(v)
  BY LengthFacts DEF ShowsText
<1>2. w \in Screens /\ w.cp = v.cp - 1
  BY <1>1, EraseFacts
<1>3. v.cp \in Int /\ End \in Nat
  BY <1>1, ScreenSize DEF Screens
<1>4. w.cp <= End /\ m - w.cp = n - v.cp
  BY <1>1, <1>2, <1>3
<1>5. PICK x, y : x = FirstOf(b, n) /\ y = FirstOf(b2, m)
  OBVIOUS
<1>6. Shorter(x, n, y, m)
  <2>1. /\ \A i \in 1 .. n : x[i] = b[i - 1]
        /\ \A i \in 1 .. m : y[i] = b2[i - 1]
    BY <1>5 DEF FirstOf
  <2>2. \A i \in 1 .. m : i \in 1 .. n /\ i - 1 \in 0 .. m - 1
    BY <1>1
  <2>3. \A i \in 0 .. m - 1 : b2[i] = b[i]
    BY <1>1, LengthFacts DEF Cluster
  <2> QED BY <1>1, <2>1, <2>2, <2>3 DEF Shorter
<1>7. Seen(w, y, m) /\ Blank(w)
  BY <1>1, <1>5, <1>6, SeenErase
<1> QED BY <1>1, <1>2, <1>4, <1>5, <1>7 DEF ShowsText

\* The line is broken, with the cursor on the screen.
LEMMA ShowsBroken ==
    ASSUME NEW v, NEW b, NEW n, NEW k, NEW b2, NEW m, NEW fill, NEW w,
           ShowsText(v, b, n), Filled(b, n, k, b2, m, fill), k = WIDTH - (n % WIDTH),
           v.cp \in Cells, w = moveToNextLine(v)
    PROVE  ShowsText(w, b2, m)
<1>1. /\ n \in Nat /\ k \in Nat \ {0} /\ m = n + k /\ v \in Screens
      /\ (n - v.cp) % WIDTH = 0 /\ Seen(v, FirstOf(b, n), n) /\ Blank(v)
  BY LengthFacts DEF ShowsText, Filled
<1>2. v.cp \in Nat /\ v.cp < End /\ WIDTH \in Nat \ {0} /\ End \in Nat
  BY ScreenSize
<1>3. n % WIDTH = v.cp % WIDTH
  BY <1>1, <1>2, WholeLines
<1>4. w \in Screens /\ w.cell = v.cell /\ w.cp = v.cp + WIDTH - (v.cp % WIDTH) /\ w.cp <= End
  BY <1>1, <1>2, LineFacts
<1>5. w.cp = v.cp + k
  <2>1. PICK e : e = v.cp % WIDTH
    OBVIOUS
  <2>2. e \in Int /\ k = WIDTH - e /\ w.cp = v.cp + WIDTH - e
    BY <1>2, <1>3, <1>4, <2>1
  <2> QED BY <1>2, <2>2
<1>6. m - w.cp = n - v.cp
  BY <1>1, <1>2, <1>5
<1>7. PICK x, y : x = FirstOf(b, n) /\ y = FirstOf(b2, m)
  OBVIOUS
<1>8. /\ \A i \in 1 .. n : x[i] = b[i - 1]
      /\ \A i \in 1 .. m : y[i] = b2[i - 1]
  BY <1>7 DEF FirstOf
<1>9. Seen(w, y, m)
  <2> SUFFICES ASSUME NEW i \in 1 .. m, NEW c \in Cells, c = w.cp - m + i - 1
               PROVE  looks(w.cell[c]) = looks(y[i])
    BY DEF Seen
  <2>1. c \in Int /\ c = v.cp - n + i - 1 /\ w.cell[c] = v.cell[c]
    <3>1. c \in Int
      BY ScreenSize
    <3>2. m \in Nat /\ i \in Int /\ c = (v.cp + k) - (n + k) + i - 1
      BY <1>1, <1>5
    <3> QED BY <1>1, <1>2, <1>4, <3>1, <3>2
  <2>a. i - 1 \in 0 .. BUF - 1 /\ i - 1 # m
    BY <1>1, TerminalAssumption DEF Filled
  <2>2. b2[i - 1] = IF i - 1 \in n .. m - 1 THEN Space ELSE b[i - 1]
    BY <2>a DEF Filled
  <2>3. CASE i <= n
    <3>1. i \in 1 .. n /\ ~(i - 1 \in n .. m - 1)
      BY <1>1, <2>3
    <3>2. y[i] = x[i] /\ looks(v.cell[c]) = looks(x[i])
      BY <1>1, <1>7, <1>8, <2>1, <2>2, <3>1 DEF Seen
    <3> QED BY <2>1, <3>2
  <2>4. CASE ~(i <= n)
    <3>1. i - 1 \in n .. m - 1 /\ c >= v.cp
      BY <1>1, <1>2, <2>1, <2>4
    <3>2. y[i] = Space /\ looks(v.cell[c]) = NUL
      BY <1>1, <1>8, <2>2, <3>1 DEF Blank
    <3> QED BY <2>1, <3>2 DEF looks
  <2> QED BY <2>3, <2>4
<1>10. Blank(w)
  <2>1. \A c \in Cells : c >= w.cp => c >= v.cp
    BY <1>1, <1>2, <1>5, ScreenSize
  <2> QED BY <1>1, <1>4, <2>1 DEF Blank
<1> QED BY <1>1, <1>4, <1>6, <1>7, <1>9, <1>10 DEF ShowsText

\* f is the sequence of screens behind the first n rounds of the loop of viewText.
ViewRounds(f, n, b) ==
    f = [i \in 0 .. n |-> IF i = 0 THEN clear ELSE viewCharacter(f[i - 1], b[i - 1])]

LEMMA ViewRoundsExist ==
    ASSUME NEW b, NEW n \in Nat
    PROVE  \E f : ViewRounds(f, n, b)
<1> DEFINE T == {m \in Nat : \E f : ViewRounds(f, m, b)}
<1>1. 0 \in T
  <2>1. ViewRounds([i \in 0 .. 0 |-> clear], 0, b)
    BY DEF ViewRounds
  <2> QED BY <2>1
<1>2. ASSUME NEW m \in T PROVE m + 1 \in T
  <2>1. PICK f : ViewRounds(f, m, b)
    OBVIOUS
  <2> DEFINE g == [i \in 0 .. m + 1 |->
                     IF i <= m THEN f[i] ELSE viewCharacter(f[m], b[m + 1 - 1])]
  <2>2. m \in Nat /\ m + 1 \in Nat
    OBVIOUS
  <2>3. ASSUME NEW i \in 0 .. m + 1
        PROVE  g[i] = IF i = 0 THEN clear ELSE viewCharacter(g[i - 1], b[i - 1])
    <3>1. CASE i = 0
      BY <2>1, <2>2, <3>1 DEF ViewRounds
    <3>2. CASE i # 0 /\ i <= m
      <4>1. i \in 0 .. m /\ i - 1 \in 0 .. m + 1 /\ i - 1 <= m
        BY <2>2, <3>2
      <4>2. f[i] = viewCharacter(f[i - 1], b[i - 1])
        BY <2>1, <3>2, <4>1 DEF ViewRounds
      <4> QED BY <3>2, <4>1, <4>2
    <3>3. CASE i = m + 1
      <4>1. ~(i <= m) /\ i # 0 /\ i - 1 = m /\ m \in 0 .. m + 1 /\ m <= m
        BY <2>2, <3>3
      <4> QED BY <3>3, <4>1
    <3> QED BY <2>2, <3>1, <3>2, <3>3
  <2>4. ViewRounds(g, m + 1, b)
    <3> DEFINE h == [i \in 0 .. m + 1 |->
                       IF i = 0 THEN clear ELSE viewCharacter(g[i - 1], b[i - 1])]
    <3>1. \A i \in 0 .. m + 1 : g[i] = h[i]
      BY <2>3
    <3>2. g = h
      BY <3>1
    <3> QED BY <3>2 DEF ViewRounds
  <2> QED BY <2>2, <2>4
<1> HIDE DEF T
<1>3. T = Nat
  <2>1. T \subseteq Nat
    BY DEF T
  <2> QED BY <1>1, <1>2, <2>1, NatInductionOnSets
<1> QED BY <1>3 DEF T


\* The text of a file on an empty screen: all of it, if it leaves a line free.
LEMMA ViewFacts ==
    ASSUME NEW b, NEW n, StringLength(b, n), NEW k \in 0 .. n, k <= MAX_LENGTH,
           NEW w, w = viewText(b, k)
    PROVE  w \in Screens /\ (k = n => ShowsText(w, b, n))
<1>1. /\ n \in Nat /\ k \in Nat /\ MAX_LENGTH \in Nat /\ WIDTH \in Nat /\ WIDTH >= 2
      /\ End \in Nat /\ k < End
  BY LengthFacts, ScreenSize
<1>2. PICK f : f = CHOOSE g : ViewRounds(g, k, b)
  OBVIOUS
<1>3. ViewRounds(f, k, b)
  BY <1>1, <1>2, ViewRoundsExist
<1>4. w = f[k]
  BY <1>2 DEF viewText, ViewRounds
<1>5. PICK x : x = FirstOf(b, n)
  OBVIOUS
<1> DEFINE Shows(i) == f[i] \in Screens /\ f[i].cp = i /\ Seen(f[i], x, i) /\ Blank(f[i])
           T == {i \in Nat : i <= k => Shows(i)}
<1>6. 0 \in T
  <2>1. f[0] = clear
    BY <1>1, <1>3 DEF ViewRounds
  <2>2. Seen(clear, x, 0)
    BY DEF Seen
  <2>3. Blank(clear)
    BY ClearFacts DEF Blank, looks, Space, NUL
  <2> QED BY <2>1, <2>2, <2>3, ClearFacts
<1>7. ASSUME NEW i \in T PROVE i + 1 \in T
  <2>1. i \in Nat /\ i + 1 \in Nat /\ (i <= k => Shows(i))
    OBVIOUS
  <2> SUFFICES ASSUME i + 1 <= k PROVE Shows(i + 1)
    BY <2>1
  <2>2. Shows(i) /\ i + 1 \in 0 .. k /\ i + 1 # 0 /\ (i + 1) - 1 = i /\ i + 1 \in 1 .. n
    BY <1>1, <2>1
  <2>3. PICK v, u, m : v = f[i] /\ u = f[i + 1] /\ m = i + 1
    OBVIOUS
  <2>4. /\ v \in Screens /\ v.cp = i /\ Seen(v, x, i) /\ Blank(v)
        /\ m \in 0 .. k /\ m # 0 /\ m - 1 = i /\ m \in 1 .. n /\ m = i + 1
    BY <2>2, <2>3
  <2>5. u = viewCharacter(v, b[i])
    BY <1>3, <2>3, <2>4 DEF ViewRounds
  <2>6. x[m] = b[i] /\ b[i] \in Glyphs
    <3>1. i \in 0 .. n - 1 /\ i \in 0 .. BUF - 1
      BY <1>1, <2>1, <2>4, LengthFacts
    <3>2. b[i] \in Chars \cup {NUL, Space} /\ b[i] # NUL
      BY <3>1 DEF StringLength, Cluster
    <3>3. x[m] = b[m - 1]
      BY <1>5, <2>4 DEF FirstOf
    <3> QED BY <2>4, <3>2, <3>3, GlyphFacts
  <2>7. u \in Screens /\ u.cp = m
    <3>1. /\ u \in Screens
          /\ u.cp = IF v.cp + 1 >= End THEN v.cp + 1 - WIDTH ELSE v.cp + 1
      BY <2>4, <2>5, <2>6, CharFacts
    <3>2. ~(v.cp + 1 >= End)
      BY <1>1, <2>1, <2>4
    <3> QED BY <2>4, <3>1, <3>2
  <2>8. v.cp <= End
    BY <1>1, <2>1, <2>4
  <2>9. Seen(u, x, m)
    <3>1. Longer(x, i, x, m, b[i])
      BY <2>1, <2>4, <2>6 DEF Longer
    <3> QED BY <2>4, <2>5, <2>6, <2>8, <3>1, SeenChar
  <2>10. Blank(u)
    BY <2>4, <2>5, <2>6, BlankChar
  <2> QED BY <2>3, <2>7, <2>9, <2>10
<1> HIDE DEF Shows
<1>8. T = Nat
  <2>1. T \subseteq Nat
    OBVIOUS
  <2> HIDE DEF T
  <2> QED BY <1>6, <1>7, <2>1, NatInductionOnSets
<1>9. Shows(k)
  <2>1. k \in T /\ k <= k
    BY <1>1, <1>8
  <2> QED BY <2>1
<1>10. w \in Screens /\ w.cp = k /\ Seen(w, x, k) /\ Blank(w)
  BY <1>4, <1>9 DEF Shows
<1>11. ASSUME k = n PROVE w.cp <= End /\ (n - w.cp) % WIDTH = 0
  <2>1. n - w.cp = 0
    BY <1>1, <1>10, <1>11
  <2>2. 0 % WIDTH = 0
    BY <1>1
  <2> QED BY <1>1, <1>10, <1>11, <2>1, <2>2
<1> QED BY <1>5, <1>10, <1>11 DEF ShowsText

-----------------------------------------------------------------------------
(* The invariant of the screen.                                            *)

\* In the shell the cursor is at most behind the last cell, and on the screen behind
\* the line unless other output came in.
BehindPrompt ==
    mode = "shell" =>
        /\ screen.cp <= End
        /\ ~disturbed => Seen(screen, line, Len(line))

InEditor == mode = "edit" /\ ~disturbed => ShowsText(screen, buffer, strIdx)

\* The inductive invariant: strIdx is where the text in the buffer ends, the cursor that comes back when the editor is left is at most a line below the screen,
\* and the screen shows line or text, and nothing behind the text.
ScreenInv ==
    /\ TextInv /\ TypeOK
    /\ monitor.cp <= End + WIDTH
    /\ BehindPrompt /\ InEditor

LEMMA CursorType ==
    /\ \A v \in Screens : v.cp \in Int
    /\ WIDTH \in Nat /\ WIDTH >= 2 /\ End \in Nat /\ End >= 2 * WIDTH
BY ScreenSize DEF Screens

\* The prompt, one character shorter, ends at most right behind the screen.
LEMMA PromptEnds ==
    ASSUME NEW v \in Screens, v.cp <= End + 2 * WIDTH, NEW w, w = printString(v, Prompt)
    PROVE  w \in Screens /\ w.cp <= End
<1>1. PICK str, n : str = Prompt /\ n = 4
  OBVIOUS
<1>2. n \in Nat /\ n = Len(str) /\ \A i \in 1 .. n : str[i] = Other
  BY <1>1 DEF Prompt
<1>3. PICK f : Printing(f, n, v, str)
  BY <1>2, PrintIsRounds
<1>4. \A i \in 1 .. 4 : f[i] = viewCharacter(f[i - 1], Other)
  BY <1>1, <1>2, <1>3, GlyphFacts DEF printed, Printing
<1>5. /\ f[1] = viewCharacter(v, Other) /\ f[2] = viewCharacter(f[1], Other)
      /\ f[3] = viewCharacter(f[2], Other) /\ w = viewCharacter(f[3], Other)
  <2>1. \A i \in 1 .. 4 : i - 1 \in 0 .. 3
    OBVIOUS
  <2> QED BY <1>1, <1>3, <1>4, <2>1 DEF Printing
<1> DEFINE Above(t, d) == t.cp <= End \/ t.cp <= End + 2 * WIDTH - d
<1>6. ASSUME NEW s \in Screens, NEW d \in Nat, NEW t, t = viewCharacter(s, Other),
             NEW e, e = d + WIDTH - 1
      PROVE  t \in Screens /\ (Above(s, d) => Above(t, e))
  <2>1. /\ t \in Screens
        /\ t.cp = IF s.cp + 1 >= End THEN s.cp + 1 - WIDTH ELSE s.cp + 1
    BY <1>6, CharFacts, GlyphFacts
  <2> QED BY <1>6, <2>1, CursorType
<1>7. /\ 0 \in Nat /\ WIDTH - 1 \in Nat /\ 2 * WIDTH - 2 \in Nat
      /\ 3 * WIDTH - 3 \in Nat
      /\ WIDTH - 1 = 0 + WIDTH - 1
      /\ 2 * WIDTH - 2 = (WIDTH - 1) + WIDTH - 1
      /\ 3 * WIDTH - 3 = (2 * WIDTH - 2) + WIDTH - 1
      /\ 4 * WIDTH - 4 = (3 * WIDTH - 3) + WIDTH - 1
  BY CursorType
<1>8. Above(v, 0) /\ (w \in Screens /\ Above(w, 4 * WIDTH - 4) => w.cp <= End)
  BY CursorType
<1> HIDE DEF Above
<1>9. f[1] \in Screens /\ (Above(v, 0) => Above(f[1], WIDTH - 1))
  BY <1>5, <1>6, <1>7
<1>10. f[2] \in Screens /\ (Above(f[1], WIDTH - 1) => Above(f[2], 2 * WIDTH - 2))
  BY <1>5, <1>6, <1>7, <1>9
<1>11. f[3] \in Screens /\ (Above(f[2], 2 * WIDTH - 2) => Above(f[3], 3 * WIDTH - 3))
  BY <1>5, <1>6, <1>7, <1>10
<1>12. w \in Screens /\ (Above(f[3], 3 * WIDTH - 3) => Above(w, 4 * WIDTH - 4))
  BY <1>5, <1>6, <1>7, <1>11
<1> QED BY <1>8, <1>9, <1>10, <1>11, <1>12

\* A prompt on the next line, from at most a line below the screen.
LEMMA PromptFacts ==
    ASSUME NEW v \in Screens, v.cp <= End + WIDTH,
           NEW w, w = printString(puts(v, <<>>), Prompt)
    PROVE  w \in Screens /\ w.cp <= End
<1>1. PICK u : u = puts(v, <<>>)
  OBVIOUS
<1>2. u = moveToNextLine(v)
  BY <1>1, ShortStrings
<1>3. u \in Screens /\ u.cp <= End + 2 * WIDTH
  BY <1>2, LineFacts
<1> QED BY <1>1, <1>3, PromptEnds

LEMMA NoLineShown ==
    ASSUME screen' \in Screens, screen'.cp <= End, line' = <<>>, mode' = "shell"
    PROVE  BehindPrompt' /\ InEditor'
<1>2. Len(line') = 0
  OBVIOUS
<1>3. Seen(screen', line', Len(line'))
  BY <1>2 DEF Seen
<1>4. BehindPrompt'
  BY <1>3 DEF BehindPrompt
<1>5. InEditor'
  BY DEF InEditor
<1> QED BY <1>4, <1>5

LEMMA NewPromptShown ==
    ASSUME NEW v \in Screens, v.cp <= End + WIDTH, newPrompt(v), mode' = "shell"
    PROVE  /\ screen' \in Screens /\ line' = <<>> /\ disturbed' = FALSE
           /\ BehindPrompt' /\ InEditor'
<1>1. screen' = printString(puts(v, <<>>), Prompt) /\ line' = <<>> /\ disturbed' = FALSE
  BY DEF newPrompt
<1>2. screen' \in Screens /\ screen'.cp <= End
  BY <1>1, PromptFacts
<1> QED BY <1>1, <1>2, NoLineShown

\* The line behind the command.
LEMMA EnterFacts ==
    ASSUME ScreenInv, mode = "shell", NEW u, u = puts(screen, <<>>)
    PROVE  u \in Screens /\ u.cp <= End + WIDTH
<1>1. u = moveToNextLine(screen)
  BY ShortStrings
<1>2. screen \in Screens /\ screen.cp <= End
  BY DEF ScreenInv, TypeOK, BehindPrompt
<1>3. screen.cp < End + WIDTH
  BY <1>2, CursorType
<1> QED BY <1>1, <1>2, <1>3, LineFacts

\* What the commands leave.
LEMMA CommandFacts ==
    ASSUME NEW u \in Screens, u.cp <= End + WIDTH, NEW v \in commandScreens(u)
    PROVE  v \in Screens /\ v.cp <= End + WIDTH
<1>1. CASE v = u
  BY <1>1
<1>2. CASE v = clear
  BY <1>2, ClearFacts, CursorType
<1>3. ASSUME NEW str \in Outputs, v = printString(u, str) \/ v = puts(u, str)
      PROVE  v \in Screens /\ v.cp <= End + WIDTH
  <2>1. PICK w : w = printString(u, str)
    OBVIOUS
  <2>2. w \in Screens /\ w.cp < End + WIDTH
    BY <2>1, OutputFacts
  <2>3. CASE v = w
    BY <2>2, <2>3, CursorType
  <2>4. CASE v = moveToNextLine(w)
    BY <2>2, <2>4, LineFacts
  <2> QED BY <1>3, <2>1, <2>3, <2>4 DEF puts
<1>4. v \in {u, clear} \/ \E str \in Outputs : v = printString(u, str) \/ v = puts(u, str)
  BY DEF commandScreens
<1> QED BY <1>1, <1>2, <1>3, <1>4

LEMMA CountEnter ==
    ASSUME TypeOK, enter
    PROVE  mode = "shell" /\ soFar' \in [commands : 0 .. MaxCommands, others : 0 .. MaxOther]
<1>1. soFar \in [commands : 0 .. MaxCommands, others : 0 .. MaxOther]
  BY Zenon DEF TypeOK
<1> QED BY <1>1, TerminalAssumption DEF enter

LEMMA CountOther ==
    ASSUME TypeOK, disturb
    PROVE  soFar' \in [commands : 0 .. MaxCommands, others : 0 .. MaxOther]
<1>1. soFar \in [commands : 0 .. MaxCommands, others : 0 .. MaxOther]
  BY Zenon DEF TypeOK
<1> QED BY <1>1, TerminalAssumption DEF disturb

\* TypeOK after a step: text and file are as TextInv says.
LEMMA TypesAfter ==
    ASSUME TextInv', screen' \in Screens, monitor' \in Screens,
           mode' \in {"shell", "edit", "state"},
           line' \in Seq(Chars \cup {ESC}), Len(line') <= MaxLine,
           stateBuffer' \in Seq(Commands), Len(stateBuffer') <= MaxState,
           demo' \in BOOLEAN, disturbed' \in BOOLEAN,
           soFar' \in [commands : 0 .. MaxCommands, others : 0 .. MaxOther]
    PROVE  TypeOK'
<1>1. /\ buffer' \in Cluster /\ strIdx' \in 0 .. BUF - 1
      /\ cluster' \in Cluster /\ fileSize' \in -1 .. BUF - 1
  BY DEF TextInv, StringLength
<1> QED BY <1>1, Zenon DEF TypeOK

\* The types of what most steps leave alone.
LEMMA TypesKept ==
    ASSUME TypeOK
    PROVE  /\ screen \in Screens /\ monitor \in Screens
           /\ mode \in {"shell", "edit", "state"}
           /\ line \in Seq(Chars \cup {ESC}) /\ Len(line) <= MaxLine
           /\ stateBuffer \in Seq(Commands) /\ Len(stateBuffer) <= MaxState
           /\ demo \in BOOLEAN /\ disturbed \in BOOLEAN
           /\ soFar \in [commands : 0 .. MaxCommands, others : 0 .. MaxOther]
BY Zenon DEF TypeOK

LEMMA EmptyTypes ==
    /\ <<>> \in Seq(Chars \cup {ESC}) /\ <<>> \in Seq(Commands)
    /\ Len(<<>>) <= MaxLine /\ Len(<<>>) <= MaxState
BY TerminalAssumption

-----------------------------------------------------------------------------
(* One lemma per action.                                                   *)

LEMMA ScreenKey ==
    ASSUME ScreenInv, TextInv', NEW ch \in Chars \cup {ESC}, shellKey(ch)
    PROVE  ScreenInv'
<1>1. /\ mode = "shell" /\ Len(line) < MaxLine /\ line' = Append(line, ch)
      /\ screen' = viewCharacter(screen, ch)
      /\ UNCHANGED <<monitor, mode, stateBuffer, demo, disturbed, soFar>>
  BY DEF shellKey, editVars
<1>2. /\ TypeOK /\ screen \in Screens /\ screen.cp <= End /\ ch \in Glyphs
      /\ line \in Seq(Chars \cup {ESC}) /\ monitor.cp <= End + WIDTH
  BY <1>1, GlyphFacts DEF ScreenInv, TypeOK, BehindPrompt
<1>3. /\ screen' \in Screens
      /\ screen'.cp = IF screen.cp + 1 >= End THEN screen.cp + 1 - WIDTH ELSE screen.cp + 1
  BY <1>1, <1>2, CharFacts
<1>4. screen'.cp < End /\ screen'.cp <= End
  BY <1>2, <1>3, CursorType
<1>5. PICK x, n, y, m : x = line /\ n = Len(line) /\ y = line' /\ m = Len(line')
  OBVIOUS
<1>6. Longer(x, n, y, m, ch)
  BY <1>1, <1>2, <1>5 DEF Longer
<1>7. ASSUME ~disturbed PROVE Seen(screen', y, m)
  <2>1. Seen(screen, x, n)
    BY <1>1, <1>5, <1>7 DEF ScreenInv, BehindPrompt
  <2> QED BY <1>1, <1>2, <1>6, <2>1, SeenChar
<1>8. BehindPrompt'
  BY <1>1, <1>4, <1>5, <1>7 DEF BehindPrompt
<1>9. InEditor'
  BY <1>1 DEF InEditor
<1>10. line' \in Seq(Chars \cup {ESC}) /\ Len(line') <= MaxLine
  BY <1>1, <1>2, TerminalAssumption
<1>11. TypeOK'
  BY <1>1, <1>2, <1>3, <1>10, TypesKept, TypesAfter, Zenon
<1> QED BY <1>1, <1>2, <1>8, <1>9, <1>11 DEF ScreenInv

LEMMA ScreenBackspace ==
    ASSUME ScreenInv, TextInv', shellBackspace PROVE ScreenInv'
<1>1. /\ mode = "shell" /\ line # <<>> /\ line' = SubSeq(line, 1, Len(line) - 1)
      /\ screen' = viewCharacter(screen, BACK_SPACE)
      /\ UNCHANGED <<monitor, mode, stateBuffer, demo, disturbed, soFar>>
  BY DEF shellBackspace, editVars, Front
<1>2. /\ TypeOK /\ screen \in Screens /\ screen.cp <= End
      /\ line \in Seq(Chars \cup {ESC}) /\ Len(line) <= MaxLine
      /\ monitor.cp <= End + WIDTH
  BY <1>1 DEF ScreenInv, TypeOK, BehindPrompt
<1>3. screen' \in Screens /\ screen'.cp = screen.cp - 1
  BY <1>1, <1>2, EraseFacts
<1>4. screen'.cp < End /\ screen'.cp <= End
  BY <1>2, <1>3, CursorType
<1>5. PICK x, n, y, m : x = line /\ n = Len(line) /\ y = line' /\ m = Len(line')
  OBVIOUS
<1>6. Shorter(x, n, y, m)
  BY <1>1, <1>2, <1>5 DEF Shorter
<1>7. ASSUME ~disturbed PROVE Seen(screen', y, m)
  <2>1. Seen(screen, x, n)
    BY <1>1, <1>5, <1>7 DEF ScreenInv, BehindPrompt
  <2> QED BY <1>1, <1>2, <1>6, <2>1, SeenErase
<1>8. BehindPrompt'
  BY <1>1, <1>4, <1>5, <1>7 DEF BehindPrompt
<1>9. InEditor'
  BY <1>1 DEF InEditor
<1>10. line' \in Seq(Chars \cup {ESC}) /\ Len(line') <= MaxLine
  BY <1>1, <1>2, TerminalAssumption
<1>11. TypeOK'
  BY <1>1, <1>2, <1>3, <1>10, TypesKept, TypesAfter, Zenon
<1> QED BY <1>1, <1>2, <1>8, <1>9, <1>11 DEF ScreenInv

LEMMA ScreenEnter == ASSUME ScreenInv, TextInv', shellEnter PROVE ScreenInv'
<1>1. PICK v : v \in commandScreens(puts(screen, <<>>)) /\ newPrompt(v)
  BY DEF shellEnter
<1>2. enter /\ UNCHANGED <<monitor, mode, stateBuffer, demo>>
  BY DEF shellEnter, editVars
<1>3. TypeOK /\ mode = "shell" /\ mode' = "shell" /\ monitor.cp <= End + WIDTH
  BY <1>2, CountEnter DEF ScreenInv
<1>4. v \in Screens /\ v.cp <= End + WIDTH
  <2>1. PICK u : u = puts(screen, <<>>)
    OBVIOUS
  <2>2. u \in Screens /\ u.cp <= End + WIDTH
    BY <1>3, <2>1, EnterFacts
  <2> QED BY <1>1, <2>1, <2>2, CommandFacts
<1>5. /\ screen' \in Screens /\ line' = <<>> /\ disturbed' = FALSE
      /\ BehindPrompt' /\ InEditor'
  BY <1>1, <1>3, <1>4, NewPromptShown
<1>6. TypeOK'
  <2>1. demo' \in BOOLEAN /\ disturbed' \in BOOLEAN
    BY <1>2, <1>3, <1>5, TypesKept, Zenon
  <2> QED BY <1>2, <1>3, <1>5, <2>1, CountEnter, EmptyTypes, TypesKept, TypesAfter, Zenon
<1> QED BY <1>2, <1>3, <1>5, <1>6 DEF ScreenInv

\* A command that prints nothing, or str and a new line.
LEMMA ScreenFile ==
    ASSUME ScreenInv, TextInv', enter, UNCHANGED <<monitor, mode, stateBuffer, demo>>,
           NEW u, u = puts(screen, <<>>), NEW v, newPrompt(v),
           v = u \/ \E str \in Outputs : v = puts(u, str)
    PROVE  ScreenInv'
<1>1. TypeOK /\ mode = "shell" /\ mode' = "shell" /\ monitor.cp <= End + WIDTH
  BY CountEnter DEF ScreenInv
<1>2. v \in Screens /\ v.cp <= End + WIDTH
  <2>1. u \in Screens /\ u.cp <= End + WIDTH
    BY <1>1, EnterFacts
  <2>2. v \in commandScreens(u)
    BY DEF commandScreens
  <2> QED BY <2>1, <2>2, CommandFacts
<1>3. /\ screen' \in Screens /\ line' = <<>> /\ disturbed' = FALSE
      /\ BehindPrompt' /\ InEditor'
  BY <1>1, <1>2, NewPromptShown
<1>4. TypeOK'
  <2>1. demo' \in BOOLEAN /\ disturbed' \in BOOLEAN
    BY <1>1, <1>3, TypesKept, Zenon
  <2> QED BY <1>1, <1>3, <2>1, CountEnter, EmptyTypes, TypesKept, TypesAfter, Zenon
<1> QED BY <1>1, <1>3, <1>4 DEF ScreenInv

LEMMA ScreenTouch == ASSUME ScreenInv, TextInv', shellTouch PROVE ScreenInv'
<1>1. PICK u : u = puts(screen, <<>>)
  OBVIOUS
<1>2. enter /\ newPrompt(u) /\ UNCHANGED <<monitor, mode, stateBuffer, demo>>
  BY <1>1 DEF shellTouch, editVars
<1> QED BY <1>1, <1>2, ScreenFile

LEMMA ScreenRemove == ASSUME ScreenInv, TextInv', shellRemove PROVE ScreenInv'
<1>1. PICK u : u = puts(screen, <<>>)
  OBVIOUS
<1>2. enter /\ UNCHANGED <<monitor, mode, stateBuffer, demo>>
  BY DEF shellRemove, editVars
<1>3. newPrompt(u) \/ \E str \in Outputs : newPrompt(puts(u, str))
  BY <1>1 DEF shellRemove
<1>4. PICK v : newPrompt(v) /\ (v = u \/ \E str \in Outputs : v = puts(u, str))
  BY <1>3
<1> QED BY <1>1, <1>2, <1>4, ScreenFile

LEMMA ScreenDemo == ASSUME ScreenInv, TextInv', shellDemo PROVE ScreenInv'
<1>1. PICK v : v = cursorLine(clear, LINE_COUNT - 1)
  OBVIOUS
<1>2. /\ enter /\ newPrompt(v) /\ demo' = TRUE
      /\ UNCHANGED <<monitor, mode, stateBuffer>>
  BY <1>1 DEF shellDemo, editVars
<1>3. TypeOK /\ mode = "shell" /\ mode' = "shell" /\ monitor.cp <= End + WIDTH
  BY <1>2, CountEnter DEF ScreenInv
<1>4. v \in Screens /\ v.cp <= End + WIDTH
  <2>1. v = [clear EXCEPT !.cp = MAX_LENGTH]
    BY <1>1 DEF cursorLine, MAX_LENGTH
  <2>2. v.cp = MAX_LENGTH /\ v \in Screens
    BY <2>1, ClearFacts, ScreenSize DEF Screens
  <2> QED BY <2>2, ScreenSize
<1>5. /\ screen' \in Screens /\ line' = <<>> /\ disturbed' = FALSE
      /\ BehindPrompt' /\ InEditor'
  BY <1>2, <1>3, <1>4, NewPromptShown
<1>6. TypeOK'
  <2>1. demo' \in BOOLEAN /\ disturbed' \in BOOLEAN
    BY <1>2, <1>3, <1>5, TypesKept, Zenon
  <2> QED BY <1>2, <1>3, <1>5, <2>1, CountEnter, EmptyTypes, TypesKept, TypesAfter, Zenon
<1> QED BY <1>2, <1>3, <1>5, <1>6 DEF ScreenInv

\* The screen after the boot.
LEMMA FirstPrompt ==
    ASSUME NEW w, w = printString(clear, Prompt)
    PROVE  w \in Screens /\ w.cp <= End
BY PromptEnds, ClearFacts, CursorType

LEMMA ScreenReboot == ASSUME ScreenInv, TextInv', shellReboot PROVE ScreenInv'
<1>1. /\ enter /\ screen' = printString(clear, Prompt) /\ monitor' = clear
      /\ line' = <<>> /\ stateBuffer' = <<>> /\ demo' = FALSE /\ disturbed' = FALSE
      /\ UNCHANGED mode
  BY DEF shellReboot
<1>2. TypeOK /\ mode' = "shell"
  BY <1>1, CountEnter DEF ScreenInv
<1>3. screen' \in Screens /\ screen'.cp <= End
  BY <1>1, FirstPrompt
<1>4. BehindPrompt' /\ InEditor'
  BY <1>1, <1>2, <1>3, NoLineShown
<1>5. monitor' \in Screens /\ monitor'.cp <= End + WIDTH
  BY <1>1, ClearFacts, CursorType
<1>6. TypeOK'
  <2>1. demo' \in BOOLEAN /\ disturbed' \in BOOLEAN
    BY <1>1, Zenon
  <2> QED BY <1>1, <1>2, <1>3, <1>5, <2>1, CountEnter, EmptyTypes, TypesAfter, Zenon
<1> QED BY <1>4, <1>5, <1>6 DEF ScreenInv

LEMMA ScreenOpen == ASSUME ScreenInv, TextInv', openEditor PROVE ScreenInv'
<1>1. /\ enter /\ monitor' = puts(screen, <<>>) /\ buffer' = cluster
      /\ strIdx' = strlen(cluster) /\ mode' = "edit" /\ disturbed' = (strIdx' > MAX_LENGTH)
      /\ screen' = viewText(cluster, IF strIdx' < MAX_LENGTH THEN strIdx' ELSE MAX_LENGTH)
      /\ UNCHANGED <<line, stateBuffer, demo>>
  BY DEF openEditor, saveVideoMemory
<1>2. TextInv /\ TypeOK /\ mode = "shell"
  BY <1>1, CountEnter DEF ScreenInv
<1>3. PICK b, n, k : /\ b = cluster /\ n = strlen(cluster)
                     /\ k = IF n < MAX_LENGTH THEN n ELSE MAX_LENGTH
  OBVIOUS
<1>4. StringLength(b, n) /\ strIdx' = n /\ buffer' = b
  BY <1>1, <1>2, <1>3 DEF TextInv
<1>5. /\ screen' = viewText(b, k) /\ k \in 0 .. n /\ k <= MAX_LENGTH
      /\ n <= MAX_LENGTH => k = n
  <2>1. n \in Nat /\ MAX_LENGTH \in Nat
    BY <1>4, LengthFacts, ScreenSize
  <2> QED BY <1>1, <1>3, <1>4, <2>1
<1>6. screen' \in Screens /\ (k = n => ShowsText(screen', b, n))
  BY <1>4, <1>5, ViewFacts
<1>7. monitor' \in Screens /\ monitor'.cp <= End + WIDTH
  BY <1>1, <1>2, EnterFacts
<1>8. n \in Nat /\ MAX_LENGTH \in Nat
  BY <1>4, LengthFacts, ScreenSize
<1>9. InEditor'
  <2>1. ASSUME ~disturbed' PROVE k = n
    <3>1. ~(n > MAX_LENGTH)
      BY <1>1, <1>4, <2>1, Zenon
    <3> QED BY <1>5, <1>8, <3>1
  <2> QED BY <1>4, <1>6, <2>1 DEF InEditor
<1>10. BehindPrompt'
  BY <1>1 DEF BehindPrompt
<1>11. TypeOK'
  <2>1. demo' \in BOOLEAN
    BY <1>1, <1>2, TypesKept, Zenon
  <2>2. (strIdx' > MAX_LENGTH) \in BOOLEAN
    OBVIOUS
  <2>3. disturbed' \in BOOLEAN
    BY <1>1, <2>2, Zenon
  <2> QED BY <1>1, <1>2, <1>6, <1>7, <2>1, <2>3, CountEnter, TypesKept, TypesAfter, Zenon
<1> QED BY <1>7, <1>9, <1>10, <1>11 DEF ScreenInv

\* What a key in the editor leaves alone.
LEMMA ScreenTyping ==
    ASSUME ScreenInv, TextInv', typing, screen' \in Screens,
           mode \in {"edit", "state"}, mode' \in {"edit", "state"},
           stateBuffer' \in Seq(Commands), Len(stateBuffer') <= MaxState,
           disturbed' \in BOOLEAN, InEditor'
    PROVE  ScreenInv'
<1>1. UNCHANGED <<monitor, line, demo, soFar>> /\ TypeOK /\ monitor.cp <= End + WIDTH
  BY DEF typing, ScreenInv
<1>2. mode' \in {"shell", "edit", "state"} /\ mode' # "shell"
  OBVIOUS
<1>3. TypeOK'
  BY <1>1, <1>2, TypesKept, TypesAfter, Zenon
<1>4. BehindPrompt'
  BY <1>2 DEF BehindPrompt
<1> QED BY <1>1, <1>3, <1>4 DEF ScreenInv

LEMMA ScreenEditKey ==
    ASSUME ScreenInv, TextInv', NEW ch \in Chars, editKey(ch) PROVE ScreenInv'
<1>1. /\ mode = "edit" /\ mode' = mode /\ strIdx < BUF - 1 /\ typing
      /\ buffer' = [buffer EXCEPT ![strIdx] = ch, ![strIdx + 1] = NUL]
      /\ strIdx' = strIdx + 1 /\ screen' = viewCharacter(screen, ch)
      /\ stateBuffer' = stateBuffer /\ disturbed' = disturbed
  BY DEF editKey
<1>2. TypeOK /\ TextInv
  BY DEF ScreenInv
<1>3. screen' \in Screens
  BY <1>1, <1>2, TypesKept, CharFacts, GlyphFacts
<1>4. PICK b, n, b2, m : b = buffer /\ n = strIdx /\ b2 = buffer' /\ m = strIdx'
  OBVIOUS
<1>5. Typed(b, n, ch, b2, m)
  BY <1>1, <1>2, <1>4 DEF TextInv, Typed
<1>6. ASSUME ~disturbed PROVE ShowsText(screen', b2, m)
  <2>1. ShowsText(screen, b, n)
    BY <1>1, <1>4, <1>6 DEF ScreenInv, InEditor
  <2> QED BY <1>1, <1>5, <2>1, ShowsKey
<1>7. InEditor'
  BY <1>1, <1>4, <1>6 DEF InEditor
<1>8. disturbed' \in BOOLEAN
  BY <1>1, <1>2, TypesKept, Zenon
<1> QED BY <1>1, <1>2, <1>3, <1>7, <1>8, TypesKept, ScreenTyping

LEMMA ScreenEditBackspace ==
    ASSUME ScreenInv, TextInv', editBackspace PROVE ScreenInv'
<1>1. /\ mode = "edit" /\ mode' = mode /\ strIdx > 0 /\ typing
      /\ buffer' = [buffer EXCEPT ![strIdx - 1] = NUL]
      /\ strIdx' = strIdx - 1 /\ screen' = viewCharacter(screen, BACK_SPACE)
      /\ stateBuffer' = stateBuffer /\ disturbed' = disturbed
  BY DEF editBackspace
<1>2. TypeOK /\ TextInv
  BY DEF ScreenInv
<1>3. screen' \in Screens
  BY <1>1, <1>2, TypesKept, EraseFacts
<1>4. PICK b, n, b2, m : b = buffer /\ n = strIdx /\ b2 = buffer' /\ m = strIdx'
  OBVIOUS
<1>5. Erased(b, n, b2, m)
  BY <1>1, <1>2, <1>4 DEF TextInv, Erased
<1>6. ASSUME ~disturbed PROVE ShowsText(screen', b2, m)
  <2>1. ShowsText(screen, b, n)
    BY <1>1, <1>4, <1>6 DEF ScreenInv, InEditor
  <2> QED BY <1>1, <1>5, <2>1, ShowsErased
<1>7. InEditor'
  BY <1>1, <1>4, <1>6 DEF InEditor
<1>8. disturbed' \in BOOLEAN
  BY <1>1, <1>2, TypesKept, Zenon
<1> QED BY <1>1, <1>2, <1>3, <1>7, <1>8, TypesKept, ScreenTyping

LEMMA ScreenEditEnter ==
    ASSUME ScreenInv, TextInv', editEnter PROVE ScreenInv'
<1>1. PICK b, n, b2, m, k, fill :
        /\ b = buffer /\ n = strIdx /\ b2 = buffer' /\ m = strIdx'
        /\ k = WIDTH - (n % WIDTH) /\ fill = [i \in 1 .. k |-> Space]
  OBVIOUS
<1>2. /\ StringLength(b, n) /\ n \in Nat /\ WIDTH \in Nat \ {0}
      /\ TypeOK
  BY <1>1, LengthFacts, ConsoleAssumption DEF ScreenInv, TextInv
<1>3. n % WIDTH \in 0 .. WIDTH - 1
  BY <1>2
<1>4. k \in Nat \ {0} /\ n - (n % WIDTH) + WIDTH = n + k
  BY <1>1, <1>2, <1>3
<1>5. /\ mode = "edit" /\ mode' = mode /\ stateBuffer' = stateBuffer /\ typing
      /\ m = n + k /\ m <= BUF - 1
      /\ b2 = [i \in 0 .. BUF - 1 |->
                  IF i = m THEN NUL ELSE IF i \in n .. m - 1 THEN Space ELSE b[i]]
  BY <1>1, <1>4 DEF editEnter
<1>6. /\ screen' = moveToNextLine(screen)
      /\ disturbed' = (disturbed \/ screen.cp \notin Cells)
  BY DEF editEnter
<1>7. Filled(b, n, k, b2, m, fill)
  BY <1>1, <1>2, <1>4, <1>5 DEF Filled
<1>8. screen' \in Screens
  BY <1>2, <1>6, TypesKept, LineFacts
<1>9. ASSUME ~disturbed' PROVE ShowsText(screen', b2, m)
  <2>1. ShowsText(screen, b, n) /\ screen.cp \in Cells
    BY <1>1, <1>5, <1>6, <1>9 DEF ScreenInv, InEditor
  <2> QED BY <1>1, <1>6, <1>7, <2>1, ShowsBroken
<1>10. InEditor'
  BY <1>1, <1>9 DEF InEditor
<1>11. disturbed' \in BOOLEAN
  BY <1>2, <1>6, TypesKept, Zenon
<1> QED BY <1>2, <1>5, <1>8, <1>10, <1>11, TypesKept, ScreenTyping

\* While the last line is edited, only the types are kept.
LEMMA ScreenState ==
    ASSUME ScreenInv, TextInv', typing, screen' \in Screens,
           mode \in {"edit", "state"}, mode' = "state",
           stateBuffer' \in Seq(Commands), Len(stateBuffer') <= MaxState,
           disturbed' = disturbed
    PROVE  ScreenInv'
<1>1. InEditor'
  BY DEF InEditor
<1>2. disturbed' \in BOOLEAN
  BY TypesKept, Zenon DEF ScreenInv
<1> QED BY <1>1, <1>2, ScreenTyping

LEMMA DirectWrite ==
    ASSUME NEW v \in Screens, NEW ch \in Glyphs \cup {NUL}, NEW y, NEW x,
           NEW w, w = viewCharacterXY(v, ch, y, x)
    PROVE  /\ w \in Screens /\ w.cp = v.cp
           /\ \A c \in Cells : c # y * WIDTH + x => w.cell[c] = v.cell[c]
<1>1. PICK d : d = y * WIDTH + x
  OBVIOUS
<1>a. ch # BACK_SPACE
  BY GlyphFacts DEF NUL, BACK_SPACE
<1>2. w = IF d \in Cells THEN [v EXCEPT !.cell[d] = ch] ELSE v
  BY <1>1, <1>a DEF viewCharacterXY, put
<1> QED BY <1>1, <1>2 DEF Screens

\* A BACK_SPACE in writeXY moves the cursor of the shell.
LEMMA DirectErase ==
    ASSUME NEW v \in Screens, NEW y, NEW x,
           NEW w, w = viewCharacterXY(v, BACK_SPACE, y, x)
    PROVE  w \in Screens /\ w.cp = v.cp - 1
<1>1. PICK d, u : d = y * WIDTH + x - 1 /\ u = put(v, d, NUL)
  OBVIOUS
<1>2. w = [u EXCEPT !.cp = @ - 1]
  BY <1>1 DEF viewCharacterXY
<1>3. u = IF d \in Cells THEN [v EXCEPT !.cell[d] = NUL] ELSE v
  BY <1>1 DEF put
<1>4. u \in Screens /\ u.cp = v.cp /\ u.cp \in Int
  BY <1>3 DEF Screens
<1> QED BY <1>2, <1>4 DEF Screens

LEMMA ScreenEscape == ASSUME ScreenInv, TextInv', editEscape PROVE ScreenInv'
<1>1. /\ mode = "edit" /\ mode' = "state" /\ stateBuffer' = <<>> /\ typing
      /\ screen' = screen /\ disturbed' = disturbed
  BY DEF editEscape
<1>2. screen' \in Screens
  BY <1>1, TypesKept DEF ScreenInv
<1> QED BY <1>1, <1>2, EmptyTypes, ScreenState

LEMMA ScreenStateKey ==
    ASSUME ScreenInv, TextInv', NEW ch \in Commands, stateKey(ch) PROVE ScreenInv'
<1>1. /\ mode = "state" /\ mode' = mode /\ typing /\ disturbed' = disturbed
      /\ Len(stateBuffer) < MaxState /\ stateBuffer' = Append(stateBuffer, ch)
      /\ screen' = viewCharacterXY(screen, ch, LINE_COUNT - 1, Len(stateBuffer))
  BY DEF stateKey
<1>2. TypeOK /\ screen \in Screens /\ stateBuffer \in Seq(Commands) /\ ch \in Glyphs
  BY TypesKept, GlyphFacts DEF ScreenInv
<1>3. screen' \in Screens
  BY <1>1, <1>2, DirectWrite
<1>4. stateBuffer' \in Seq(Commands) /\ Len(stateBuffer') <= MaxState
  BY <1>1, <1>2, TerminalAssumption
<1> QED BY <1>1, <1>3, <1>4, ScreenState

LEMMA ScreenStateBackspace ==
    ASSUME ScreenInv, TextInv', stateBackspace PROVE ScreenInv'
<1>1. /\ mode = "state" /\ mode' = mode /\ typing /\ disturbed' = disturbed
      /\ stateBuffer # <<>> /\ stateBuffer' = SubSeq(stateBuffer, 1, Len(stateBuffer) - 1)
      /\ screen' = viewCharacterXY(screen, NUL, LINE_COUNT - 1, Len(stateBuffer) - 1)
  BY DEF stateBackspace, Front
<1>2. /\ TypeOK /\ screen \in Screens /\ stateBuffer \in Seq(Commands)
      /\ Len(stateBuffer) <= MaxState
  BY TypesKept DEF ScreenInv
<1>3. screen' \in Screens
  BY <1>1, <1>2, DirectWrite
<1>4. stateBuffer' \in Seq(Commands) /\ Len(stateBuffer') <= MaxState
  BY <1>1, <1>2, TerminalAssumption
<1> QED BY <1>1, <1>3, <1>4, ScreenState

LEMMA ScreenStateEscape ==
    ASSUME ScreenInv, TextInv', stateEscape PROVE ScreenInv'
<1>1. /\ disturb /\ mode' = "edit" /\ stateBuffer' = <<>> /\ disturbed' = TRUE
      /\ screen' = viewCharacter(blankLine(screen, LINE_COUNT - 1), ESC)
      /\ UNCHANGED <<monitor, line, demo>>
  BY DEF stateEscape
<1>2. TypeOK /\ screen \in Screens /\ monitor.cp <= End + WIDTH
  BY TypesKept DEF ScreenInv
<1>3. screen' \in Screens
  <2>1. PICK v : v = blankLine(screen, LINE_COUNT - 1)
    OBVIOUS
  <2>2. v \in Screens
    BY <1>2, <2>1 DEF blankLine, Screens
  <2> QED BY <1>1, <2>1, <2>2, CharFacts, GlyphFacts
<1>4. BehindPrompt' /\ InEditor'
  BY <1>1 DEF BehindPrompt, InEditor
<1>5. TypeOK'
  <2>1. demo' \in BOOLEAN /\ disturbed' \in BOOLEAN
    BY <1>1, <1>2, TypesKept, Zenon
  <2> QED BY <1>1, <1>2, <1>3, <2>1, CountOther, EmptyTypes, TypesKept, TypesAfter, Zenon
<1> QED BY <1>1, <1>2, <1>4, <1>5 DEF ScreenInv

LEMMA ScreenLeave == ASSUME ScreenInv, TextInv', leaveEditor PROVE ScreenInv'
<1>1. /\ newPrompt(monitor) /\ mode' = "shell" /\ monitor' = clear
      /\ stateBuffer' = <<>> /\ UNCHANGED <<demo, soFar>>
  BY DEF leaveEditor
<1>2. TypeOK /\ monitor \in Screens /\ monitor.cp <= End + WIDTH
  BY TypesKept DEF ScreenInv
<1>3. /\ screen' \in Screens /\ line' = <<>> /\ disturbed' = FALSE
      /\ BehindPrompt' /\ InEditor'
  BY <1>1, <1>2, NewPromptShown
<1>4. monitor' \in Screens /\ monitor'.cp <= End + WIDTH
  BY <1>1, ClearFacts, CursorType
<1>5. TypeOK'
  <2>1. demo' \in BOOLEAN /\ disturbed' \in BOOLEAN
    BY <1>1, <1>2, <1>3, TypesKept, Zenon
  <2> QED BY <1>1, <1>2, <1>3, <1>4, <2>1, EmptyTypes, TypesKept, TypesAfter, Zenon
<1> QED BY <1>3, <1>4, <1>5 DEF ScreenInv

LEMMA ScreenDraw == ASSUME ScreenInv, TextInv', drawDemo PROVE ScreenInv'
<1>1. /\ disturb /\ UNCHANGED <<monitor, mode, line, stateBuffer, buffer, strIdx, demo>>
  BY DEF drawDemo, editVars
<1>2. PICK ch \in {Other, BACK_SPACE}, y \in 0 .. LINE_COUNT - 1, x \in 0 .. WIDTH - 1 :
        /\ screen' = viewCharacterXY(screen, ch, y, x)
        /\ disturbed' = (disturbed \/ ch = BACK_SPACE \/ y * WIDTH + x \in ownCells)
  BY DEF drawDemo
<1>3. TypeOK /\ screen \in Screens /\ Other \in Glyphs \cup {NUL}
  BY TypesKept, GlyphFacts DEF ScreenInv
<1>4. PICK d : d = y * WIDTH + x
  OBVIOUS
<1>a. CASE ch = BACK_SPACE
  <2>1. disturbed' = TRUE
    BY <1>2, <1>a, Zenon
  <2>2. screen' \in Screens /\ screen'.cp = screen.cp - 1
    BY <1>2, <1>3, <1>a, DirectErase
  <2>3. InEditor'
    BY <2>1 DEF InEditor
  <2>4. BehindPrompt'
    <3>1. mode = "shell" => screen'.cp <= End
      BY <1>3, <2>2, CursorType DEF ScreenInv, BehindPrompt
    <3> QED BY <1>1, <2>1, <3>1 DEF BehindPrompt
  <2>5. disturbed' \in BOOLEAN
    BY <2>1, Zenon
  <2>6. TypeOK'
    BY <1>1, <1>3, <2>2, <2>5, CountOther, TypesKept, TypesAfter, Zenon
  <2> QED BY <1>1, <2>3, <2>4, <2>6 DEF ScreenInv
<1> SUFFICES ASSUME ch = Other PROVE ScreenInv'
  BY <1>a
<1>5. /\ screen' \in Screens /\ screen'.cp = screen.cp
      /\ \A c \in Cells : c # d => screen'.cell[c] = screen.cell[c]
  BY <1>2, <1>3, <1>4, DirectWrite
<1>6. d \in Cells
  <2>1. y \in Nat /\ x \in Nat /\ x < WIDTH /\ WIDTH \in Nat /\ LINE_COUNT \in Nat
        /\ y + 1 <= LINE_COUNT
    BY ScreenSize
  <2>2. /\ y * WIDTH \in Nat /\ (y + 1) * WIDTH = y * WIDTH + WIDTH
        /\ (y + 1) * WIDTH <= End
    BY <2>1 DEF End
  <2>3. d \in Int /\ 0 <= d /\ d < End
    BY <1>4, <2>1, <2>2, ScreenSize
  <2> QED BY <2>3, ScreenSize
<1>7. InEditor'
  <2>1. ASSUME mode = "edit" PROVE disturbed'
    BY <1>2, <1>4, <1>6, <2>1 DEF ownCells
  <2> QED BY <1>1, <2>1 DEF InEditor
<1>8. BehindPrompt'
  <2>1. ASSUME mode = "shell" PROVE screen'.cp <= End
    BY <1>5, <2>1 DEF ScreenInv, BehindPrompt
  <2>2. ASSUME mode = "shell", ~disturbed'
        PROVE  Seen(screen', line', Len(line'))
    <3>1. PICK n : n = Len(line)
      OBVIOUS
    <3>2. /\ ~disturbed /\ d \notin screen.cp - n .. screen.cp - 1
      BY <1>2, <1>4, <2>2, <3>1 DEF ownCells
    <3>3. Seen(screen, line, n) /\ n \in Nat
      BY <1>3, <2>2, <3>1, <3>2, TypesKept DEF ScreenInv, BehindPrompt
    <3>4. Seen(screen', line, n)
      <4> SUFFICES ASSUME NEW i \in 1 .. n, NEW c \in Cells, c = screen'.cp - n + i - 1
                   PROVE  looks(screen'.cell[c]) = looks(line[i])
        BY DEF Seen
      <4>1. c = screen.cp - n + i - 1 /\ c # d
        BY <1>3, <1>5, <3>2, <3>3, CursorType
      <4> QED BY <1>5, <3>3, <4>1 DEF Seen
    <3> QED BY <1>1, <1>5, <3>1, <3>3, <3>4
  <2> QED BY <1>1, <2>1, <2>2 DEF BehindPrompt
<1>9. disturbed' \in BOOLEAN
  BY <1>2, <1>3, TypesKept, Zenon
<1>10. TypeOK'
  BY <1>1, <1>3, <1>5, <1>9, CountOther, TypesKept, TypesAfter, Zenon
<1> QED BY <1>1, <1>7, <1>8, <1>10 DEF ScreenInv

LEMMA ScreenReport == ASSUME ScreenInv, TextInv', report PROVE ScreenInv'
<1>1. /\ disturb /\ disturbed' = TRUE
      /\ UNCHANGED <<monitor, mode, line, stateBuffer, demo>>
      /\ \/ screen' = puts(moveToNextLine(screen), Message)
         \/ screen' = printString(puts(screen, Message), <<Other>>)
  BY DEF report, editVars
<1>2. TypeOK /\ screen \in Screens
  BY TypesKept DEF ScreenInv
<1>3. mode = "shell" => screen.cp <= End
  BY DEF ScreenInv, BehindPrompt
<1>4. ASSUME screen' = puts(moveToNextLine(screen), Message)
      PROVE  screen' \in Screens /\ (mode = "shell" => screen'.cp <= End)
  <2>1. PICK u, v : u = moveToNextLine(screen) /\ v = printString(u, Message)
    OBVIOUS
  <2>2. screen' = moveToNextLine(v)
    BY <1>4, <2>1 DEF puts
  <2>3. u \in Screens /\ (screen.cp <= End + WIDTH => u.cp <= End + 2 * WIDTH)
    BY <1>2, <2>1, LineFacts
  <2>4. v \in Screens /\ (u.cp <= End + 2 * WIDTH => v.cp < End)
    BY <2>1, <2>3, MessageFacts
  <2>5. screen' \in Screens /\ (v.cp < End => screen'.cp <= End)
    BY <2>2, <2>4, LineFacts
  <2>6. screen.cp <= End => screen.cp <= End + WIDTH
    BY <1>2, CursorType
  <2> QED BY <1>3, <2>3, <2>4, <2>5, <2>6
<1>5. ASSUME screen' = printString(puts(screen, Message), <<Other>>)
      PROVE  screen' \in Screens /\ (mode = "shell" => screen'.cp <= End)
  <2>1. PICK u, v : u = printString(screen, Message) /\ v = moveToNextLine(u)
    OBVIOUS
  <2>2. screen' = viewCharacter(v, Other)
    BY <1>5, <2>1, ShortStrings DEF puts
  <2>3. u \in Screens /\ (screen.cp <= End + 2 * WIDTH => u.cp < End)
    BY <1>2, <2>1, MessageFacts
  <2>4. v \in Screens /\ (u.cp < End => v.cp <= End)
    BY <2>1, <2>3, LineFacts
  <2>5. /\ screen' \in Screens
        /\ screen'.cp = IF v.cp + 1 >= End THEN v.cp + 1 - WIDTH ELSE v.cp + 1
    BY <2>2, <2>4, CharFacts, GlyphFacts
  <2>6. /\ screen.cp <= End => screen.cp <= End + 2 * WIDTH
        /\ v.cp <= End => screen'.cp <= End
    BY <1>2, <2>4, <2>5, CursorType
  <2> QED BY <1>3, <2>3, <2>4, <2>5, <2>6
<1>6. screen' \in Screens /\ (mode = "shell" => screen'.cp <= End)
  BY <1>1, <1>3, <1>4, <1>5
<1>7. BehindPrompt' /\ InEditor'
  BY <1>1, <1>6 DEF BehindPrompt, InEditor
<1>8. TypeOK'
  <2>1. disturbed' \in BOOLEAN
    BY <1>1, Zenon
  <2> QED BY <1>1, <1>2, <1>6, <2>1, CountOther, TypesKept, TypesAfter, Zenon
<1> QED BY <1>1, <1>7, <1>8 DEF ScreenInv

LEMMA ScreenStep == ASSUME ScreenInv, TextInv', Next PROVE ScreenInv'
<1>1. ASSUME NEW ch \in Chars \cup {ESC}, shellKey(ch) PROVE ScreenInv'
  BY <1>1, ScreenKey
<1>2. CASE shellBackspace
  BY <1>2, ScreenBackspace
<1>3. CASE shellEnter
  BY <1>3, ScreenEnter
<1>4. CASE shellDemo
  BY <1>4, ScreenDemo
<1>5. CASE shellReboot
  BY <1>5, ScreenReboot
<1>6. CASE openEditor
  BY <1>6, ScreenOpen
<1>7. ASSUME NEW ch \in Chars, editKey(ch) PROVE ScreenInv'
  BY <1>7, ScreenEditKey
<1>8. ASSUME NEW ch \in Commands, stateKey(ch) PROVE ScreenInv'
  BY <1>8, ScreenStateKey
<1>9. CASE editEnter
  BY <1>9, ScreenEditEnter
<1>10. CASE editBackspace
  BY <1>10, ScreenEditBackspace
<1>11. CASE editEscape
  BY <1>11, ScreenEscape
<1>12. CASE stateBackspace
  BY <1>12, ScreenStateBackspace
<1>13. CASE stateEscape
  BY <1>13, ScreenStateEscape
<1>14. CASE stateSave \/ stateQuit
  BY <1>14, ScreenLeave DEF stateSave, stateQuit
<1>15. CASE drawDemo
  BY <1>15, ScreenDraw
<1>16. CASE endDemo
  <2>1. /\ demo' = FALSE
        /\ UNCHANGED <<screen, monitor, mode, line, stateBuffer, buffer, strIdx, disturbed,
                       soFar>>
    BY <1>16 DEF endDemo, editVars
  <2>2. TypeOK /\ demo' \in BOOLEAN
    BY <2>1, Zenon DEF ScreenInv
  <2>3. TypeOK'
    BY <2>1, <2>2, TypesKept, TypesAfter, Zenon
  <2> QED BY <2>1, <2>3 DEF ScreenInv, BehindPrompt, InEditor
<1>17. CASE report
  BY <1>17, ScreenReport
<1>18. CASE shellTouch
  BY <1>18, ScreenTouch
<1>19. CASE shellRemove
  BY <1>19, ScreenRemove
<1> QED BY <1>1, <1>2, <1>3, <1>4, <1>5, <1>6, <1>7, <1>8, <1>9, <1>10, <1>11, <1>12,
           <1>13, <1>14, <1>15, <1>16, <1>17, <1>18, <1>19 DEF Next

\* The screen shows line and text, and the types are as declared.
LEMMA ScreenInvAlways == Spec => []ScreenInv
<1>1. Init => ScreenInv
  <2> SUFFICES ASSUME Init PROVE ScreenInv
    OBVIOUS
  <2>1. TextInv
    BY InitTexts
  <2>2. screen \in Screens /\ screen.cp <= End
    BY FirstPrompt DEF Init
  <2>3. monitor \in Screens /\ monitor.cp <= End + WIDTH
    BY ClearFacts, CursorType DEF Init
  <2>4. TypeOK
    <3>1. /\ mode = "shell" /\ line = <<>> /\ stateBuffer = <<>>
          /\ demo = FALSE /\ disturbed = FALSE
          /\ soFar \in [commands : 0 .. MaxCommands, others : 0 .. MaxOther]
      BY TerminalAssumption DEF Init
    <3>2. demo \in BOOLEAN /\ disturbed \in BOOLEAN
      BY <3>1, Zenon
    <3>3. /\ buffer \in Cluster /\ strIdx \in 0 .. BUF - 1
          /\ cluster \in Cluster /\ fileSize \in -1 .. BUF - 1
      BY <2>1 DEF TextInv, StringLength
    <3> QED BY <2>2, <2>3, <3>1, <3>2, <3>3, EmptyTypes, Zenon DEF TypeOK
  <2>5. BehindPrompt /\ InEditor
    <3>2. mode = "shell" /\ Len(line) = 0
      BY DEF Init
    <3>3. Seen(screen, line, Len(line))
      BY <3>2 DEF Seen
    <3> QED BY <2>2, <3>2, <3>3 DEF BehindPrompt, InEditor
  <2> QED BY <2>1, <2>3, <2>4, <2>5 DEF ScreenInv
<1>2. ScreenInv /\ [Next]_vars => ScreenInv'
  <2>1. ASSUME ScreenInv, Next PROVE ScreenInv'
    <3>1. TextInv'
      BY <2>1, EditorStep DEF ScreenInv, Sees
    <3> QED BY <2>1, <3>1, ScreenStep
  <2>2. ASSUME ScreenInv, UNCHANGED vars PROVE ScreenInv'
    BY <2>2 DEF ScreenInv, TextInv, TypeOK, BehindPrompt, InEditor, vars, editVars, fileVars
  <2> QED BY <2>1, <2>2
<1> QED BY <1>1, <1>2, PTL DEF Spec

\* What ends at the cursor is what Shown says.
LEMMA SeenIsShown ==
    ASSUME TypeOK, NEW str, NEW n \in Nat, n = Len(str), Seen(screen, str, n)
    PROVE  Shown(str)
<1> SUFFICES ASSUME NEW i \in 1 .. n, NEW c, c = screen.cp - n + i - 1, c \in Cells
             PROVE  looks(screen.cell[c]) = looks(str[i])
  BY DEF Shown
<1> QED BY DEF Seen

\* What the shell executes on ENTER is what stands behind the prompt, through scrolling,
\* erasing and editing files, unless another process wrote there or moved the cursor
\* (startShell, writeXY).
THEOREM VisibleIsExecutedAlways == Spec => []VisibleIsExecuted
<1>1. ScreenInv => VisibleIsExecuted
  <2> SUFFICES ASSUME ScreenInv PROVE VisibleIsExecuted
    OBVIOUS
  <2>1. TypeOK /\ Len(line) \in Nat
    BY TypesKept DEF ScreenInv
  <2>2. ASSUME mode = "shell", ~disturbed PROVE Shown(line)
    <3>1. Seen(screen, line, Len(line))
      BY <2>2 DEF ScreenInv, BehindPrompt
    <3> QED BY <2>1, <3>1, SeenIsShown
  <2> QED BY <2>1, <2>2 DEF VisibleIsExecuted
<1> QED BY <1>1, ScreenInvAlways, PTL

\* The editor shows its text where the cursor is, in the same column, however the text
\* was typed, erased, broken into lines, scrolled or opened (runEditor).
THEOREM EditorShowsTextAlways == Spec => []EditorShowsText
<1>1. ScreenInv => EditorShowsText
  <2> SUFFICES ASSUME ScreenInv, mode = "edit", ~disturbed
               PROVE  (strIdx - screen.cp) % WIDTH = 0 /\ Shown(stringIn(buffer))
    BY DEF EditorShowsText
  <2>1. TypeOK /\ StringLength(buffer, strIdx) /\ ShowsText(screen, buffer, strIdx)
    BY DEF ScreenInv, TextInv, InEditor
  <2>2. PICK str : str = FirstOf(buffer, strIdx)
    OBVIOUS
  <2>3. stringIn(buffer) = str /\ strIdx \in Nat /\ Len(str) = strIdx
    BY <2>1, <2>2, StringOf, TextIsSeq, LengthFacts DEF IsText
  <2>4. Shown(str)
    BY <2>1, <2>2, <2>3, SeenIsShown DEF ShowsText
  <2> QED BY <2>1, <2>3, <2>4 DEF ShowsText
<1> QED BY <1>1, ScreenInvAlways, PTL
=============================================================================
