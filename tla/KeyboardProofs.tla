--------------------------- MODULE KeyboardProofs ---------------------------
(***************************************************************************)
(* The keyboard driver of Keyboard for every queue length, every set of    *)
(* workers and any number of keystrokes. The inductive invariant has two   *)
(* parts:                                                                  *)
(*   - ReaderInv: the scheduler is consistent (ProcessProofs), and a       *)
(*     blocked shell is the registered waiter of an empty queue;           *)
(*   - StreamInv: what is due is what is queued, followed by what the      *)
(*     handler will make of the bytes on the wire from its present state.  *)
(*     Decodes says that without recursion: there are the decoder states   *)
(*     between the bytes, and the number of characters made so far.        *)
(***************************************************************************)
EXTENDS Keyboard, ProcessProofs, SequenceTheorems

\* The processes that are ever scheduled.
Scheduled == Workers \cup {Shell}

ReaderInv ==
    /\ Consistent(sched, Scheduled)
    /\ at \in [Pids -> {"run", "sleep", "key", "gc"}]
    /\ at[Idle] = "run" /\ at[Shell] \in {"run", "key"}
    /\ \A p \in Workers : at[p] \in {"run", "sleep"}
    /\ Elems(sched.sleepList) \subseteq Workers
    /\ keyWaiter \in {NULL, Shell}
    /\ sched.state[Shell] = BLOCKED =>
         keyQueue = <<>> /\ keyWaiter = Shell /\ at[Shell] = "key"

\* A state of the decoder: the handler's wait for further bytes, and shiftOn.
Decoder == [want |-> isr.want, ascii |-> isr.ascii, shift |-> shiftOn]

\* The decoder waits for n more bytes of a code that stands for c.
Waits(n, c, shift) == [want |-> n, ascii |-> c, shift |-> shift]

\* Between two keystrokes nothing is waited for, and the shift key is as it is held.
AtRest(shift) == Waits(0, "none", shift)

\* The character of a key.
KeyChar(key, shift) == IF shift THEN upper[key] ELSE key

\* The character the handler makes of byte b in decoder state d, or "none".
Emit(d, b) ==
    CASE d.want > 1 -> "none"
      [] d.want = 1 -> d.ascii
      [] OTHER      -> IF b \in Keys THEN KeyChar(b, d.shift) ELSE "none"

\* The decoder state behind byte b.
After(d, b) ==
    IF d.want > 0
    THEN [want  |-> d.want - 1,
          ascii |-> IF d.want = 1 THEN "none" ELSE d.ascii,
          shift |-> d.shift]
    ELSE [want  |-> moreBytes(b),
          ascii |-> IF b = "E1" THEN "pause" ELSE "none",
          shift |-> b = "shiftDown" \/ (d.shift /\ b # "shiftUp")]

\* A decoding of the bytes w from d to e, with the characters out: st[k] is the
\* state before the k-th byte, and made[k] characters are made by then.
Trace(st, made, d, w, e, out) ==
    /\ made \in [1 .. Len(w) + 1 -> Nat]
    /\ st[1] = d /\ st[Len(w) + 1] = e
    /\ made[1] = 0 /\ made[Len(w) + 1] = Len(out)
    /\ \A j, k \in 1 .. Len(w) + 1 : j <= k => made[j] <= made[k]
    /\ \A k \in 1 .. Len(w) :
         /\ st[k + 1] = After(st[k], w[k])
         /\ Emit(st[k], w[k]) = "none" => made[k + 1] = made[k]
         /\ Emit(st[k], w[k]) # "none" =>
              /\ made[k + 1] = made[k] + 1
              /\ out[made[k + 1]] = Emit(st[k], w[k])

Decodes(d, w, e, out) == \E st, made : Trace(st, made, d, w, e, out)

\* du is the queue q followed by what the bytes w make of a decoder in state d,
\* which they bring to rest.
Pending(q, du, d, w, shift) ==
    \E out \in Seq(Chars) : du = q \o out /\ Decodes(d, w, AtRest(shift), out)

StreamTyped ==
    /\ keyQueue \in Seq(Chars) /\ Len(keyQueue) < QUEUE_COUNT
    /\ wire \in Seq(Bytes) /\ strokes \in 0 .. MaxStrokes
    /\ shiftOn \in BOOLEAN /\ held \in BOOLEAN
    /\ isr \in [want : 0 .. 2, ascii : {"none", "pause"}]
    /\ isr.want = 0 => isr.ascii = "none"

StreamInv == StreamTyped /\ Pending(keyQueue, due, Decoder, wire, held)

KeyboardInv == ReaderInv /\ StreamInv

-----------------------------------------------------------------------------
(* Reading no byte, one byte more, and the first byte.                     *)

LEMMA DecodeNothing ==
    ASSUME NEW d, NEW e, NEW out \in Seq(Chars)
    PROVE  Decodes(d, <<>>, e, out) <=> e = d /\ out = <<>>
<1>1. ASSUME Decodes(d, <<>>, e, out) PROVE e = d /\ out = <<>>
  BY <1>1 DEF Decodes, Trace
<1>2. ASSUME e = d, out = <<>> PROVE Decodes(d, <<>>, e, out)
  <2> DEFINE st == [k \in 1 .. 1 |-> d]
             made == [k \in 1 .. 1 |-> 0]
  <2>1. Len(<<>>) = 0 /\ 0 + 1 = 1 /\ 1 .. 0 = {} /\ 1 \in 1 .. 1
    OBVIOUS
  <2>2. made \in [1 .. 1 -> Nat] /\ st[1] = d /\ made[1] = 0
    OBVIOUS
  <2>3. \A j, k \in 1 .. 1 : j <= k => made[j] <= made[k]
    OBVIOUS
  <2> HIDE DEF st, made
  <2>4. Trace(st, made, d, <<>>, e, out)
    BY <1>2, <2>1, <2>2, <2>3 DEF Trace
  <2> QED BY <2>4 DEF Decodes
<1> QED BY <1>1, <1>2

\* A byte behind the others makes its character behind the others.
LEMMA DecodeAppend ==
    ASSUME NEW d, NEW e, NEW w \in Seq(Bytes), NEW out \in Seq(Chars), NEW b \in Bytes,
           Decodes(d, w, e, out),
           NEW x, x = Emit(e, b), x \in Chars \cup {"none"},
           NEW new, new = IF x = "none" THEN out ELSE Append(out, x)
    PROVE  new \in Seq(Chars) /\ Decodes(d, Append(w, b), After(e, b), new)
<1> DEFINE n == Len(w) + 1
           v == Append(w, b)
<1>1. PICK st, made :
        /\ made \in [1 .. n -> Nat]
        /\ st[1] = d /\ st[n] = e
        /\ made[1] = 0 /\ made[n] = Len(out)
        /\ \A j, k \in 1 .. n : j <= k => made[j] <= made[k]
        /\ \A k \in 1 .. Len(w) :
             /\ st[k + 1] = After(st[k], w[k])
             /\ Emit(st[k], w[k]) = "none" => made[k + 1] = made[k]
             /\ Emit(st[k], w[k]) # "none" =>
                  /\ made[k + 1] = made[k] + 1
                  /\ out[made[k + 1]] = Emit(st[k], w[k])
  BY Zenon DEF Decodes, Trace
<1>2. /\ n \in Nat /\ n >= 1 /\ Len(w) = n - 1 /\ Len(v) = n
      /\ \A k \in 1 .. n - 1 : v[k] = w[k]
      /\ v[n] = b
  OBVIOUS
<1>3. /\ new \in Seq(Chars) /\ Len(out) \in Nat
      /\ Len(new) = IF x = "none" THEN Len(out) ELSE Len(out) + 1
      /\ \A k \in 1 .. Len(out) : new[k] = out[k]
      /\ x # "none" => new[Len(new)] = x
  OBVIOUS
<1> HIDE DEF n, v
<1> DEFINE st2 == [k \in 1 .. n + 1 |-> IF k <= n THEN st[k] ELSE After(e, b)]
           made2 == [k \in 1 .. n + 1 |-> IF k <= n THEN made[k] ELSE Len(new)]
<1>4. /\ \A k \in 1 .. n : k \in 1 .. n + 1 /\ st2[k] = st[k] /\ made2[k] = made[k]
      /\ st2[n + 1] = After(e, b) /\ made2[n + 1] = Len(new)
      /\ made2 \in [1 .. n + 1 -> Nat]
  <2>1. Len(new) \in Nat
    BY <1>3
  <2> HIDE DEF After
  <2> QED BY <1>1, <1>2, <2>1
<1> HIDE DEF st2, made2
<1>5. \A k \in 1 .. n : made[k] \in Nat /\ made[k] <= Len(out)
  BY <1>1, <1>2
<1>6. \A j, k \in 1 .. n + 1 : j <= k => made2[j] <= made2[k]
  <2> SUFFICES ASSUME NEW j \in 1 .. n + 1, NEW k \in 1 .. n + 1, j <= k
               PROVE  made2[j] <= made2[k]
    OBVIOUS
  <2>1. CASE k <= n
    BY <1>1, <1>2, <1>4, <2>1
  <2>2. CASE k = n + 1 /\ j <= n
    <3>1. j \in 1 .. n /\ made2[j] = made[j] /\ made2[k] = Len(new)
      BY <1>2, <1>4, <2>2
    <3>2. made[j] \in Nat /\ made[j] <= Len(out)
      BY <1>5, <3>1
    <3>3. Len(out) <= Len(new)
      BY <1>3
    <3> QED BY <1>3, <3>1, <3>2, <3>3
  <2>3. CASE k = n + 1 /\ j = n + 1
    BY <1>3, <1>4, <2>3
  <2> QED BY <1>2, <2>1, <2>2, <2>3
<1>7. ASSUME NEW k \in 1 .. n
      PROVE  /\ st2[k + 1] = After(st2[k], v[k])
             /\ Emit(st2[k], v[k]) = "none" => made2[k + 1] = made2[k]
             /\ Emit(st2[k], v[k]) # "none" =>
                  /\ made2[k + 1] = made2[k] + 1
                  /\ new[made2[k + 1]] = Emit(st2[k], v[k])
  <2>1. CASE k < n
    <3>1. /\ k \in 1 .. n - 1 /\ k + 1 \in 1 .. n /\ v[k] = w[k]
          /\ st2[k] = st[k] /\ st2[k + 1] = st[k + 1]
          /\ made2[k] = made[k] /\ made2[k + 1] = made[k + 1]
          /\ made[k] \in Nat /\ made[k + 1] \in Nat /\ made[k + 1] <= Len(out)
      BY <1>2, <1>4, <1>5, <2>1
    <3>2. /\ st[k + 1] = After(st[k], w[k])
          /\ Emit(st[k], w[k]) = "none" => made[k + 1] = made[k]
          /\ Emit(st[k], w[k]) # "none" =>
               made[k + 1] = made[k] + 1 /\ out[made[k + 1]] = Emit(st[k], w[k])
      BY <1>1, <1>2, <3>1
    <3>3. made[k + 1] = made[k] + 1 => made[k + 1] \in 1 .. Len(out)
      BY <1>3, <3>1
    <3> QED BY <1>3, <3>1, <3>2, <3>3
  <2>2. CASE k = n
    <3>1. /\ v[k] = b /\ st2[k] = e /\ st2[k + 1] = After(e, b)
          /\ made2[k] = Len(out) /\ made2[k + 1] = Len(new)
      BY <1>1, <1>2, <1>4, <2>2
    <3>2. Emit(st2[k], v[k]) = x
      BY <3>1
    <3>3. /\ x = "none" => Len(new) = Len(out)
          /\ x # "none" => Len(new) = Len(out) + 1 /\ new[Len(new)] = x
      BY <1>3
    <3> QED BY <3>1, <3>2, <3>3
  <2>3. k < n \/ k = n
    BY <1>2
  <2> QED BY <2>1, <2>2, <2>3, Zenon
<1>8. st2[1] = d /\ made2[1] = 0
  BY <1>1, <1>2, <1>4
<1>9. Len(Append(w, b)) + 1 = n + 1 /\ 1 .. Len(Append(w, b)) = 1 .. n
  BY <1>2 DEF v
<1>10. Decodes(d, v, After(e, b), new)
  <2>1. Len(v) = n
    BY <1>2
  <2>2. Trace(st2, made2, d, v, After(e, b), new)
    BY <1>4, <1>6, <1>7, <1>8, <2>1, Zenon DEF Trace
  <2> QED BY <2>2 DEF Decodes
<1> QED BY <1>3, <1>10 DEF v

\* Reading the first byte makes the first character, if it makes one.
LEMMA DecodeHead ==
    ASSUME NEW d, NEW e, NEW w \in Seq(Bytes), w # <<>>, NEW out \in Seq(Chars),
           Decodes(d, w, e, out), NEW x, x = Emit(d, Head(w)),
           NEW f, f = After(d, Head(w))
    PROVE  /\ x = "none" => Decodes(f, Tail(w), e, out)
           /\ x # "none" => /\ out # <<>> /\ Head(out) = x
                            /\ Decodes(f, Tail(w), e, Tail(out))
<1> DEFINE n == Len(w)
           v == Tail(w)
<1>1. PICK st, made :
        /\ made \in [1 .. n + 1 -> Nat]
        /\ st[1] = d /\ st[n + 1] = e
        /\ made[1] = 0 /\ made[n + 1] = Len(out)
        /\ \A j, k \in 1 .. n + 1 : j <= k => made[j] <= made[k]
        /\ \A k \in 1 .. n :
             /\ st[k + 1] = After(st[k], w[k])
             /\ Emit(st[k], w[k]) = "none" => made[k + 1] = made[k]
             /\ Emit(st[k], w[k]) # "none" =>
                  /\ made[k + 1] = made[k] + 1
                  /\ out[made[k + 1]] = Emit(st[k], w[k])
  BY Zenon DEF Decodes, Trace
<1>2. /\ n \in Nat /\ n >= 1 /\ Len(v) = n - 1 /\ Head(w) = w[1]
      /\ \A k \in 1 .. n - 1 : v[k] = w[k + 1]
  BY HeadTailProperties
<1> HIDE DEF n, v
<1>3. st[2] = f /\ 1 \in 1 .. n /\ 2 \in 1 .. n + 1 /\ 1 + 1 = 2
  BY <1>1, <1>2
<1> DEFINE drop == IF x = "none" THEN 0 ELSE 1
           rest == IF x = "none" THEN out ELSE Tail(out)
<1>4. /\ drop \in {0, 1} /\ made[2] = drop
      /\ x # "none" => out # <<>> /\ Head(out) = x
  <2>1. CASE x = "none"
    BY <1>1, <1>2, <1>3, <2>1
  <2>2. CASE x # "none"
    <3>1. made[2] = 1 /\ out[1] = x
      BY <1>1, <1>2, <1>3, <2>2
    <3>2. made[2] <= Len(out)
      BY <1>1, <1>2, <1>3
    <3> QED BY <2>2, <3>1, <3>2
  <2> QED BY <2>1, <2>2
<1>5. /\ rest \in Seq(Chars) /\ Len(out) \in Nat /\ Len(rest) = Len(out) - drop
      /\ \A k \in 1 .. Len(rest) : rest[k] = out[k + drop]
  <2>1. CASE x = "none"
    BY <2>1
  <2>2. CASE x # "none"
    BY <1>4, <2>2, HeadTailProperties
  <2> QED BY <2>1, <2>2
<1> HIDE DEF drop, rest
<1> DEFINE st2 == [k \in 1 .. n |-> st[k + 1]]
           made2 == [k \in 1 .. n |-> made[k + 1] - drop]
<1>6. \A k \in 1 .. n : /\ k + 1 \in 1 .. n + 1 /\ made[k + 1] \in Nat
                        /\ made[k + 1] >= drop /\ made[k + 1] <= Len(out)
  <2> SUFFICES ASSUME NEW k \in 1 .. n
               PROVE  /\ k + 1 \in 1 .. n + 1 /\ made[k + 1] \in Nat
                      /\ made[k + 1] >= drop /\ made[k + 1] <= Len(out)
    OBVIOUS
  <2>1. k + 1 \in 1 .. n + 1 /\ 2 <= k + 1 /\ k + 1 <= n + 1 /\ n + 1 \in 1 .. n + 1
    BY <1>2
  <2>2. made[k + 1] \in Nat /\ made[2] <= made[k + 1] /\ made[k + 1] <= made[n + 1]
    BY <1>1, <1>3, <2>1
  <2> QED BY <1>1, <1>4, <2>1, <2>2
<1>7. /\ \A k \in 1 .. n : st2[k] = st[k + 1] /\ made2[k] = made[k + 1] - drop
      /\ made2 \in [1 .. n -> Nat]
  BY <1>4, <1>6
<1> HIDE DEF st2, made2
<1>8. /\ st2[1] = f /\ st2[n] = e /\ made2[1] = 0 /\ made2[n] = Len(rest)
  <2>1. 1 \in 1 .. n /\ n \in 1 .. n
    BY <1>2
  <2>2. st2[1] = st[2] /\ made2[1] = made[2] - drop
    BY <1>3, <1>7, <2>1
  <2>3. st2[n] = st[n + 1] /\ made2[n] = made[n + 1] - drop
    BY <1>7, <2>1
  <2> QED BY <1>1, <1>3, <1>4, <1>5, <2>2, <2>3
<1>9. \A j, k \in 1 .. n : j <= k => made2[j] <= made2[k]
  <2> SUFFICES ASSUME NEW j \in 1 .. n, NEW k \in 1 .. n, j <= k
               PROVE  made2[j] <= made2[k]
    OBVIOUS
  <2>1. made[j + 1] <= made[k + 1]
    BY <1>1, <1>2, <1>6
  <2> QED BY <1>4, <1>6, <1>7, <2>1
<1>10. ASSUME NEW k \in 1 .. n - 1
       PROVE  /\ st2[k + 1] = After(st2[k], v[k])
              /\ Emit(st2[k], v[k]) = "none" => made2[k + 1] = made2[k]
              /\ Emit(st2[k], v[k]) # "none" =>
                   /\ made2[k + 1] = made2[k] + 1
                   /\ rest[made2[k + 1]] = Emit(st2[k], v[k])
  <2>1. k \in 1 .. n /\ k + 1 \in 1 .. n /\ v[k] = w[k + 1]
    BY <1>2
  <2>2. /\ st[(k + 1) + 1] = After(st[k + 1], w[k + 1])
        /\ Emit(st[k + 1], w[k + 1]) = "none" => made[(k + 1) + 1] = made[k + 1]
        /\ Emit(st[k + 1], w[k + 1]) # "none" =>
             /\ made[(k + 1) + 1] = made[k + 1] + 1
             /\ out[made[(k + 1) + 1]] = Emit(st[k + 1], w[k + 1])
    BY <1>1, <2>1
  <2>3. /\ st2[k] = st[k + 1] /\ st2[k + 1] = st[(k + 1) + 1]
        /\ made2[k] = made[k + 1] - drop /\ made2[k + 1] = made[(k + 1) + 1] - drop
        /\ made[k + 1] \in Nat /\ made[(k + 1) + 1] \in Nat
        /\ made[k + 1] >= drop /\ made[(k + 1) + 1] <= Len(out)
    BY <1>6, <1>7, <2>1
  <2> DEFINE now == made[k + 1]
             next == made[(k + 1) + 1]
  <2>4. next = now + 1 => /\ made2[k + 1] \in 1 .. Len(rest)
                          /\ made2[k + 1] + drop = next
                          /\ made2[k + 1] = made2[k] + 1
    <3> HIDE DEF now, next
    <3>1. /\ made2[k] = now - drop /\ made2[k + 1] = next - drop
          /\ now \in Nat /\ next \in Nat /\ now >= drop /\ next <= Len(out)
      BY <2>3 DEF now, next
    <3> QED BY <1>4, <1>5, <3>1
  <2>5. next = now => made2[k + 1] = made2[k]
    BY <2>3
  <2> QED BY <1>5, <2>1, <2>2, <2>3, <2>4, <2>5
<1>11. Decodes(f, v, e, rest)
  <2>1. Len(v) + 1 = n /\ Len(v) = n - 1
    BY <1>2
  <2>2. Trace(st2, made2, f, v, e, rest)
    BY <1>7, <1>8, <1>9, <1>10, <2>1, Zenon DEF Trace
  <2> QED BY <2>2 DEF Decodes
<1> QED BY <1>4, <1>11 DEF v, rest

-----------------------------------------------------------------------------
(* The reader is woken by every character.                                 *)

LEMMA KeyboardPids ==
    /\ Workers \in SUBSET Pids /\ Shell \in Pids /\ Idle \in Pids /\ Collector \in Pids
    /\ Shell \notin Workers /\ Idle \notin Workers /\ Collector \notin Workers
    /\ Shell # Idle /\ Shell # Collector /\ Idle # Collector /\ Shell # NULL
    /\ Scheduled \in SUBSET (Pids \ {Collector, Idle})
    /\ Scheduled \in SUBSET (Pids \ {Idle})
    /\ Shell \in Scheduled /\ Scheduled \ {Shell} = Workers
    /\ \A p \in Workers : p \in Scheduled
BY KeyboardAssumption, PidFacts DEF Scheduled, Shell, Collector, Idle, NULL

LEMMA ReaderInit == Init => ReaderInv
<1> SUFFICES ASSUME Init PROVE ReaderInv
  OBVIOUS
<1>1. PICK ready \in SetToSeqs(Workers) :
        sched = [initScheduler EXCEPT !.processList = ready,
                                      !.state[Collector] = BLOCKED]
  BY DEF Init
<1>2. /\ Consistent(sched, Scheduled) /\ sched.sleepList = <<>>
      /\ \A p \in Scheduled : sched.state[p] # BLOCKED
  BY <1>1, KeyboardPids, ConsistentStart
<1>3. at = [p \in Pids |-> IF p = Collector THEN "gc" ELSE "run"] /\ keyWaiter = NULL
  BY DEF Init
<1>4. at \in [Pids -> {"run", "sleep", "key", "gc"}]
  BY <1>3
<1>5. /\ at[Idle] = "run" /\ at[Shell] = "run"
      /\ \A p \in Workers : at[p] = "run"
  BY <1>3, KeyboardPids, PidFacts
<1> QED BY <1>2, <1>3, <1>4, <1>5, KeyboardPids, EmptyProperties DEF ReaderInv

\* A character wakes the waiter, whether the queue can take it or not.
LEMMA ReaderInput ==
    ASSUME ReaderInv, NEW x, inputQueue(x), UNCHANGED <<at, keyWaiter>>
    PROVE  ReaderInv'
<1>1. CASE x = "none"
  BY <1>1 DEF inputQueue, ReaderInv
<1>2. CASE x # "none"
  <2>1. sched' = wakeupProcessInInterrupt(sched, keyWaiter)
    BY <1>2 DEF inputQueue
  <2>2. Consistent(sched', Scheduled) /\ Wakes(sched, sched', Scheduled, keyWaiter)
    BY <2>1, KeyboardPids, ConsistentWakeInInterrupt DEF ReaderInv
  <2>3. /\ sched'.state[Shell] # BLOCKED
        /\ Elems(sched'.sleepList) \subseteq Elems(sched.sleepList)
    BY <2>2, KeyboardPids DEF Wakes, Unblocks, ReaderInv
  <2> QED BY <2>2, <2>3 DEF ReaderInv
<1> QED BY <1>1, <1>2

\* The loop of getKey ends with a character or with the shell registered.
LEMMA ReaderLoop ==
    ASSUME ReaderInv, Running = Shell, getKeyLoop(Shell)
    PROVE  ReaderInv'
<1>1. /\ Consistent(sched, Scheduled) /\ sched.runningProcess = Shell
      /\ at \in [Pids -> {"run", "sleep", "key", "gc"}]
  BY DEF ReaderInv, Running
<1>2. CASE keyQueue = <<>>
  <2>1. /\ keyWaiter' = Shell /\ at' = [at EXCEPT ![Shell] = "key"]
        /\ keyQueue' = <<>> /\ sched' = blockRunningProcess(sched)
    BY <1>2 DEF getKeyLoop
  <2>2. Consistent(sched', Scheduled) /\ sched'.sleepList = sched.sleepList
    BY <1>1, <2>1, KeyboardPids, ConsistentBlock
  <2>3. /\ at' \in [Pids -> {"run", "sleep", "key", "gc"}]
        /\ at'[Shell] = "key" /\ \A p \in Pids \ {Shell} : at'[p] = at[p]
    BY <1>1, <2>1, KeyboardPids
  <2> QED BY <2>1, <2>2, <2>3, KeyboardPids DEF ReaderInv
<1>3. CASE keyQueue # <<>>
  <2>1. /\ keyWaiter' \in {keyWaiter, NULL} /\ at' = [at EXCEPT ![Shell] = "run"]
        /\ sched' = sched
    BY <1>3 DEF getKeyLoop
  <2>2. /\ at' \in [Pids -> {"run", "sleep", "key", "gc"}]
        /\ at'[Shell] = "run" /\ \A p \in Pids \ {Shell} : at'[p] = at[p]
    BY <1>1, <2>1, KeyboardPids
  <2>3. sched.state[Shell] # BLOCKED
    BY <1>1, StateFacts DEF Consistent, Listed
  <2> QED BY <2>1, <2>2, <2>3, KeyboardPids DEF ReaderInv
<1> QED BY <1>2, <1>3

LEMMA ReaderStep == ReaderInv /\ [Next]_vars => ReaderInv'
<1> SUFFICES ASSUME ReaderInv, [Next]_vars PROVE ReaderInv'
  OBVIOUS
<1>1. ASSUME UNCHANGED <<sched, at, keyQueue, keyWaiter>> PROVE ReaderInv'
  BY <1>1 DEF ReaderInv
<1>2. ASSUME NEW s \in Strokes, Stroke(s) PROVE ReaderInv'
  BY <1>1, <1>2 DEF Stroke
<1>3. ASSUME keyboardInterruptHandler PROVE ReaderInv'
  <2>1. UNCHANGED <<at, keyWaiter>>
    BY <1>3 DEF keyboardInterruptHandler
  <2>2. CASE moreBytes(Head(wire)) > 0
    <3>1. UNCHANGED <<keyQueue, sched>>
      BY <1>3, <2>2 DEF keyboardInterruptHandler
    <3> QED BY <1>1, <2>1, <3>1
  <2>3. CASE ~(moreBytes(Head(wire)) > 0)
    <3>1. inputQueue(scanToASCII(Head(wire)))
      BY <1>3, <2>3 DEF keyboardInterruptHandler
    <3> QED BY <2>1, <3>1, ReaderInput
  <2> QED BY <2>2, <2>3
<1>4. ASSUME getScanCode PROVE ReaderInv'
  <2>1. UNCHANGED <<at, keyWaiter>>
    BY <1>4 DEF getScanCode
  <2>2. CASE isr.want = 1
    <3>1. inputQueue(isr.ascii)
      BY <1>4, <2>2 DEF getScanCode
    <3> QED BY <2>1, <3>1, ReaderInput
  <2>3. CASE isr.want # 1
    <3>1. UNCHANGED <<keyQueue, sched>>
      BY <1>4, <2>3 DEF getScanCode
    <3> QED BY <1>1, <2>1, <3>1
  <2> QED BY <2>2, <2>3
<1>5. ASSUME timerInterruptHandler PROVE ReaderInv'
  <2>1. sched' = timeoutSchedule(wakeExpiredProcess(tickCount(sched)))
    BY <1>5 DEF timerInterruptHandler
  <2>2. UNCHANGED <<at, keyQueue, keyWaiter>>
    BY <1>5 DEF timerInterruptHandler
  <2>3. Consistent(sched', Scheduled)
        /\ Unblocks(sched, sched', Scheduled, Elems(sched.sleepList))
    BY <2>1, KeyboardPids, ConsistentTimer DEF ReaderInv
  <2>4. /\ Elems(sched'.sleepList) \subseteq Elems(sched.sleepList)
        /\ sched'.state[Shell] = BLOCKED => sched.state[Shell] = BLOCKED
    BY <2>3, KeyboardPids DEF Unblocks
  <2> QED BY <2>2, <2>3, <2>4 DEF ReaderInv
<1>6. ASSUME getKey PROVE ReaderInv'
  BY <1>6, ReaderLoop DEF getKey
<1>7. ASSUME getKeyWoken PROVE ReaderInv'
  BY <1>7, ReaderLoop DEF getKeyWoken
<1>8. ASSUME NEW p \in Workers, sleepReturns(p) PROVE ReaderInv'
  <2>1. /\ at' = [at EXCEPT ![p] = "run"]
        /\ UNCHANGED <<sched, keyQueue, keyWaiter>>
    BY <1>8 DEF sleepReturns
  <2>2. /\ at' \in [Pids -> {"run", "sleep", "key", "gc"}]
        /\ at'[p] = "run" /\ \A q \in Pids \ {p} : at'[q] = at[q]
    BY <2>1, KeyboardPids DEF ReaderInv
  <2> QED BY <2>1, <2>2, KeyboardPids DEF ReaderInv
<1>9. ASSUME NEW p \in Workers, NEW ms \in Millis, sleepProcess(p, ms) PROVE ReaderInv'
  <2>1. /\ at' = [at EXCEPT ![p] = "sleep"] /\ p = sched.runningProcess
        /\ UNCHANGED <<keyQueue, keyWaiter>>
    BY <1>9 DEF sleepProcess, Running
  <2>2. PICK ticks : ticks = ticksOf(ms)
    OBVIOUS
  <2>3. ticks \in Nat
    BY <2>2, KeyboardAssumption, TicksInNat
  <2>4. sched' = sleepUntilTick(sched, ticks)
    BY <1>9, <2>2 DEF sleepProcess
  <2>5. Consistent(sched', Scheduled) /\ Sleeps(sched, sched', Scheduled)
    BY <2>1, <2>3, <2>4, KeyboardPids, ConsistentSleep DEF ReaderInv
  <2>6. /\ Elems(sched'.sleepList) = Elems(sched.sleepList) \cup {p}
        /\ sched'.state[Shell] = BLOCKED => sched.state[Shell] = BLOCKED
    BY <2>1, <2>5, KeyboardPids DEF Sleeps, Blocks
  <2>7. /\ at' \in [Pids -> {"run", "sleep", "key", "gc"}]
        /\ at'[p] = "sleep" /\ \A q \in Pids \ {p} : at'[q] = at[q]
    BY <2>1, KeyboardPids DEF ReaderInv
  <2> QED BY <2>1, <2>5, <2>6, <2>7, KeyboardPids DEF ReaderInv
<1>10. ASSUME UNCHANGED vars PROVE ReaderInv'
  BY <1>1, <1>10 DEF vars
<1> QED BY <1>2, <1>3, <1>4, <1>5, <1>6, <1>7, <1>8, <1>9, <1>10 DEF Next

-----------------------------------------------------------------------------
(* Sequences that are the queue followed by what is still to come.         *)

LEMMA TakeFirst ==
    ASSUME NEW S, NEW q \in Seq(S), q # <<>>, NEW out \in Seq(S)
    PROVE  Tail(q \o out) = Tail(q) \o out
<1> DEFINE n == Len(q)
           m == Len(out)
           left  == Tail(q \o out)
           right == Tail(q) \o out
<1>1. n \in Nat /\ n >= 1 /\ m \in Nat
  BY EmptySeq, LenProperties
<1>2. /\ q \o out \in Seq(S) /\ Len(q \o out) = n + m /\ q \o out # <<>>
      /\ \A i \in 1 .. n + m : (q \o out)[i] = IF i <= n THEN q[i] ELSE out[i - n]
  BY <1>1, ConcatProperties
<1>3. /\ Tail(q) \in Seq(S) /\ Len(Tail(q)) = n - 1
      /\ \A i \in 1 .. n - 1 : Tail(q)[i] = q[i + 1]
  BY HeadTailProperties
<1>4. /\ left \in Seq(S) /\ Len(left) = n + m - 1
      /\ \A i \in 1 .. n + m - 1 : left[i] = (q \o out)[i + 1]
  BY <1>2, HeadTailProperties
<1>5. /\ right \in Seq(S) /\ Len(right) = n - 1 + m
      /\ \A i \in 1 .. n - 1 + m :
           right[i] = IF i <= n - 1 THEN Tail(q)[i] ELSE out[i - (n - 1)]
  BY <1>3, ConcatProperties
<1> HIDE DEF n, m, left, right
<1>6. ASSUME NEW i \in 1 .. Len(left) PROVE left[i] = right[i]
  <2>1. /\ i \in 1 .. n + m - 1 /\ i \in 1 .. n - 1 + m
        /\ i + 1 \in 1 .. n + m /\ (i + 1) - n = i - (n - 1)
    BY <1>1, <1>4
  <2>2. CASE i <= n - 1
    BY <1>1, <1>2, <1>3, <1>4, <1>5, <2>1, <2>2
  <2>3. CASE ~(i <= n - 1)
    <3>1. ~(i + 1 <= n)
      BY <1>1, <2>1, <2>3
    <3>2. left[i] = out[(i + 1) - n]
      BY <1>2, <1>4, <2>1, <3>1
    <3>3. right[i] = out[i - (n - 1)]
      BY <1>5, <2>1, <2>3
    <3> QED BY <2>1, <3>2, <3>3
  <2> QED BY <2>2, <2>3
<1>7. left = right
  BY <1>1, <1>4, <1>5, <1>6, SeqEqual
<1> QED BY <1>7 DEF left, right

LEMMA SplitFirst ==
    ASSUME NEW S, NEW out \in Seq(S), out # <<>>
    PROVE  out = <<Head(out)>> \o Tail(out)
<1>1. Len(out) \in Nat /\ Len(out) >= 1 /\ 1 \in 1 .. Len(out) /\ Len(out) \in 1 .. Len(out)
  BY EmptySeq, LenProperties
<1>2. SubSeq(out, 1, Len(out)) = <<out[1]>> \o SubSeq(out, 1 + 1, Len(out))
  BY <1>1, SubSeqRecursiveFirst
<1>3. SubSeq(out, 1, Len(out)) = out
  BY SubSeqFull
<1>4. Tail(out) = SubSeq(out, 2, Len(out)) /\ Head(out) = out[1]
  BY TailIsSubSeq
<1> QED BY <1>2, <1>3, <1>4

LEMMA MoveFirst ==
    ASSUME NEW S, NEW q \in Seq(S), NEW out \in Seq(S), out # <<>>
    PROVE  Append(q, Head(out)) \o Tail(out) = q \o out
<1>1. Head(out) \in S /\ Tail(out) \in Seq(S) /\ <<Head(out)>> \in Seq(S)
  BY HeadTailProperties
<1>2. Append(q, Head(out)) = q \o <<Head(out)>>
  BY <1>1, AppendIsConcat
<1>3. (q \o <<Head(out)>>) \o Tail(out) = q \o (<<Head(out)>> \o Tail(out))
  BY <1>1, ConcatAssociative
<1> QED BY <1>2, <1>3, SplitFirst

LEMMA DropBehind ==
    ASSUME NEW S, NEW q \in Seq(S), NEW out \in Seq(S), out # <<>>
    PROVE  RemoveAt(q \o out, Len(q) + 1) = q \o Tail(out)
<1> DEFINE n == Len(q)
           m == Len(out)
           r == q \o out
<1>1. n \in Nat /\ m \in Nat /\ m >= 1
  BY EmptySeq, LenProperties
<1>2. r \in Seq(S) /\ Len(r) = n + m
  BY ConcatProperties
<1>3. SubSeq(r, 1, n) = q
  <2>1. CASE n = 0
    <3>1. q = <<>>
      BY <2>1, EmptySeq
    <3> QED BY <2>1, <3>1, SubSeqEmpty
  <2>2. CASE n # 0
    <3>1. 1 \in 1 .. n /\ n \in 1 .. n
      BY <1>1, <2>2
    <3>2. SubSeq(r, 1, n) = SubSeq(q, 1, n)
      BY <3>1, SubSeqOfConcat1
    <3> QED BY <3>2, SubSeqFull
  <2> QED BY <2>1, <2>2
<1>4. SubSeq(r, n + 2, n + m) = Tail(out)
  <2>1. Tail(out) = SubSeq(out, 2, m)
    BY TailIsSubSeq
  <2>2. CASE m = 1
    <3>1. SubSeq(r, n + 2, n + m) = <<>> /\ SubSeq(out, 2, m) = <<>>
      BY <1>1, <2>2, SubSeqEmpty
    <3> QED BY <2>1, <3>1
  <2>3. CASE m # 1
    <3>1. /\ n + 2 \in n + 1 .. n + m /\ n + m \in n + 1 .. n + m
          /\ (n + 2) - n = 2 /\ (n + m) - n = m
      <4> HIDE DEF n, m
      <4> QED BY <1>1, <2>3
    <3>2. SubSeq(r, n + 2, n + m) = SubSeq(out, (n + 2) - n, (n + m) - n)
      BY <3>1, SubSeqOfConcat2
    <3> QED BY <2>1, <3>1, <3>2
  <2> QED BY <2>2, <2>3
<1>5. (n + 1) - 1 = n /\ (n + 1) + 1 = n + 2
  BY <1>1
<1> QED BY <1>2, <1>3, <1>4, <1>5 DEF RemoveAt

\* getKey takes the first character that is due.
LEMMA PendingTake ==
    ASSUME NEW q \in Seq(Chars), q # <<>>, NEW du, NEW d, NEW w, NEW h,
           Pending(q, du, d, w, h)
    PROVE  Pending(Tail(q), Tail(du), d, w, h)
<1>1. PICK out \in Seq(Chars) : du = q \o out /\ Decodes(d, w, AtRest(h), out)
  BY DEF Pending
<1>2. Tail(du) = Tail(q) \o out
  BY <1>1, TakeFirst
<1> QED BY <1>1, <1>2 DEF Pending

\* The handler reads a byte: its character goes from the bytes to the queue, or is
\* dropped from behind a full one.
LEMMA PendingRead ==
    ASSUME NEW q \in Seq(Chars), NEW du, NEW d, NEW w \in Seq(Bytes), w # <<>>, NEW h,
           Pending(q, du, d, w, h),
           NEW x, x = Emit(d, Head(w)), NEW f, f = After(d, Head(w))
    PROVE  /\ x = "none" => Pending(q, du, f, Tail(w), h)
           /\ x # "none" =>
                /\ x \in Chars
                /\ Pending(Append(q, x), du, f, Tail(w), h)
                /\ Pending(q, RemoveAt(du, Len(q) + 1), f, Tail(w), h)
<1>1. PICK out \in Seq(Chars) : du = q \o out /\ Decodes(d, w, AtRest(h), out)
  BY DEF Pending
<1>2. PICK e : e = AtRest(h)
  OBVIOUS
<1>3. /\ x = "none" => Decodes(f, Tail(w), e, out)
      /\ x # "none" => /\ out # <<>> /\ Head(out) = x
                       /\ Decodes(f, Tail(w), e, Tail(out))
  BY <1>1, <1>2, DecodeHead
<1>4. CASE x = "none"
  BY <1>1, <1>2, <1>3, <1>4 DEF Pending
<1>5. CASE x # "none"
  <2>1. /\ out # <<>> /\ x = Head(out) /\ x \in Chars /\ Tail(out) \in Seq(Chars)
        /\ Decodes(f, Tail(w), AtRest(h), Tail(out))
    BY <1>2, <1>3, <1>5, HeadTailProperties
  <2>2. du = Append(q, x) \o Tail(out)
    BY <1>1, <2>1, MoveFirst
  <2>3. RemoveAt(du, Len(q) + 1) = q \o Tail(out)
    BY <1>1, <2>1, DropBehind
  <2>4. Pending(Append(q, x), du, f, Tail(w), h)
    BY <2>1, <2>2, Zenon DEF Pending
  <2>5. Pending(q, RemoveAt(du, Len(q) + 1), f, Tail(w), h)
    BY <2>1, <2>3, Zenon DEF Pending
  <2> QED BY <1>5, <2>1, <2>4, <2>5
<1> QED BY <1>4, <1>5

-----------------------------------------------------------------------------
(* A keystroke, byte by byte.                                              *)

LEMMA WaitsFields ==
    ASSUME NEW n, NEW c, NEW h, NEW d, d = Waits(n, c, h)
    PROVE  d.want = n /\ d.ascii = c /\ d.shift = h
BY DEF Waits

LEMMA AfterTwo ==
    ASSUME NEW c, NEW h, NEW b, NEW d, d = Waits(2, c, h)
    PROVE  After(d, b) = Waits(1, c, h) /\ Emit(d, b) = "none"
<1>1. d.want = 2 /\ d.ascii = c /\ d.shift = h
  BY WaitsFields
<1> QED BY <1>1 DEF After, Emit, Waits

LEMMA AfterOne ==
    ASSUME NEW c, NEW h, NEW b, NEW d, d = Waits(1, c, h)
    PROVE  After(d, b) = AtRest(h) /\ Emit(d, b) = c
<1>1. d.want = 1 /\ d.ascii = c /\ d.shift = h
  BY WaitsFields
<1> QED BY <1>1 DEF After, Emit, Waits, AtRest

LEMMA AfterRest ==
    ASSUME NEW h, NEW b
    PROVE  /\ After(AtRest(h), b) = Waits(moreBytes(b), IF b = "E1" THEN "pause" ELSE "none",
                                        b = "shiftDown" \/ (h /\ b # "shiftUp"))
           /\ Emit(AtRest(h), b) = IF b \in Keys THEN KeyChar(b, h) ELSE "none"
<1>1. PICK d : d = AtRest(h)
  OBVIOUS
<1>2. d.want = 0 /\ d.shift = h /\ ~(0 > 0) /\ ~(0 > 1) /\ 0 # 1
  BY <1>1 DEF AtRest, Waits
<1>3. After(d, b) = Waits(moreBytes(b), IF b = "E1" THEN "pause" ELSE "none",
                          b = "shiftDown" \/ (h /\ b # "shiftUp"))
  BY <1>2, Zenon DEF After, Waits
<1>4. Emit(d, b) = IF b \in Keys THEN KeyChar(b, h) ELSE "none"
  BY <1>2, Zenon DEF Emit
<1> QED BY <1>1, <1>3, <1>4

LEMMA StrokeBytes ==
    ASSUME NEW h \in BOOLEAN
    PROVE  /\ \A b \in Keys : /\ After(AtRest(h), b) = AtRest(h)
                              /\ Emit(AtRest(h), b) = KeyChar(b, h)
           /\ \A b \in {"none", "break"} : /\ After(AtRest(h), b) = AtRest(h)
                                           /\ Emit(AtRest(h), b) = "none"
           /\ After(AtRest(h), "shiftDown") = AtRest(TRUE)
           /\ Emit(AtRest(h), "shiftDown") = "none"
           /\ After(AtRest(h), "shiftUp") = AtRest(FALSE)
           /\ Emit(AtRest(h), "shiftUp") = "none"
           /\ After(AtRest(h), "E0") = Waits(1, "none", h)
           /\ Emit(AtRest(h), "E0") = "none"
           /\ After(AtRest(h), "E1") = Waits(2, "pause", h)
           /\ Emit(AtRest(h), "E1") = "none"
<1> DEFINE shifts(b) == b = "shiftDown" \/ (h /\ b # "shiftUp")
<1>1. /\ \A b : b # "shiftDown" /\ b # "shiftUp" => shifts(b) = h
      /\ shifts("shiftDown") = TRUE /\ shifts("shiftUp") = FALSE
  OBVIOUS
<1> HIDE DEF shifts
<1>2. ASSUME NEW b
      PROVE  /\ After(AtRest(h), b) =
                  Waits(moreBytes(b), IF b = "E1" THEN "pause" ELSE "none", shifts(b))
             /\ Emit(AtRest(h), b) =
                  IF b \in Keys THEN KeyChar(b, h) ELSE "none"
  BY AfterRest, Zenon DEF shifts
<1>3. /\ \A b \in Keys \cup {"none", "break", "shiftDown", "shiftUp"} :
           moreBytes(b) = 0 /\ b # "E1"
      /\ \A b \in Keys \cup {"none", "break", "E0", "E1"} : b # "shiftDown" /\ b # "shiftUp"
      /\ moreBytes("E0") = 1 /\ moreBytes("E1") = 2 /\ "E0" # "E1"
      /\ \A b \in {"none", "break", "shiftDown", "shiftUp", "E0", "E1"} : b \notin Keys
  BY DEF moreBytes, Keys
<1>4. /\ \A b \in Keys : /\ After(AtRest(h), b) = AtRest(h)
                         /\ Emit(AtRest(h), b) = KeyChar(b, h)
      /\ \A b \in {"none", "break"} : /\ After(AtRest(h), b) = AtRest(h)
                                      /\ Emit(AtRest(h), b) = "none"
  <2>1. ASSUME NEW b \in Keys \cup {"none", "break"}
        PROVE  After(AtRest(h), b) = AtRest(h)
    <3>1. shifts(b) = h /\ moreBytes(b) = 0 /\ b # "E1"
      BY <1>1, <1>3
    <3> QED BY <1>2, <3>1, Zenon DEF AtRest
  <2> QED BY <1>2, <1>3, <2>1, Zenon
<1>5. /\ After(AtRest(h), "shiftDown") = AtRest(TRUE)
      /\ After(AtRest(h), "shiftUp") = AtRest(FALSE)
  <2>1. /\ moreBytes("shiftDown") = 0 /\ moreBytes("shiftUp") = 0
        /\ "shiftDown" # "E1" /\ "shiftUp" # "E1"
    BY DEF moreBytes
  <2> QED BY <1>1, <1>2, <2>1, Zenon DEF AtRest
<1>6. /\ After(AtRest(h), "E0") = Waits(1, "none", h)
      /\ After(AtRest(h), "E1") = Waits(2, "pause", h)
  <2>1. shifts("E0") = h /\ shifts("E1") = h
    BY <1>1
  <2> QED BY <1>2, <1>3, <2>1, Zenon
<1>7. /\ Emit(AtRest(h), "shiftDown") = "none" /\ Emit(AtRest(h), "shiftUp") = "none"
      /\ Emit(AtRest(h), "E0") = "none" /\ Emit(AtRest(h), "E1") = "none"
  <2>1. /\ "shiftDown" \notin Keys /\ "shiftUp" \notin Keys
        /\ "E0" \notin Keys /\ "E1" \notin Keys
    BY DEF Keys
  <2> QED BY <1>2, <2>1, Zenon
<1> QED BY <1>4, <1>5, <1>6, <1>7, Zenon

\* The character of a keystroke, or "none".
Typed(s, shift) ==
    IF s[1] \in Keys THEN KeyChar(s[1], shift)
    ELSE IF s[1] = "E1" THEN "pause" ELSE "none"

\* That character behind the others.
Behind(out, x) == IF x = "none" THEN out ELSE Append(out, x)

\* How the shift key is held behind a keystroke.
Holds(s, shift) ==
    CASE s = <<"shiftDown">> -> TRUE
      [] s = <<"shiftUp">>   -> FALSE
      [] OTHER               -> shift

LEMMA StrokeDecodes ==
    ASSUME NEW h \in BOOLEAN, NEW d, NEW w \in Seq(Bytes), NEW out \in Seq(Chars),
           Decodes(d, w, AtRest(h), out), NEW s \in Strokes,
           NEW x, x = Typed(s, h), NEW new, new = Behind(out, x)
    PROVE  /\ x \in Chars \cup {"none"} /\ new \in Seq(Chars) /\ w \o s \in Seq(Bytes)
           /\ Holds(s, h) \in BOOLEAN
           /\ Decodes(d, w \o s, AtRest(Holds(s, h)), new)
<1> DEFINE Result == /\ x \in Chars \cup {"none"} /\ new \in Seq(Chars)
                     /\ w \o s \in Seq(Bytes) /\ Holds(s, h) \in BOOLEAN
                     /\ Decodes(d, w \o s, AtRest(Holds(s, h)), new)
<1>1. ASSUME NEW b \in Bytes, s = <<b>>, x = Emit(AtRest(h), b), x \in Chars \cup {"none"},
             Holds(s, h) \in BOOLEAN, After(AtRest(h), b) = AtRest(Holds(s, h))
      PROVE  Result
  <2>1. w \o s = Append(w, b) /\ Append(w, b) \in Seq(Bytes)
    BY <1>1, AppendIsConcat, AppendProperties
  <2>2. PICK e : e = AtRest(h)
    OBVIOUS
  <2>3. new = IF x = "none" THEN out ELSE Append(out, x)
    BY DEF Behind
  <2>4. new \in Seq(Chars) /\ Decodes(d, Append(w, b), After(e, b), new)
    BY <1>1, <2>2, <2>3, DecodeAppend
  <2> QED BY <1>1, <2>1, <2>2, <2>4, Zenon
<1> SUFFICES Result
  BY DEF Result
<1> HIDE DEF Result
<1>2. CASE s \in {<<"a">>, <<"b">>}
  <2>1. PICK b \in Keys : s = <<b>>
    BY <1>2 DEF Keys
  <2>2. s[1] = b /\ b \in Bytes /\ Holds(s, h) = h /\ s[1] \in Keys
    BY <2>1 DEF Bytes, Keys, Holds
  <2>3. x = KeyChar(b, h)
    BY <2>2, Zenon DEF Typed
  <2>4. upper[b] \in Chars /\ b \in Chars
    BY <2>1 DEF Chars, Keys, upper
  <2>5. x \in Chars
    BY <2>3, <2>4, Zenon DEF KeyChar
  <2>6. /\ After(AtRest(h), b) = AtRest(h)
        /\ Emit(AtRest(h), b) = KeyChar(b, h)
    BY <2>1, StrokeBytes, Zenon
  <2>7. x = Emit(AtRest(h), b) /\ Holds(s, h) \in BOOLEAN /\ x \in Chars \cup {"none"}
    BY <2>2, <2>3, <2>5, <2>6, Zenon
  <2> QED BY <1>1, <2>1, <2>2, <2>6, <2>7, Zenon
<1>3. CASE s \in {<<"none">>, <<"break">>}
  <2>1. PICK b \in {"none", "break"} : s = <<b>>
    BY <1>3
  <2>2. s[1] = b /\ b \in Bytes /\ Holds(s, h) = h /\ x = "none"
    BY <2>1 DEF Bytes, Keys, Holds, Typed
  <2>3. After(AtRest(h), b) = AtRest(h) /\ Emit(AtRest(h), b) = "none"
    BY <2>1, StrokeBytes, Zenon
  <2> QED BY <1>1, <2>1, <2>2, <2>3, Zenon
<1>4. CASE s = <<"shiftDown">>
  <2>1. "shiftDown" \in Bytes /\ Holds(s, h) = TRUE /\ x = "none"
    BY <1>4 DEF Bytes, Keys, Holds, Typed
  <2>2. TRUE \in BOOLEAN /\ x \in Chars \cup {"none"}
    BY <2>1
  <2>3. /\ After(AtRest(h), "shiftDown") = AtRest(TRUE)
        /\ Emit(AtRest(h), "shiftDown") = "none"
    BY StrokeBytes, Zenon
  <2> QED BY <1>1, <1>4, <2>1, <2>2, <2>3, Zenon
<1>5. CASE s = <<"shiftUp">>
  <2>1. "shiftUp" \in Bytes /\ Holds(s, h) = FALSE /\ x = "none"
    BY <1>5 DEF Bytes, Keys, Holds, Typed
  <2>2. FALSE \in BOOLEAN /\ x \in Chars \cup {"none"}
    BY <2>1
  <2>3. /\ After(AtRest(h), "shiftUp") = AtRest(FALSE)
        /\ Emit(AtRest(h), "shiftUp") = "none"
    BY StrokeBytes, Zenon
  <2> QED BY <1>1, <1>5, <2>1, <2>2, <2>3, Zenon
<1>6. CASE s \in {<<"E0", "a">>, <<"E0", "shiftDown">>}
  <2>1. PICK b \in Bytes : s = <<"E0", b>>
    BY <1>6 DEF Bytes, Keys
  <2>2. /\ "E0" \in Bytes /\ Holds(s, h) = h /\ x = "none"
    <3>1. Len(s) = 2 /\ s[1] = "E0"
      BY <2>1
    <3>2. s # <<"shiftDown">> /\ s # <<"shiftUp">>
      BY <3>1
    <3>3. "E0" \in Bytes /\ x = "none"
      BY <3>1 DEF Bytes, Keys, Typed
    <3> QED BY <3>2, <3>3, Zenon DEF Holds
  <2>3. w \o s = Append(Append(w, "E0"), b)
    BY <2>1, <2>2
  <2>4. PICK e, f : e = AtRest(h) /\ f = Waits(1, "none", h)
    OBVIOUS
  <2>5. /\ After(e, "E0") = f /\ Emit(e, "E0") = "none"
        /\ After(f, b) = e /\ Emit(f, b) = "none"
    <3>1. After(e, "E0") = f /\ Emit(e, "E0") = "none"
      BY <2>4, StrokeBytes, Zenon
    <3>2. After(f, b) = e /\ Emit(f, b) = "none"
      BY <2>4, AfterOne
    <3> QED BY <3>1, <3>2
  <2>6. /\ Append(w, "E0") \in Seq(Bytes)
        /\ Decodes(d, Append(w, "E0"), After(e, "E0"), out)
    BY <2>2, <2>4, <2>5, DecodeAppend
  <2>7. Decodes(d, Append(Append(w, "E0"), b), After(f, b), out)
    BY <2>5, <2>6, DecodeAppend
  <2>8. new = out /\ x \in Chars \cup {"none"} /\ Append(Append(w, "E0"), b) \in Seq(Bytes)
    BY <2>2, <2>6 DEF Behind
  <2> QED BY <2>2, <2>3, <2>4, <2>5, <2>7, <2>8, Zenon DEF Result
<1>7. CASE s = <<"E1", "a", "b">>
  <2>1. /\ "E1" \in Bytes /\ "a" \in Bytes /\ "b" \in Bytes
        /\ Holds(s, h) = h /\ x = "pause" /\ "pause" \in Chars
    BY <1>7 DEF Bytes, Keys, Chars, Holds, Typed
  <2>2. PICK w1, w2 : w1 = Append(w, "E1") /\ w2 = Append(w1, "a")
    OBVIOUS
  <2>3. /\ w1 \in Seq(Bytes) /\ w2 \in Seq(Bytes) /\ Append(w2, "b") \in Seq(Bytes)
        /\ w \o s = Append(w2, "b")
    BY <1>7, <2>1, <2>2
  <2>4. PICK e, f, g : e = AtRest(h) /\ f = Waits(2, "pause", h) /\ g = Waits(1, "pause", h)
    OBVIOUS
  <2>5. /\ After(e, "E1") = f /\ Emit(e, "E1") = "none"
        /\ After(f, "a") = g /\ Emit(f, "a") = "none"
        /\ After(g, "b") = e /\ Emit(g, "b") = "pause"
    <3>1. After(e, "E1") = f /\ Emit(e, "E1") = "none"
      BY <2>4, StrokeBytes, Zenon
    <3>2. After(f, "a") = g /\ Emit(f, "a") = "none"
      BY <2>4, AfterTwo
    <3>3. After(g, "b") = e /\ Emit(g, "b") = "pause"
      BY <2>4, AfterOne
    <3> QED BY <3>1, <3>2, <3>3
  <2>6. Decodes(d, w1, After(e, "E1"), out)
    BY <2>1, <2>2, <2>4, <2>5, DecodeAppend
  <2>7. Decodes(d, w2, After(f, "a"), out)
    BY <2>1, <2>2, <2>3, <2>5, <2>6, DecodeAppend
  <2>8. new \in Seq(Chars) /\ Decodes(d, Append(w2, "b"), After(g, "b"), new)
    BY <2>1, <2>3, <2>5, <2>7, DecodeAppend DEF Behind
  <2>9. x \in Chars \cup {"none"}
    BY <2>1
  <2> QED BY <2>1, <2>3, <2>4, <2>5, <2>8, <2>9, Zenon DEF Result
<1>8. s \in {<<"a">>, <<"b">>} \/ s \in {<<"none">>, <<"break">>}
      \/ s = <<"shiftDown">> \/ s = <<"shiftUp">>
      \/ s \in {<<"E0", "a">>, <<"E0", "shiftDown">>} \/ s = <<"E1", "a", "b">>
  BY DEF Strokes
<1> QED BY <1>2, <1>3, <1>4, <1>5, <1>6, <1>7, <1>8, Zenon

\* What the user types is due, behind everything that was.
LEMMA PendingStroke ==
    ASSUME NEW h \in BOOLEAN, NEW q \in Seq(Chars), NEW du, NEW d, NEW w \in Seq(Bytes),
           Pending(q, du, d, w, h), NEW s \in Strokes, NEW x, x = Typed(s, h)
    PROVE  /\ w \o s \in Seq(Bytes) /\ Holds(s, h) \in BOOLEAN
           /\ Pending(q, Behind(du, x), d, w \o s, Holds(s, h))
<1>1. PICK out \in Seq(Chars) : du = q \o out /\ Decodes(d, w, AtRest(h), out)
  BY DEF Pending
<1>2. PICK new : new = Behind(out, x)
  OBVIOUS
<1>3. /\ x \in Chars \cup {"none"} /\ new \in Seq(Chars) /\ w \o s \in Seq(Bytes)
      /\ Holds(s, h) \in BOOLEAN
      /\ Decodes(d, w \o s, AtRest(Holds(s, h)), new)
  BY <1>1, <1>2, StrokeDecodes, Zenon
<1>4. Behind(du, x) = q \o new
  <2>1. CASE x = "none"
    BY <1>1, <1>2, <2>1 DEF Behind
  <2>2. CASE x # "none"
    <3>1. x \in Chars /\ <<x>> \in Seq(Chars) /\ du \in Seq(Chars)
      BY <1>1, <1>3, <2>2
    <3>2. Append(du, x) = du \o <<x>> /\ Append(out, x) = out \o <<x>>
      BY <3>1, AppendIsConcat
    <3>3. (q \o out) \o <<x>> = q \o (out \o <<x>>)
      BY <3>1, ConcatAssociative
    <3> QED BY <1>1, <1>2, <2>2, <3>2, <3>3 DEF Behind
  <2> QED BY <2>1, <2>2
<1> QED BY <1>3, <1>4 DEF Pending

-----------------------------------------------------------------------------
(* What is due is queued, or will be made of the bytes on the wire.        *)

LEMMA StreamInit == Init => StreamInv
<1> SUFFICES ASSUME Init PROVE StreamInv
  OBVIOUS
<1>1. /\ keyQueue = <<>> /\ shiftOn = FALSE /\ isr = [want |-> 0, ascii |-> "none"]
      /\ wire = <<>> /\ strokes = 0 /\ held = FALSE /\ due = <<>>
  BY DEF Init, Idling
<1>2. StreamTyped
  <2>1. <<>> \in Seq(Chars) /\ <<>> \in Seq(Bytes) /\ Len(<<>>) = 0
    BY EmptySeq
  <2>2. /\ 0 < QUEUE_COUNT /\ 0 \in 0 .. MaxStrokes
        /\ [want |-> 0, ascii |-> "none"] \in [want : 0 .. 2, ascii : {"none", "pause"}]
        /\ [want |-> 0, ascii |-> "none"].ascii = "none"
    BY KeyboardAssumption
  <2> QED BY <1>1, <2>1, <2>2, Zenon DEF StreamTyped
<1>3. PICK d : d = Decoder
  OBVIOUS
<1>4. d = AtRest(FALSE)
  BY <1>1, <1>3 DEF Decoder, AtRest, Waits
<1>5. Decodes(d, <<>>, AtRest(FALSE), <<>>)
  BY <1>4, EmptySeq, DecodeNothing
<1>6. <<>> = <<>> \o <<>> /\ <<>> \in Seq(Chars)
  OBVIOUS
<1>7. Pending(<<>>, <<>>, d, <<>>, FALSE)
  BY <1>5, <1>6, Zenon DEF Pending
<1> QED BY <1>1, <1>2, <1>3, <1>7, Zenon DEF StreamInv

\* The handler reads the byte it waits for.
LEMMA StreamRead ==
    ASSUME StreamInv, wire # <<>>, wire' = Tail(wire), held' = held, strokes' = strokes,
           shiftOn' \in BOOLEAN, isr' \in [want : 0 .. 2, ascii : {"none", "pause"}],
           isr'.want = 0 => isr'.ascii = "none",
           NEW x, x = Emit(Decoder, Head(wire)), Decoder' = After(Decoder, Head(wire)),
           IF x = "none" THEN UNCHANGED <<keyQueue, due>> ELSE inputQueue(x)
    PROVE  StreamInv'
<1>1. /\ keyQueue \in Seq(Chars) /\ Len(keyQueue) < QUEUE_COUNT /\ wire \in Seq(Bytes)
      /\ strokes \in 0 .. MaxStrokes /\ held \in BOOLEAN
  BY DEF StreamInv, StreamTyped
<1>2. PICK d, f : d = Decoder /\ f = Decoder'
  OBVIOUS
<1>3. /\ x = "none" => Pending(keyQueue, due, f, Tail(wire), held)
      /\ x # "none" =>
           /\ x \in Chars
           /\ Pending(Append(keyQueue, x), due, f, Tail(wire), held)
           /\ Pending(keyQueue, RemoveAt(due, Len(keyQueue) + 1), f, Tail(wire), held)
  <2>1. Pending(keyQueue, due, d, wire, held)
    BY <1>2 DEF StreamInv
  <2>2. x = Emit(d, Head(wire)) /\ f = After(d, Head(wire))
    BY <1>2
  <2> QED BY <1>1, <2>1, <2>2, PendingRead
<1>4. Tail(wire) \in Seq(Bytes)
  BY <1>1, HeadTailProperties
<1>5. /\ keyQueue' \in Seq(Chars) /\ Len(keyQueue') < QUEUE_COUNT
      /\ Pending(keyQueue', due', f, Tail(wire), held)
  <2>1. CASE x = "none"
    BY <1>1, <1>3, <2>1
  <2>2. CASE x # "none" /\ Len(keyQueue) = QUEUE_COUNT - 1
    <3>1. /\ keyQueue' = keyQueue /\ due' = RemoveAt(due, QUEUE_COUNT)
          /\ QUEUE_COUNT = Len(keyQueue) + 1
      BY <2>2, KeyboardAssumption DEF inputQueue
    <3> QED BY <1>1, <1>3, <2>2, <3>1
  <2>3. CASE x # "none" /\ Len(keyQueue) # QUEUE_COUNT - 1
    <3>1. keyQueue' = Append(keyQueue, x) /\ due' = due
      BY <2>3 DEF inputQueue
    <3>2. /\ Append(keyQueue, x) \in Seq(Chars)
          /\ Len(Append(keyQueue, x)) = Len(keyQueue) + 1 /\ Len(keyQueue) \in Nat
      BY <1>1, <1>3, <2>3, AppendProperties, LenProperties
    <3>3. Len(Append(keyQueue, x)) < QUEUE_COUNT
      BY <1>1, <2>3, <3>2, KeyboardAssumption
    <3> QED BY <1>3, <2>3, <3>1, <3>2, <3>3
  <2> QED BY <2>1, <2>2, <2>3
<1>6. StreamTyped'
  BY <1>1, <1>4, <1>5, Zenon DEF StreamTyped
<1>7. Pending(keyQueue', due', Decoder', wire', held')
  BY <1>2, <1>5
<1> QED BY <1>6, <1>7 DEF StreamInv

\* getKey takes the first character, or blocks.
LEMMA StreamLoop ==
    ASSUME StreamInv, NEW p, getKeyLoop(p), UNCHANGED <<shiftOn, isr, wire, strokes, held>>
    PROVE  StreamInv'
<1>1. keyQueue \in Seq(Chars) /\ Len(keyQueue) < QUEUE_COUNT
  BY DEF StreamInv, StreamTyped
<1>2. PICK d : d = Decoder
  OBVIOUS
<1>3. Decoder' = d
  BY <1>2 DEF Decoder
<1>4. Pending(keyQueue, due, d, wire, held)
  BY <1>2 DEF StreamInv
<1>5. /\ keyQueue' \in Seq(Chars) /\ Len(keyQueue') < QUEUE_COUNT
      /\ Pending(keyQueue', due', d, wire, held)
  <2>1. CASE keyQueue = <<>>
    BY <1>1, <1>4, <2>1 DEF getKeyLoop
  <2>2. CASE keyQueue # <<>>
    <3>1. keyQueue' = Tail(keyQueue) /\ due' = Tail(due)
      BY <2>2 DEF getKeyLoop
    <3>2. /\ Tail(keyQueue) \in Seq(Chars) /\ Len(Tail(keyQueue)) = Len(keyQueue) - 1
          /\ Len(keyQueue) \in Nat
      BY <1>1, <2>2, HeadTailProperties, LenProperties
    <3>3. Len(Tail(keyQueue)) < QUEUE_COUNT
      BY <1>1, <3>2, KeyboardAssumption
    <3> QED BY <1>1, <1>4, <2>2, <3>1, <3>2, <3>3, PendingTake
  <2> QED BY <2>1, <2>2
<1>6. StreamTyped'
  BY <1>5, Zenon DEF StreamInv, StreamTyped
<1>7. Pending(keyQueue', due', Decoder', wire', held')
  BY <1>3, <1>5
<1> QED BY <1>6, <1>7 DEF StreamInv

LEMMA StreamStep == StreamInv /\ [Next]_vars => StreamInv'
<1> SUFFICES ASSUME StreamInv, [Next]_vars PROVE StreamInv'
  OBVIOUS
<1>1. ASSUME UNCHANGED <<keyQueue, shiftOn, isr, wire, strokes, held, due>> PROVE StreamInv'
  <2>1. Decoder' = Decoder
    BY <1>1 DEF Decoder
  <2>2. StreamTyped'
    BY <1>1, Zenon DEF StreamInv, StreamTyped
  <2> QED BY <1>1, <2>1, <2>2 DEF StreamInv
<1>2. ASSUME NEW s \in Strokes, Stroke(s) PROVE StreamInv'
  <2>1. PICK d, h, x : d = Decoder /\ h = held /\ x = Typed(s, held)
    OBVIOUS
  <2>2. /\ wire \in Seq(Bytes) /\ keyQueue \in Seq(Chars) /\ h \in BOOLEAN
        /\ Pending(keyQueue, due, d, wire, h)
    BY <2>1, Zenon DEF StreamInv, StreamTyped
  <2>3. /\ wire \o s \in Seq(Bytes) /\ Holds(s, h) \in BOOLEAN
        /\ Pending(keyQueue, Behind(due, x), d, wire \o s, Holds(s, h))
    BY <2>1, <2>2, PendingStroke, Zenon
  <2>4. /\ wire' = wire \o s /\ UNCHANGED <<keyQueue, shiftOn, isr>>
        /\ strokes' = strokes + 1 /\ strokes < MaxStrokes
    BY <1>2 DEF Stroke
  <2>5. held' = Holds(s, h)
    BY <1>2, <2>1 DEF Stroke, Holds
  <2>6. due' = Behind(due, x)
    <3>1. CASE s[1] \in Keys
      <4>1. due' = Append(due, KeyChar(s[1], h))
        <5>1. due' = Append(due, KeyChar(s[1], held))
          <6>1. s[1] # "E1"
            BY <3>1 DEF Keys
          <6>2. due' = Append(due, IF held THEN upper[s[1]] ELSE s[1])
            BY <1>2, <3>1, <6>1 DEF Stroke
          <6> QED BY <6>2, Zenon DEF KeyChar
        <5> QED BY <2>1, <5>1, Zenon
      <4>2. x = KeyChar(s[1], h)
        BY <2>1, <3>1 DEF Typed
      <4>3. KeyChar(s[1], h) # "none"
        BY <3>1 DEF KeyChar, Keys, upper
      <4> QED BY <4>1, <4>2, <4>3 DEF Behind
    <3>2. CASE s[1] \notin Keys /\ s[1] = "E1"
      BY <1>2, <2>1, <3>2 DEF Stroke, Typed, Behind
    <3>3. CASE s[1] \notin Keys /\ s[1] # "E1"
      BY <1>2, <2>1, <3>3 DEF Stroke, Typed, Behind
    <3> QED BY <3>1, <3>2, <3>3
  <2>7. Decoder' = d
    BY <2>1, <2>4 DEF Decoder
  <2>8. strokes' \in 0 .. MaxStrokes
    BY <2>4, KeyboardAssumption DEF StreamInv, StreamTyped
  <2>9. StreamTyped'
    BY <2>3, <2>4, <2>5, <2>8, Zenon DEF StreamInv, StreamTyped
  <2>10. Pending(keyQueue', due', Decoder', wire', held')
    BY <2>3, <2>4, <2>5, <2>6, <2>7
  <2> QED BY <2>9, <2>10 DEF StreamInv
<1>3. ASSUME keyboardInterruptHandler PROVE StreamInv'
  <2> DEFINE code == Head(wire)
  <2>1. /\ isr.want = 0 /\ wire # <<>> /\ wire' = Tail(wire)
        /\ shiftOn' = shiftAfter(code) /\ UNCHANGED <<strokes, held>>
        /\ IF moreBytes(code) > 0
           THEN /\ isr' = [want |-> moreBytes(code), ascii |-> scanToASCII(code)]
                /\ UNCHANGED <<keyQueue, due>>
           ELSE inputQueue(scanToASCII(code)) /\ UNCHANGED isr
    BY <1>3 DEF keyboardInterruptHandler, InterruptsOn
  <2>2. /\ shiftOn \in BOOLEAN /\ isr.ascii = "none"
        /\ isr \in [want : 0 .. 2, ascii : {"none", "pause"}]
    BY <2>1, Zenon DEF StreamInv, StreamTyped
  <2>3. PICK c : c = code
    OBVIOUS
  <2>4. shiftOn' \in BOOLEAN
    <3>1. shiftAfter(c) \in BOOLEAN
      BY <2>2, Zenon DEF shiftAfter
    <3> QED BY <2>1, <2>3, <3>1, Zenon
  <2>5. Decoder = AtRest(shiftOn)
    BY <2>1, <2>2, Zenon DEF Decoder, AtRest, Waits
  <2>6. PICK x : x = Emit(Decoder, c)
    OBVIOUS
  <2>7. /\ After(Decoder, c) = Waits(moreBytes(c), IF c = "E1" THEN "pause" ELSE "none",
                                     shiftAfter(c))
        /\ x = IF c \in Keys THEN KeyChar(c, shiftOn) ELSE "none"
    BY <2>5, <2>6, AfterRest, Zenon DEF shiftAfter
  <2>8. CASE moreBytes(c) > 0
    <3>1. c \in {"E0", "E1"}
      BY <2>8 DEF moreBytes
    <3>2. c \notin Keys /\ moreBytes(c) \in 0 .. 2
      BY <3>1 DEF Keys, moreBytes
    <3>3. scanToASCII(c) = IF c = "E1" THEN "pause" ELSE "none"
      BY <3>2 DEF scanToASCII, keyMappingTable
    <3>4. /\ isr' = [want |-> moreBytes(c), ascii |-> IF c = "E1" THEN "pause" ELSE "none"]
          /\ UNCHANGED <<keyQueue, due>>
      BY <2>1, <2>3, <2>8, <3>3
    <3>5. /\ isr' \in [want : 0 .. 2, ascii : {"none", "pause"}] /\ isr'.want = moreBytes(c)
          /\ isr'.ascii = IF c = "E1" THEN "pause" ELSE "none"
      BY <3>2, <3>4
    <3>6. Decoder' = After(Decoder, c) /\ x = "none"
      BY <2>1, <2>3, <2>7, <3>2, <3>5, Zenon DEF Decoder, Waits
    <3>7. isr'.want # 0
      BY <2>8, <3>5
    <3> QED BY <2>1, <2>3, <2>4, <2>6, <3>4, <3>5, <3>6, <3>7, StreamRead, Zenon
  <2>9. CASE ~(moreBytes(c) > 0)
    <3>1. c # "E1" /\ moreBytes(c) = 0
      BY <2>9 DEF moreBytes
    <3>2. scanToASCII(c) = x
      BY <2>7, <3>1, Zenon DEF scanToASCII, keyMappingTable, KeyChar
    <3>3. inputQueue(x) /\ isr' = isr
      BY <2>1, <2>3, <2>9, <3>2
    <3>4. Decoder' = After(Decoder, c)
      BY <2>1, <2>2, <2>3, <2>7, <3>1, <3>3, Zenon DEF Decoder, Waits
    <3>5. IF x = "none" THEN UNCHANGED <<keyQueue, due>> ELSE inputQueue(x)
      BY <3>3 DEF inputQueue
    <3>6. /\ isr' \in [want : 0 .. 2, ascii : {"none", "pause"}]
          /\ isr'.want = 0 => isr'.ascii = "none"
      BY <2>2, <3>3, Zenon
    <3> QED BY <2>1, <2>3, <2>4, <2>6, <3>4, <3>5, <3>6, StreamRead, Zenon
  <2> QED BY <2>8, <2>9
<1>4. ASSUME getScanCode PROVE StreamInv'
  <2>1. /\ isr.want > 0 /\ wire # <<>> /\ wire' = Tail(wire)
        /\ isr' = IF isr.want = 1 THEN Idling ELSE [isr EXCEPT !.want = @ - 1]
        /\ IF isr.want = 1 THEN inputQueue(isr.ascii) ELSE UNCHANGED <<keyQueue, due>>
        /\ UNCHANGED <<shiftOn, strokes, held>>
    BY <1>4 DEF getScanCode
  <2>2. isr \in [want : 0 .. 2, ascii : {"none", "pause"}] /\ shiftOn \in BOOLEAN
    BY Zenon DEF StreamInv, StreamTyped
  <2>3. PICK b, h : b = Head(wire) /\ h = shiftOn
    OBVIOUS
  <2>4. Decoder = Waits(isr.want, isr.ascii, h)
    BY <2>3, Zenon DEF Decoder, Waits
  <2>5. PICK x : x = Emit(Decoder, b)
    OBVIOUS
  <2>6. CASE isr.want = 1
    <3>1. isr' = [want |-> 0, ascii |-> "none"] /\ inputQueue(isr.ascii)
      BY <2>1, <2>6 DEF Idling
    <3>2. After(Decoder, b) = AtRest(h) /\ x = isr.ascii
      <4>1. PICK d : d = Decoder
        OBVIOUS
      <4> QED BY <2>4, <2>5, <2>6, <4>1, AfterOne
    <3>3. Decoder' = AtRest(h)
      <4>1. isr'.want = 0 /\ isr'.ascii = "none"
        BY <3>1
      <4>2. shiftOn' = h
        BY <2>1, <2>3, Zenon
      <4> QED BY <4>1, <4>2, Zenon DEF Decoder, AtRest, Waits
    <3>4. /\ isr' \in [want : 0 .. 2, ascii : {"none", "pause"}]
          /\ isr'.want = 0 => isr'.ascii = "none"
      BY <3>1
    <3>5. IF x = "none" THEN UNCHANGED <<keyQueue, due>> ELSE inputQueue(x)
      BY <3>1, <3>2 DEF inputQueue
    <3>6. shiftOn' \in BOOLEAN /\ UNCHANGED <<strokes, held>>
      BY <2>1, <2>2
    <3> QED BY <2>1, <2>3, <2>5, <3>2, <3>3, <3>4, <3>5, <3>6, StreamRead, Zenon
  <2>7. CASE isr.want = 2
    <3>1. /\ isr' = [isr EXCEPT !.want = @ - 1] /\ UNCHANGED <<keyQueue, due>>
      BY <2>1, <2>7
    <3>2. /\ isr' \in [want : 0 .. 2, ascii : {"none", "pause"}]
          /\ isr'.want = 1 /\ isr'.ascii = isr.ascii
      BY <2>2, <2>7, <3>1
    <3>3. After(Decoder, b) = Waits(1, isr.ascii, h) /\ x = "none"
      <4>1. PICK d : d = Decoder
        OBVIOUS
      <4> QED BY <2>4, <2>5, <2>7, <4>1, AfterTwo
    <3>4. Decoder' = Waits(1, isr.ascii, h)
      BY <2>1, <2>3, <3>2, Zenon DEF Decoder, Waits
    <3>5. isr'.want # 0
      BY <3>2
    <3>6. shiftOn' \in BOOLEAN /\ UNCHANGED <<strokes, held>>
      BY <2>1, <2>2
    <3> QED BY <2>1, <2>3, <2>5, <3>1, <3>2, <3>3, <3>4, <3>5, <3>6, StreamRead, Zenon
  <2> QED BY <2>1, <2>2, <2>6, <2>7
<1>5. ASSUME timerInterruptHandler PROVE StreamInv'
  BY <1>1, <1>5 DEF timerInterruptHandler
<1>6. ASSUME getKey PROVE StreamInv'
  BY <1>6, StreamLoop DEF getKey
<1>7. ASSUME getKeyWoken PROVE StreamInv'
  BY <1>7, StreamLoop DEF getKeyWoken
<1>8. ASSUME NEW p \in Workers, sleepReturns(p) PROVE StreamInv'
  BY <1>1, <1>8 DEF sleepReturns
<1>9. ASSUME NEW p \in Workers, NEW ms \in Millis, sleepProcess(p, ms) PROVE StreamInv'
  BY <1>1, <1>9 DEF sleepProcess
<1>10. ASSUME UNCHANGED vars PROVE StreamInv'
  BY <1>1, <1>10 DEF vars
<1> QED BY <1>2, <1>3, <1>4, <1>5, <1>6, <1>7, <1>8, <1>9, <1>10 DEF Next

-----------------------------------------------------------------------------
(* The theorems.                                                           *)

LEMMA KeyboardInvariant == Spec => []KeyboardInv
<1>1. Init => KeyboardInv
  BY ReaderInit, StreamInit DEF KeyboardInv
<1>2. KeyboardInv /\ [Next]_vars => KeyboardInv'
  BY ReaderStep, StreamStep DEF KeyboardInv
<1> QED BY <1>1, <1>2, PTL DEF Spec

\* Nothing comes between getKey's test of the queue and its blocking, and every
\* character wakes the reader: whatever the processes do and however many there
\* are, the shell never sleeps beside a character and nobody woken waits while the
\* processor halts (getKey, inputQueue, wakeupProcessInInterrupt).
THEOREM NoMissedKeyAlways == Spec => []NoMissedKey
<1>1. KeyboardInv => NoMissedKey
  <2> SUFFICES ASSUME KeyboardInv PROVE NoMissedKey
    OBVIOUS
  <2>1. due \in Seq(Chars)
    <3>1. PICK out \in Seq(Chars) : due = keyQueue \o out
      BY DEF KeyboardInv, StreamInv, Pending
    <3> QED BY <3>1, ConcatProperties DEF KeyboardInv, StreamInv, StreamTyped
  <2>2. sched \in SchedType
    BY DEF KeyboardInv, ReaderInv, Consistent, Listed
  <2>3. keyWaiter \in Pids \cup {NULL}
    BY KeyboardPids DEF KeyboardInv, ReaderInv
  <2>4. TypeOK
    BY <2>1, <2>2, <2>3, Zenon
    DEF KeyboardInv, ReaderInv, StreamInv, StreamTyped, TypeOK
  <2> QED BY <2>4 DEF KeyboardInv, ReaderInv, Consistent, NoMissedKey, Running
<1> QED BY <1>1, KeyboardInvariant, PTL

\* Whatever is typed, however the strokes and the handler's reads interleave: the
\* queue is the oldest part of what is due, and all of it when the keyboard is
\* silent (scanToASCII, inputQueue, getKey).
THEOREM KeysInOrderAlways == Spec => []KeysInOrder
<1>1. KeyboardInv => KeysInOrder
  <2> SUFFICES ASSUME KeyboardInv PROVE KeysInOrder
    OBVIOUS
  <2>1. PICK out \in Seq(Chars) :
          due = keyQueue \o out /\ Decodes(Decoder, wire, AtRest(held), out)
    BY DEF KeyboardInv, StreamInv, Pending
  <2>2. keyQueue \in Seq(Chars)
    BY DEF KeyboardInv, StreamInv, StreamTyped
  <2>3. IsPrefix(keyQueue, due)
    BY <2>1, <2>2 DEF IsPrefix
  <2>4. wire = <<>> => out = <<>>
    BY <2>1, DecodeNothing
  <2> QED BY <2>1, <2>2, <2>3, <2>4, ConcatEmptySeq DEF KeysInOrder
<1> QED BY <1>1, KeyboardInvariant, PTL
=============================================================================
