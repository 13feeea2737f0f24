------------------------------ MODULE Keyboard ------------------------------
(***************************************************************************)
(* kernel/drivers/Keyboard.c on top of the scheduler: the keyboard ISR     *)
(* turns scan codes into characters and queues them, getKey blocks the     *)
(* reading process until there is one. Only the shell process reads        *)
(* (startShell, and runEditor which it calls); other processes compute and *)
(* sleep, and the timer preempts them all.                                 *)
(*                                                                         *)
(* A scan code is a name: "a" and "b" stand for the keys of                *)
(* keyMappingTable that have a character, "none" for its KEY_NONE entries, *)
(* "break" for every code behind the table.                                *)
(***************************************************************************)
EXTENDS Process, FiniteSets

CONSTANTS QUEUE_COUNT,   \* length of queueBuffer (it holds one less)
          Workers,       \* the other processes
          Millis,        \* how long they sleep
          MaxStrokes     \* bound: keystrokes of a behaviour

ASSUME KeyboardAssumption ==
    /\ QUEUE_COUNT \in Nat /\ QUEUE_COUNT >= 2
    /\ Workers \subseteq Pids \ {Shell, Collector, Idle}
    /\ Millis \subseteq Nat
    /\ MaxStrokes \in Nat

VARIABLES
    sched,      \* the ProcessScheduler structure
    at,         \* "run", or the function a process was switched away in
    keyQueue,   \* characters for getKey
    keyWaiter,  \* the process blocked in getKey, or NULL
    shiftOn,
    isr,        \* [want |-> bytes the ISR spins for, ascii |-> what it then queues]
    wire,       \* bytes the keyboard has sent and the ISR has not read
    strokes,    \* number of keystrokes so far
    held,       \* the user holds the shift key
    due         \* the characters the user typed and nobody has read yet

vars == <<sched, at, keyQueue, keyWaiter, shiftOn, isr, wire, strokes, held, due>>

Running == sched.runningProcess

Keys == {"a", "b"}

\* The two columns of keyMappingTable.
upper == [a |-> "A", b |-> "B"]
keyMappingTable(code, shift) ==
    IF code \notin Keys THEN "none" ELSE IF shift THEN upper[code] ELSE code

Chars == {"a", "b", "A", "B", "pause"}

Bytes == Keys \cup {"none", "break", "shiftDown", "shiftUp", "E0", "E1"}

Idling == [want |-> 0, ascii |-> "none"]

\* What the keyboard sends for a keystroke: the second byte of an extended code
\* may look like a key or like shift.
Strokes == { <<"a">>, <<"b">>, <<"none">>, <<"break">>, <<"shiftDown">>, <<"shiftUp">>,
             <<"E0", "a">>, <<"E0", "shiftDown">>, <<"E1", "a", "b">> }

TypeOK ==
    /\ sched \in SchedType
    /\ at \in [Pids -> {"run", "sleep", "key", "gc"}]
    /\ keyQueue \in Seq(Chars) /\ Len(keyQueue) < QUEUE_COUNT
    /\ keyWaiter \in Pids \cup {NULL}
    /\ shiftOn \in BOOLEAN /\ held \in BOOLEAN
    /\ isr \in [want : 0 .. 2, ascii : {"none", "pause"}]
    /\ wire \in Seq(Bytes) /\ due \in Seq(Chars)
    /\ strokes \in 0 .. MaxStrokes

\* The shell runs, the collector has blocked on its empty queue, the workers are
\* ready in some order: a state the boot sequence leads to.
Init ==
    /\ \E ready \in SetToSeqs(Workers) :
         sched = [initScheduler EXCEPT !.processList = ready,
                                       !.state[Collector] = BLOCKED]
    /\ at = [p \in Pids |-> IF p = Collector THEN "gc" ELSE "run"]
    /\ keyQueue = <<>> /\ keyWaiter = NULL /\ shiftOn = FALSE   \* initKeyboard
    /\ isr = Idling
    /\ wire = <<>> /\ strokes = 0 /\ held = FALSE /\ due = <<>>

InterruptsOn == isr.want = 0 /\ at[Running] = "run"

-----------------------------------------------------------------------------
(* The user and the keyboard. held and due record what was typed.           *)

Stroke(s) ==
    /\ strokes < MaxStrokes
    /\ strokes' = strokes + 1
    /\ wire' = wire \o s
    /\ held' = CASE s = <<"shiftDown">> -> TRUE
                 [] s = <<"shiftUp">>   -> FALSE
                 [] OTHER               -> held
    /\ due' = CASE s[1] \in Keys -> Append(due, IF held THEN upper[s[1]] ELSE s[1])
                [] s[1] = "E1"   -> Append(due, "pause")
                [] OTHER         -> due
    /\ UNCHANGED <<sched, at, keyQueue, keyWaiter, shiftOn, isr>>

-----------------------------------------------------------------------------
(* The interrupt handler, which runs with IF=0.                             *)

\* Mutant of inputQueue: the reader is not woken.
inputQueueNoWake(ascii) ==
    IF ascii = "none" \/ Len(keyQueue) = QUEUE_COUNT - 1
    THEN UNCHANGED <<keyQueue, sched, due>>
    ELSE keyQueue' = Append(keyQueue, ascii) /\ UNCHANGED <<sched, due>>

\* inputQueue: a character is queued and the reader woken; when the queue is
\* full the character is dropped, and nobody waits for it any more.
inputQueue(ascii) ==
    IF ascii = "none" THEN UNCHANGED <<keyQueue, sched, due>>
    ELSE /\ sched' = wakeupProcessInInterrupt(sched, keyWaiter)
         /\ IF Len(keyQueue) = QUEUE_COUNT - 1
            THEN UNCHANGED keyQueue /\ due' = RemoveAt(due, QUEUE_COUNT)
            ELSE keyQueue' = Append(keyQueue, ascii) /\ UNCHANGED due

\* Mutant of moreBytes: the third byte of Pause is left for the next interrupt.
moreBytesOneShort(code) == IF code \in {"E0", "E1"} THEN 1 ELSE 0

\* How many more bytes scanToASCII reads behind this one.
moreBytes(code) == CASE code = "E1" -> 2 [] code = "E0" -> 1 [] OTHER -> 0

\* What scanToASCII makes of shiftOn.
shiftAfter(code) == code = "shiftDown" \/ (shiftOn /\ code # "shiftUp")

\* The character for a code, with the further bytes of an extended one read.
scanToASCII(code) == IF code = "E1" THEN "pause" ELSE keyMappingTable(code, shiftOn)

\* scanToASCII and inputQueue for one byte; a prefix makes the handler spin.
keyboardInterruptHandler ==
    /\ InterruptsOn
    /\ wire # <<>>
    /\ wire' = Tail(wire)
    /\ LET code == Head(wire) IN
         /\ shiftOn' = shiftAfter(code)
         /\ IF moreBytes(code) > 0
            THEN /\ isr' = [want |-> moreBytes(code), ascii |-> scanToASCII(code)]
                 /\ UNCHANGED <<keyQueue, sched, due>>
            ELSE inputQueue(scanToASCII(code)) /\ UNCHANGED isr
    /\ UNCHANGED <<at, keyWaiter, strokes, held>>

\* getScanCode inside the handler: it waits for a byte, whatever it is.
getScanCode ==
    /\ isr.want > 0
    /\ wire # <<>>
    /\ wire' = Tail(wire)
    /\ isr' = IF isr.want = 1 THEN Idling ELSE [isr EXCEPT !.want = @ - 1]
    /\ IF isr.want = 1 THEN inputQueue(isr.ascii) ELSE UNCHANGED <<keyQueue, sched, due>>
    /\ UNCHANGED <<at, keyWaiter, shiftOn, strokes, held>>

timerInterruptHandler ==
    /\ InterruptsOn
    /\ sched' = timeoutSchedule(wakeExpiredProcess(tickCount(sched)))
    /\ UNCHANGED <<at, keyQueue, keyWaiter, shiftOn, isr, wire, strokes, held, due>>

-----------------------------------------------------------------------------
(* The processes.                                                           *)

\* The loop of getKey from its test on, with IF=0: take a character and return,
\* or register as the waiter and block.
getKeyLoop(p) ==
    IF keyQueue = <<>>
    THEN /\ keyWaiter' = p
         /\ sched' = blockRunningProcess(sched)
         /\ at' = [at EXCEPT ![p] = "key"]
         /\ UNCHANGED <<keyQueue, due>>
    ELSE /\ keyQueue' = Tail(keyQueue)
         /\ due' = Tail(due)
         /\ keyWaiter' = IF at[p] = "key" THEN NULL ELSE keyWaiter
         /\ at' = [at EXCEPT ![p] = "run"]
         /\ UNCHANGED sched

\* The shell calls getKey.
getKey ==
    /\ InterruptsOn /\ Running = Shell
    /\ getKeyLoop(Shell)
    /\ UNCHANGED <<shiftOn, isr, wire, strokes, held>>

\* The shell continues behind blockRunningProcess.
getKeyWoken ==
    /\ isr.want = 0 /\ Running = Shell /\ at[Shell] = "key"
    /\ getKeyLoop(Shell)
    /\ UNCHANGED <<shiftOn, isr, wire, strokes, held>>

sleepProcess(p, ms) ==
    /\ InterruptsOn /\ p = Running
    /\ sched' = sleepUntilTick(sched, ticksOf(ms))
    /\ at' = [at EXCEPT ![p] = "sleep"]
    /\ UNCHANGED <<keyQueue, keyWaiter, shiftOn, isr, wire, strokes, held, due>>

sleepReturns(p) ==
    /\ p = Running /\ at[p] = "sleep"
    /\ at' = [at EXCEPT ![p] = "run"]
    /\ UNCHANGED <<sched, keyQueue, keyWaiter, shiftOn, isr, wire, strokes, held, due>>

Next ==
    \/ \E s \in Strokes : Stroke(s)
    \/ keyboardInterruptHandler \/ getScanCode \/ timerInterruptHandler
    \/ getKey \/ getKeyWoken
    \/ \E p \in Workers : sleepReturns(p) \/ \E ms \in Millis : sleepProcess(p, ms)

Spec == Init /\ [][Next]_vars

-----------------------------------------------------------------------------
\* getKey's comment: with IF=0 no input can be missed between the test of the
\* queue and the blocking. The reader never sleeps beside a character, the ISR
\* knows whom to wake, and nobody it woke waits while the idle process halts.
NoMissedKey ==
    /\ TypeOK
    /\ Running = Idle /\ InterruptsOn => sched.processList = <<>>
    /\ sched.state[Shell] = BLOCKED => keyQueue = <<>> /\ keyWaiter = Shell

\* The queue holds what was typed and not yet read, in order, each keystroke with
\* the shift state it was typed with and no byte of an extended code taken for a
\* key; only what came when the queue was full is missing.
KeysInOrder ==
    /\ IsPrefix(keyQueue, due)
    /\ wire = <<>> /\ isr.want = 0 => keyQueue = due

(***************************************************************************)
(* Fairness: pending interrupts are taken once IF is 1 again (PIC), a      *)
(* dispatched function returns, the keyboard completes a sequence it       *)
(* began, and the shell always comes back to getKey.                       *)
(***************************************************************************)
FairSpec ==
    /\ Spec
    /\ SF_vars(timerInterruptHandler) /\ SF_vars(keyboardInterruptHandler)
    /\ WF_vars(getScanCode)
    /\ WF_vars(\E p \in Workers : sleepReturns(p)) /\ WF_vars(getKeyWoken)
    /\ SF_vars(getKey)

\* Every character typed is read in the end, whatever the other processes do.
KeysAreRead == due # <<>> ~> due = <<>>
=============================================================================
