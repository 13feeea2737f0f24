----------------------------- MODULE Stopwatch -----------------------------
(***************************************************************************)
(* The stopwatch of kernel/drivers/PIT.c and the polling loops of Disk.c   *)
(* that use it as their timeout (waitStatus, waitDataRequest). Counter 0   *)
(* of the PIT counts down from its reload value to 1 and is reloaded; the  *)
(* reload is also the timer interrupt, which may give the CPU to other     *)
(* processes while the loop is waiting.                                    *)
(***************************************************************************)
EXTENDS Integers

CONSTANTS RELOAD,     \* counter0Reload: clocks per timer tick
          LIMIT,      \* msToClock(WAIT_TIMEOUT_MS)
          POLL_GAP,   \* clocks one round of the loop takes at most
          MaxSlices,  \* bound: ticks for which the poller can be off the CPU
          MaxReal     \* bound: clocks of a behaviour

ASSUME StopwatchAssumption ==
    /\ RELOAD \in Nat /\ RELOAD > 1
    /\ LIMIT \in Nat \ {0} /\ MaxSlices \in Nat /\ MaxReal \in Nat
    /\ POLL_GAP \in 1 .. RELOAD - 1

VARIABLES
    counter,       \* the PIT's counter 0
    lastCounter, elapsedClock,   \* the PITStopwatch
    timedOut,      \* the loop has ended because elapsedClock reached the limit
    onCpu,         \* the polling process runs
    slices,        \* ticks since it was preempted
    ran,           \* clocks it ran since it last polled or was dispatched
    preempted,     \* it was preempted since startStopwatch
    real, polled   \* clocks since startStopwatch: now, and at the last poll

watchVars == <<counter, lastCounter, elapsedClock, timedOut, onCpu, slices, ran,
          preempted, real, polled>>

WatchTypeOK ==
    /\ counter \in 1 .. RELOAD /\ lastCounter \in 1 .. RELOAD
    /\ elapsedClock \in Nat
    /\ timedOut \in BOOLEAN /\ onCpu \in BOOLEAN /\ preempted \in BOOLEAN
    /\ slices \in 0 .. MaxSlices
    /\ ran \in 0 .. POLL_GAP
    /\ real \in 0 .. MaxReal /\ polled \in 0 .. real

startStopwatch ==
    /\ counter \in 1 .. RELOAD
    /\ lastCounter = counter
    /\ elapsedClock = 0

WatchInit ==
    /\ startStopwatch
    /\ timedOut = FALSE /\ onCpu = TRUE /\ preempted = FALSE
    /\ slices = 0 /\ ran = 0 /\ real = 0 /\ polled = 0

\* One clock of the PIT that is not a reload.
countDown ==
    /\ ~timedOut /\ real < MaxReal
    /\ counter > 1
    /\ onCpu => ran < POLL_GAP
    /\ counter' = counter - 1
    /\ real' = real + 1
    /\ ran' = IF onCpu THEN ran + 1 ELSE ran
    /\ UNCHANGED <<lastCounter, elapsedClock, timedOut, onCpu, slices, preempted, polled>>

\* The reload, with the timer interrupt: the poller keeps or gets the CPU, or
\* others have it for the next tick.
reload ==
    /\ ~timedOut /\ real < MaxReal
    /\ counter = 1
    /\ onCpu => ran < POLL_GAP
    /\ counter' = RELOAD
    /\ real' = real + 1
    /\ \/ /\ onCpu' = TRUE /\ slices' = 0
          /\ ran' = IF onCpu THEN ran + 1 ELSE 0
          /\ UNCHANGED preempted
       \/ /\ slices < MaxSlices
          /\ onCpu' = FALSE /\ slices' = slices + 1 /\ ran' = 0
          /\ preempted' = TRUE
    /\ UNCHANGED <<lastCounter, elapsedClock, timedOut, polled>>

\* Mutant of elapsedSince: the reload between two polls is not corrected.
elapsedSinceRaw(last, now) == last - now

\* The clocks getElapsedClock adds for two counter values.
elapsedSince(last, now) == IF last - now < 0 THEN last - now + RELOAD ELSE last - now

getElapsedClock ==
    /\ elapsedClock' = elapsedClock + elapsedSince(lastCounter, counter)
    /\ lastCounter' = counter

\* The end of a round of the loop, when the status was not the one waited for.
poll ==
    /\ ~timedOut /\ onCpu
    /\ getElapsedClock
    /\ timedOut' = (elapsedClock' >= LIMIT)
    /\ polled' = real
    /\ ran' = 0
    /\ UNCHANGED <<counter, onCpu, slices, preempted, real>>

WatchNext == countDown \/ reload \/ poll

WatchSpec == WatchInit /\ [][WatchNext]_watchVars

-----------------------------------------------------------------------------
\* A wait never gives up early, however often it was preempted, and what it loses
\* are whole reload periods: the fraction of the period is right at every poll.
\* PIT.c's comment asks for a call in every reload period; a loop that is not
\* preempted meets it and measures exactly, also across reloads.
WholePeriodsLost ==
    /\ WatchTypeOK
    /\ elapsedClock <= polled /\ (polled - elapsedClock) % RELOAD = 0
    /\ ~preempted => elapsedClock = polled
=============================================================================
