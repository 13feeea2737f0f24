-------------------------------- MODULE Disk --------------------------------
(***************************************************************************)
(* kernel/drivers/Disk.c on top of the scheduler: readSector and           *)
(* writeSector on the channel the file system uses, under diskMutex, with  *)
(* the completion interrupt, the 500 ms timeout of waitInterrupt and the   *)
(* polling of the status register. Several processes call them.            *)
(*                                                                         *)
(* The drive is external: it may be slow, fail, or never answer. An        *)
(* interrupt request is taken before the next instruction that runs with   *)
(* IF=1 (the steps of a process with IF=1 require ~irq).                   *)
(***************************************************************************)
EXTENDS Sync, FiniteSets

CONSTANTS Clients,       \* the processes that use the disk
          Ops,           \* what they call: subset of {"read", "write"}
          SectorCounts,  \* the sector counts they ask for
          WAIT_TICKS     \* WAIT_TIMEOUT_MS in timer ticks

ASSUME DiskAssumption ==
    /\ Clients \subseteq Pids \ {Collector, Idle} /\ Shell \in Clients
    /\ Ops \subseteq {"read", "write"}
    /\ SectorCounts \subseteq Nat \ {0}
    /\ WAIT_TICKS \in Nat \ {0}

VARIABLES
    sched,       \* the ProcessScheduler structure
    diskMutex,
    occurFlag,   \* isPrimaryInterruptOccur
    diskWaiter,  \* diskWaiter[TRUE]
    at,          \* where each process stands
    call,        \* while it is in one: the arguments and the loop counter i of its
                 \* call, and whether the drive ignored its command
    buf,         \* for each sector it moved: the command the drive moved it for
    irq,         \* IRQ 14 is pending at the PIC
    dev          \* the drive

vars == <<sched, diskMutex, occurFlag, diskWaiter, at, call, buf, irq, dev>>

Running == sched.runningProcess

(***************************************************************************)
(* "run"     not in Disk.c             "drq"     in waitDataRequest        *)
(* "lock"    behind the switch of acquireLock (IF=0)                       *)
(* "noBusy"  in waitNoBusy             "clear"   before clearDiskInterruptFlag *)
(* "ready"   in waitReady              "data"    before the data port loop *)
(* "issue"   before the command        "wait"    before waitInterrupt      *)
(* "block"   behind the switch of sleepUntilTick (IF=0)                    *)
(* "status"  before the status test    "release" before releaseLock        *)
(***************************************************************************)
Points == {"run", "lock", "noBusy", "ready", "issue", "drq", "clear", "data",
           "wait", "block", "status", "release"}

Kinds == {"read", "write"}

\* A command is known by its process and the parity of that process's calls.
Tags == Pids \X {0, 1}

TypeOK ==
    /\ sched \in SchedType
    /\ diskMutex \in [pid : Pids \cup {NULL}, count : Nat, waitList : Seq(Pids)]
    /\ occurFlag \in BOOLEAN /\ irq \in BOOLEAN
    /\ diskWaiter \in Pids \cup {NULL}
    /\ at \in [Pids -> Points]
    /\ call \in [Pids -> [kind : Kinds, n : Nat, i : Nat, parity : {0, 1},
                      ignored : BOOLEAN]]
    /\ \A p \in Pids : call[p].i <= call[p].n
    /\ buf \in [Pids -> Seq(Tags \X Nat)]
    /\ dev \in [phase : {"idle", "busy", "drq", "err"}, kind : Kinds, tag : Tags,
                n : Nat, done : Nat]

noCall(parity) == [kind |-> "read", n |-> 0, i |-> 0, parity |-> parity,
                   ignored |-> FALSE]

TagOf(p) == <<p, call[p].parity>>

\* After initDisk, which identified the drive by polling with IF=0: its interrupt
\* may still be pending. The collector has blocked, the clients are ready, in some
\* order.
Init ==
    /\ \E ready \in SetToSeqs(Clients \ {Shell}) :
         sched = [initScheduler EXCEPT !.processList = ready,
                                       !.state[Collector] = BLOCKED]
    /\ diskMutex = initMutex
    /\ occurFlag = FALSE /\ diskWaiter = NULL
    /\ at = [p \in Pids |-> "run"]
    /\ call = [p \in Pids |-> noCall(0)]
    /\ buf = [p \in Pids |-> <<>>]
    /\ irq \in BOOLEAN
    /\ dev = [phase |-> "idle", kind |-> "read", tag |-> <<Shell, 0>>,
              n |-> 0, done |-> 0]

InterruptsOn == at[Running] \notin {"lock", "block"}

-----------------------------------------------------------------------------
(* Interrupt handlers, each with IF=0 to its end.                           *)

primaryDiskInterruptHandler ==
    /\ InterruptsOn /\ irq
    /\ irq' = FALSE
    /\ occurFlag' = TRUE
    /\ sched' = wakeupProcessInInterrupt(sched, diskWaiter)
    /\ UNCHANGED <<diskMutex, diskWaiter, at, call, buf, dev>>

timerInterruptHandler ==
    /\ InterruptsOn
    /\ sched' = timeoutSchedule(wakeExpiredProcess(tickCount(sched)))
    /\ UNCHANGED <<diskMutex, occurFlag, diskWaiter, at, call, buf, irq, dev>>

-----------------------------------------------------------------------------
(* The drive. done counts the sectors moved for the current command. A      *)
(* command that fails raises an interrupt, the first block of a write only  *)
(* DRQ.                                                                     *)

driveAnswers ==
    /\ dev.phase = "busy"
    /\ IF dev.kind = "write" /\ dev.done = dev.n
       THEN dev' = [dev EXCEPT !.phase = "idle"]
       ELSE dev' = [dev EXCEPT !.phase = "drq"]
    /\ irq' = (irq \/ ~(dev.kind = "write" /\ dev.done = 0))
    /\ UNCHANGED <<sched, diskMutex, occurFlag, diskWaiter, at, call, buf>>

driveFails ==
    /\ dev.phase = "busy"
    /\ dev' = [dev EXCEPT !.phase = "err"]
    /\ irq' = TRUE
    /\ UNCHANGED <<sched, diskMutex, occurFlag, diskWaiter, at, call, buf>>

-----------------------------------------------------------------------------
(* readSector and writeSector.                                              *)

\* p executes its next instruction with IF=1.
Executes(p, point) == p = Running /\ at[p] = point /\ ~irq

goto(p, point) == at' = [at EXCEPT ![p] = point]

\* The call starts with acquireLock.
begin(p, kind, n) ==
    /\ Executes(p, "run")
    /\ call' = [call EXCEPT ![p] = [kind |-> kind, n |-> n, i |-> 0,
                                    parity |-> 1 - call[p].parity,
                                    ignored |-> FALSE]]
    /\ IF diskMutex.pid = NULL
       THEN /\ diskMutex' = [diskMutex EXCEPT !.pid = p, !.count = 1]
            /\ goto(p, "noBusy")
            /\ UNCHANGED sched
       ELSE /\ diskMutex' = [diskMutex EXCEPT !.waitList = insertList(@, p)]
            /\ sched' = blockRunningProcess(sched)
            /\ goto(p, "lock")
    /\ UNCHANGED <<occurFlag, diskWaiter, buf, irq, dev>>

\* acquireLock returns to a process that was handed the mutex.
lockReturns(p) ==
    /\ p = Running /\ at[p] = "lock"
    /\ goto(p, "noBusy")
    /\ UNCHANGED <<sched, diskMutex, occurFlag, diskWaiter, call, buf, irq, dev>>

\* sendDiskCommand: waitNoBusy, the address registers, waitReady,
\* clearDiskInterruptFlag, the command.
waitNoBusy(p) ==
    /\ Executes(p, "noBusy")
    /\ dev.phase # "busy"
    /\ goto(p, "ready")
    /\ UNCHANGED <<sched, diskMutex, occurFlag, diskWaiter, call, buf, irq, dev>>

waitReady(p) ==
    /\ Executes(p, "ready")
    /\ dev.phase # "busy"
    /\ occurFlag' = FALSE
    /\ goto(p, "issue")
    /\ UNCHANGED <<sched, diskMutex, diskWaiter, call, buf, irq, dev>>

\* A drive that still has DRQ set may take the command or ignore it.
command(p) ==
    /\ Executes(p, "issue")
    /\ \/ /\ dev' = [phase |-> "busy", kind |-> call[p].kind, tag |-> TagOf(p),
                     n |-> call[p].n, done |-> 0]
          /\ UNCHANGED call
       \/ /\ dev.phase = "drq"
          /\ call' = [call EXCEPT ![p].ignored = TRUE]
          /\ UNCHANGED dev
    /\ goto(p, IF call[p].kind = "read" THEN "wait" ELSE "drq")
    /\ UNCHANGED <<sched, diskMutex, occurFlag, diskWaiter, buf, irq>>

\* The first block of a write: DRQ without an interrupt.
waitDataRequest(p) ==
    /\ Executes(p, "drq")
    /\ dev.phase \in {"drq", "err"}
    /\ goto(p, IF dev.phase = "err" THEN "release" ELSE "clear")
    /\ UNCHANGED <<sched, diskMutex, occurFlag, diskWaiter, call, buf, irq, dev>>

\* A polling loop gives up (DRDY may be missing at any time); the stopwatch does not depend on the timer interrupt.
pollTimeout(p) ==
    /\ \/ Executes(p, "noBusy") /\ dev.phase = "busy"
       \/ Executes(p, "ready")
       \/ Executes(p, "drq") /\ dev.phase \in {"busy", "idle"}
    /\ goto(p, "release")
    /\ UNCHANGED <<sched, diskMutex, occurFlag, diskWaiter, call, buf, irq, dev>>

clearDiskInterruptFlag(p) ==
    /\ Executes(p, "clear")
    /\ occurFlag' = FALSE
    /\ goto(p, "data")
    /\ UNCHANGED <<sched, diskMutex, diskWaiter, call, buf, irq, dev>>

\* 256 words through the data port. A drive that does not ask for them (or asks
\* for the other direction) moves nothing.
moveSector(p) ==
    IF dev.phase = "drq" /\ dev.kind = call[p].kind
    THEN /\ buf' = [buf EXCEPT ![p] = Append(@, <<dev.tag, dev.done + 1>>)]
         /\ dev' = [dev EXCEPT !.done = @ + 1,
                               !.phase = IF dev.kind = "read" /\ dev.done + 1 = dev.n
                                         THEN "idle" ELSE "busy"]
    ELSE /\ buf' = [buf EXCEPT ![p] = Append(@, <<dev.tag, 0>>)]
         /\ UNCHANGED dev

\* One more sector is done: the next round of the loop, or the end of the call.
advance(p, point) ==
    /\ call' = [call EXCEPT ![p].i = @ + 1]
    /\ goto(p, IF call[p].i + 1 = call[p].n THEN "release" ELSE point)

\* Mutant of dataPort: readSector does not test the status.
dataPortIgnoresError(p) ==
    /\ Executes(p, "data")
    /\ moveSector(p)
    /\ \/ /\ call[p].kind = "read"
          /\ advance(p, "wait")
       \/ /\ call[p].kind = "write"
          /\ goto(p, "wait")
          /\ UNCHANGED call
    /\ UNCHANGED <<sched, diskMutex, occurFlag, diskWaiter, irq>>

\* In readSector the status test comes first, in writeSector waitInterrupt follows.
dataPort(p) ==
    /\ Executes(p, "data")
    /\ \/ /\ call[p].kind = "read" /\ dev.phase = "err"
          /\ goto(p, "release")
          /\ UNCHANGED <<call, buf, dev>>
       \/ /\ call[p].kind = "read" /\ dev.phase # "err"
          /\ moveSector(p)
          /\ advance(p, "wait")
       \/ /\ call[p].kind = "write"
          /\ moveSector(p)
          /\ goto(p, "wait")
          /\ UNCHANGED call
    /\ UNCHANGED <<sched, diskMutex, occurFlag, diskWaiter, irq>>

\* writeSector tests the status behind waitInterrupt.
statusTest(p) ==
    /\ Executes(p, "status")
    /\ \/ /\ dev.phase = "err"
          /\ goto(p, "release")
          /\ UNCHANGED call
       \/ /\ dev.phase # "err"
          /\ advance(p, "clear")
    /\ UNCHANGED <<sched, diskMutex, occurFlag, diskWaiter, buf, irq, dev>>

\* waitInterrupt returned TRUE.
interrupted(p) ==
    /\ goto(p, IF call[p].kind = "read" THEN "clear" ELSE "status")
    /\ UNCHANGED sched

\* Mutant of blockFor: the waiter does not register.
blockUnregistered(p, ticks) ==
    /\ sched' = sleepUntilTick(sched, ticks)
    /\ goto(p, "block")
    /\ UNCHANGED diskWaiter

\* Register as the waiter and sleep for these ticks.
blockFor(p, ticks) ==
    /\ diskWaiter' = p
    /\ sched' = sleepUntilTick(sched, ticks)
    /\ goto(p, "block")

\* Mutant of waitInterrupt: the flag is cleared here, behind the drive's answer.
waitInterruptClears(p) ==
    /\ Executes(p, "wait")
    /\ occurFlag' = FALSE
    /\ blockFor(p, WAIT_TICKS)
    /\ UNCHANGED <<diskMutex, call, buf, irq, dev>>

\* waitInterrupt: with IF=0 from the test of the flag to the blocking. Its callers
\* run with IF=1: only readInformation is called with IF=0, and it polls DRQ.
waitInterrupt(p) ==
    /\ Executes(p, "wait")
    /\ IF occurFlag THEN interrupted(p) /\ UNCHANGED diskWaiter
       ELSE blockFor(p, WAIT_TICKS)
    /\ UNCHANGED <<diskMutex, occurFlag, call, buf, irq, dev>>

\* Mutant of waitInterruptWoken: every waking starts a new timeout.
waitInterruptForever(p) ==
    /\ p = Running /\ at[p] = "block"
    /\ IF occurFlag THEN interrupted(p) /\ diskWaiter' = NULL
       ELSE blockFor(p, WAIT_TICKS)
    /\ UNCHANGED <<diskMutex, occurFlag, call, buf, irq, dev>>

\* Behind the switch: flag first, then the deadline. wakeupTick counts down to
\* the deadline whether p sleeps or not.
waitInterruptWoken(p) ==
    /\ p = Running /\ at[p] = "block"
    /\ IF occurFlag THEN interrupted(p) /\ diskWaiter' = NULL
       ELSE IF sched.wakeupTick[p] = 0
            THEN goto(p, "release") /\ diskWaiter' = NULL /\ UNCHANGED sched
            ELSE blockFor(p, sched.wakeupTick[p])
    /\ UNCHANGED <<diskMutex, occurFlag, call, buf, irq, dev>>

\* releaseLock, and the call returns call[p].i. (Its arguments and its buffer are no
\* longer Disk.c's.)
releaseLock(p) ==
    /\ Executes(p, "release")
    /\ diskMutex' = handOff(diskMutex)
    /\ sched' = wakeupProcess(sched, HeadOf(diskMutex.waitList))
    /\ goto(p, "run")
    /\ call' = [call EXCEPT ![p] = noCall(call[p].parity)]
    /\ buf' = [buf EXCEPT ![p] = <<>>]
    /\ UNCHANGED <<occurFlag, diskWaiter, irq, dev>>

InCall(p) ==
    \/ lockReturns(p) \/ waitNoBusy(p) \/ waitReady(p) \/ command(p)
    \/ waitDataRequest(p) \/ pollTimeout(p) \/ clearDiskInterruptFlag(p)
    \/ dataPort(p) \/ statusTest(p) \/ waitInterrupt(p) \/ waitInterruptWoken(p)
    \/ releaseLock(p)

Interrupts == primaryDiskInterruptHandler \/ timerInterruptHandler

Drive == driveAnswers \/ driveFails

Next ==
    \/ Interrupts
    \/ Drive
    \/ \E p \in Clients :
         InCall(p) \/ \E kind \in Ops, n \in SectorCounts : begin(p, kind, n)

Spec == Init /\ [][Next]_vars

-----------------------------------------------------------------------------
\* Inside Disk.c a process owns diskMutex, so only one at a time talks to the
\* drive, also across the blocking in waitInterrupt.
OneAtATheDrive ==
    /\ TypeOK
    /\ \A p \in Clients :
        at[p] \notin {"run", "lock"} => diskMutex.pid = p /\ diskMutex.count = 1

\* waitInterrupt's comment: with IF=0 no interrupt can be missed between the test
\* of the flag and the blocking. A process that sleeps in it has not been
\* signalled, and the handler knows it.
NoMissedInterrupt ==
    \A p \in Clients :
        at[p] = "block" /\ sched.state[p] = BLOCKED =>
            ~occurFlag /\ diskWaiter = p /\ p \in Elems(sched.sleepList)

\* The answer of the drive to the command of a process that waits for it is never
\* lost: its interrupt is pending or its flag is set. (Clearing the flag comes
\* before the step that lets the drive answer.)
AnswerSignalled ==
    \A p \in Clients :
        /\ at[p] \in {"wait", "block"} /\ ~call[p].ignored
        /\ dev.phase # "busy"
        => irq \/ occurFlag

\* Each of the sectors a call reports was moved by the drive for this very call
\* and in order, whatever earlier calls timed out and answered late, unless the
\* drive ignored the command of this call.
OwnSectors ==
    \A p \in Clients : ~call[p].ignored =>
        \A k \in 1 .. call[p].i : buf[p][k] = <<TagOf(p), k>>

\* Disk.c:129: sendDiskCommand waits, because a command sent before the previous one
\* ended is ignored. So none is, and every sector a call reports is its own.
ReportedSectorsOwn ==
    \A p \in Clients :
        \A k \in 1 .. call[p].i : buf[p][k] = <<TagOf(p), k>>

(***************************************************************************)
(* Fairness: the timer ticks whenever IF is 1 again and again, a process   *)
(* that is scheduled again and again executes its next instruction, and a  *)
(* pending interrupt is taken. Nothing is assumed of the drive.            *)
(***************************************************************************)
FairSpec ==
    /\ Spec
    /\ SF_vars(timerInterruptHandler)
    /\ SF_vars(primaryDiskInterruptHandler)
    /\ \A p \in Clients : SF_vars(InCall(p))

\* README: every wait on the disk ends by a timeout. A call returns although the
\* drive may never answer and other processes queue for the same drive.
CallReturns == \A p \in Clients : at[p] # "run" ~> at[p] = "run"
=============================================================================
