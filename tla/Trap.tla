-------------------------------- MODULE Trap --------------------------------
(***************************************************************************)
(* How the kernel is entered and left: interrupts (PIC, IDT stubs, the     *)
(* handler table and end-of-interrupt), exceptions, the system call gate   *)
(* and the two kinds of context switch, with the memory they save register *)
(* contents in. The scheduler they call is that of module Process.         *)
(*                                                                         *)
(* All interrupts and exceptions use one stack, the IST; the system call   *)
(* gate uses the stack TSS.rsp0 points at. An interrupt that switches      *)
(* processes exchanges the frame on the IST with the context in the PCB; a *)
(* kernel function that blocks saves itself in the PCB (switchContext) and *)
(* leaves its caller's registers on the stack it runs on.                  *)
(*                                                                         *)
(* A register context is reduced to whose program it belongs to, the ring, *)
(* one register, and whether it is inside a kernel function (then IF=0 and *)
(* stk is the stack with the caller's registers).                          *)
(***************************************************************************)
EXTENDS Process, FiniteSets

CONSTANTS Millis,      \* arguments of sleepProcess
          MaxKeys,     \* bound: length of the key queue
          Strays,      \* lines without a handler that may raise an interrupt
          CreateRings  \* the rings processes are created for: 3 runUserProgram,
                       \* 0 createProcess

ASSUME TrapAssumption ==
    /\ Millis \subseteq Nat
    /\ MaxKeys \in Nat \ {0}
    /\ Strays \subseteq 3 .. 13
    /\ CreateRings \subseteq {0, 3}

IRQ_TIMER     == 0
IRQ_KEYBOARD  == 1
IRQ_SLAVE_PIC == 2
IRQ_DISK1     == 14
IRQ_DISK2     == 15

DiskLines == {IRQ_DISK1, IRQ_DISK2}

\* registerInterruptHandler was called for these.
Handled == {IRQ_TIMER, IRQ_KEYBOARD} \cup DiskLines

Lines == Handled \cup Strays

RUN  == -1   \* a program or a kernel function it called executes
HALT == -2   \* the endless loop of exceptionHandler

IST    == -2
Stacks == Pids \cup {IST}
FAIL   == -1        \* SYSCALL_FAIL
Values == {0, 1}    \* register contents a program can compute

VARIABLES
    sched,             \* the scheduler structure (module Process)
    allocProcessTable,
    exitProcessQueue,
    cpu,               \* the registers of the processor
    pcb,               \* the context field of every PCB
    stack,             \* the frame at the top of every kernel stack and of the IST
    phase,             \* RUN, HALT, or the line whose handler runs
    service,           \* the in-service bits of the two PICs, as a set of lines
    keyQueue,          \* number of characters in the key queue
    keyWaiter,
    occurFlag          \* isPrimaryInterruptOccur, isSecondaryInterruptOccur

vars == <<sched, allocProcessTable, exitProcessQueue, cpu, pcb, stack, phase,
          service, keyQueue, keyWaiter, occurFlag>>

kernelVars == <<sched, allocProcessTable, exitProcessQueue, pcb, keyQueue,
                keyWaiter, occurFlag>>

Running == sched.runningProcess

\* The context of p's program with value v in its register.
Program(p, ring, v) ==
    [own |-> p, ring |-> ring, reg |-> v, kernel |-> FALSE, stk |-> NULL]

\* p inside a kernel function that will return v; its caller's registers are
\* the frame on stack k.
InKernel(p, k, v) ==
    [own |-> p, ring |-> 0, reg |-> v, kernel |-> TRUE, stk |-> k]

\* No context: what a load leaves behind. The bytes stay in memory in the code;
\* whoever loaded them a second time would run in an outdated context.
None == Program(NULL, 0, 0)

Contexts ==
    [own : Pids \cup {NULL}, ring : {0, 3}, reg : Values \cup Pids \cup {FAIL},
     kernel : BOOLEAN, stk : Stacks \cup {NULL}]

TypeOK ==
    /\ sched \in SchedType
    /\ allocProcessTable \subseteq Pids
    /\ exitProcessQueue \in Seq(Pids)
    /\ cpu \in Contexts
    /\ pcb \in [Pids -> Contexts]
    /\ stack \in [Stacks -> Contexts]
    /\ phase \in {RUN, HALT} \cup Lines
    /\ service \subseteq Lines \cup {IRQ_SLAVE_PIC}
    /\ keyQueue \in 0 .. MaxKeys
    /\ keyWaiter \in {NULL, Shell}
    /\ occurFlag \in [DiskLines -> BOOLEAN]

\* After Main: the boot context runs the shell, interrupts are on.
Init ==
    /\ sched = initScheduler
    /\ allocProcessTable = {Shell, Collector, Idle}
    /\ exitProcessQueue = <<>>
    /\ cpu = Program(Shell, 0, 0)
    /\ pcb = [p \in Pids |-> IF p \in {Collector, Idle} THEN Program(p, 0, 0) ELSE None]
    /\ stack = [k \in Stacks |-> None]
    /\ phase = RUN
    /\ service = {}
    /\ keyQueue = 0 /\ keyWaiter = NULL /\ occurFlag = [line \in DiskLines |-> FALSE]

-----------------------------------------------------------------------------
(* The two PICs and the interrupt stubs.                                    *)

\* The in-service bits a request sets when it is accepted.
bits(line) == IF line >= 8 THEN {line, IRQ_SLAVE_PIC} ELSE {line}

\* Priority on each PIC is by line number; the slave is line 2 of the master.
onMaster(line) == IF line >= 8 THEN IRQ_SLAVE_PIC ELSE line

\* A device may raise its line at any moment and the PIC keeps the request until
\* it can be delivered: so any line that is not held back by one in service may
\* be the next to interrupt.
deliverable(line) ==
    /\ \A b \in service : b < 8 => onMaster(line) < b
    /\ line >= 8 => \A b \in service : b >= 8 => line < b

InterruptsOn == phase = RUN /\ ~cpu.kernel

\* The processor acknowledges the request and enters through its gate; the stub
\* saves all registers on the IST.
acceptInterrupt(line) ==
    /\ InterruptsOn
    /\ deliverable(line)
    /\ service' = service \cup bits(line)
    /\ stack' = [stack EXCEPT ![IST] = cpu]
    /\ phase' = line
    /\ UNCHANGED <<kernelVars, cpu>>

Lowest(S) == CHOOSE b \in S : \A c \in S : b <= c

\* Mutant of sendEOI: the slave is not told.
sendEOIMasterOnly(pin) ==
    LET master == {b \in service : b < 8}
    IN  service \ (IF master = {} THEN {} ELSE {Lowest(master)})

\* A non-specific EOI clears the in-service bit with the highest priority of a
\* PIC: the master always, the slave for its own pins.
sendEOI(pin) ==
    LET master == {b \in service : b < 8}
        slave  == {b \in service : b >= 8}
    IN  service \ ( (IF master = {} THEN {} ELSE {Lowest(master)})
                    \cup (IF pin < 8 \/ slave = {} THEN {} ELSE {Lowest(slave)}) )

\* The stub reloads the registers from the frame on the IST and returns; the
\* PCBs are as timeoutSchedule left them.
iretq(frame, contexts) ==
    /\ cpu' = frame
    /\ stack' = [stack EXCEPT ![IST] = None]
    /\ pcb' = contexts

\* The handler left the scheduler as s. When timeoutSchedule chose another process
\* its two memcpy have exchanged the frame: IST to the old PCB, new PCB to the IST.
exchange(s) ==
    IF s.runningProcess = Running THEN iretq(stack[IST], pcb)
    ELSE iretq(pcb[s.runningProcess],
               [pcb EXCEPT ![Running] = stack[IST], ![s.runningProcess] = None])

\* Mutant of timerInterruptHandler: the interrupt is not acknowledged.
timerNoEOI ==
    /\ sched' = timeoutSchedule(wakeExpiredProcess(tickCount(sched)))
    /\ exchange(sched')
    /\ UNCHANGED <<keyQueue, occurFlag, service>>

timerInterruptHandler ==
    /\ sched' = timeoutSchedule(wakeExpiredProcess(tickCount(sched)))
    /\ service' = sendEOI(IRQ_TIMER)
    /\ exchange(sched')
    /\ UNCHANGED <<keyQueue, occurFlag>>

\* A code that is no character leaves the queue and the waiter alone; a full
\* queue drops the character but wakes the waiter.
keyboardInterruptHandler ==
    /\ \/ /\ keyQueue' = IF keyQueue = MaxKeys THEN keyQueue ELSE keyQueue + 1
          /\ sched' = wakeupProcessInInterrupt(sched, keyWaiter)
       \/ UNCHANGED <<sched, keyQueue>>
    /\ service' = sendEOI(IRQ_KEYBOARD)
    /\ exchange(sched')
    /\ UNCHANGED occurFlag

\* Primary and secondary. Nobody waits for a drive in this module (Disk models who
\* does).
diskInterruptHandler(line) ==
    /\ occurFlag' = [occurFlag EXCEPT ![line] = TRUE]
    /\ service' = sendEOI(line)
    /\ exchange(sched)
    /\ UNCHANGED <<sched, keyQueue>>

\* A vector without a handler is reported on the screen and not acknowledged.
unhandled ==
    /\ exchange(sched)
    /\ UNCHANGED <<sched, keyQueue, occurFlag, service>>

\* The handler runs to its end with IF=0.
dispatchInterrupt(line) ==
    /\ phase = line
    /\ \/ line = IRQ_TIMER /\ timerInterruptHandler
       \/ line = IRQ_KEYBOARD /\ keyboardInterruptHandler
       \/ line \in DiskLines /\ diskInterruptHandler(line)
       \/ line \in Strays /\ unhandled
    /\ phase' = RUN
    /\ UNCHANGED <<allocProcessTable, exitProcessQueue, keyWaiter>>

-----------------------------------------------------------------------------
(* Kernel functions called by programs: a system call from ring 3, a call   *)
(* instruction from ring 0.                                                 *)

\* Mutant of entryStack: the system call gate uses the IST like all others.
entryStackIST == IF cpu.ring = 3 THEN IST ELSE cpu.own

\* The stack the caller's registers are saved on: the gate 0x81 has no IST and
\* takes TSS.rsp0; a kernel thread calls on its own stack.
entryStack == IF cpu.ring = 3 THEN sched.rsp0 ELSE cpu.own

\* switchContext itself: the running process saves context c, next is loaded.
switchContext(next, c) ==
    /\ cpu' = pcb[next]
    /\ pcb' = [pcb EXCEPT ![Running] = c, ![next] = None]

\* The scheduler became s and the caller, which will return v, switches to s's
\* running process.
switchFrom(s, v) ==
    /\ sched' = s
    /\ stack' = [stack EXCEPT ![entryStack] = cpu]
    /\ switchContext(s.runningProcess, InKernel(cpu.own, entryStack, v))

Calls(p) == InterruptsOn /\ Running = p /\ p \notin {Collector, Idle}

compute(p) ==
    /\ Calls(p)
    /\ \E v \in Values : cpu' = [cpu EXCEPT !.reg = v]
    /\ UNCHANGED <<kernelVars, stack, phase, service>>

\* SYSCALL_GETPID, SYSCALL_WRITEXY (0, or FAIL for a bad line, column or string)
\* and numbers without a function: no switch, the result goes into the frame.
syscallReturns(p) ==
    /\ Calls(p) /\ cpu.ring = 3
    /\ \E v \in {Running, 0, FAIL} : cpu' = [cpu EXCEPT !.reg = v]
    /\ UNCHANGED <<kernelVars, stack, phase, service>>

\* SYSCALL_SLEEP, or sleepProcess in a kernel thread.
sleepProcess(p) ==
    /\ Calls(p)
    /\ \E ms \in Millis : switchFrom(sleepUntilTick(sched, ticksOf(ms)), 0)
    /\ UNCHANGED <<allocProcessTable, exitProcessQueue, phase, service,
                   keyQueue, keyWaiter, occurFlag>>

\* getKey with a key in the queue.
getKey(p) ==
    /\ Calls(p) /\ p = Shell
    /\ keyQueue > 0
    /\ keyQueue' = keyQueue - 1
    /\ UNCHANGED <<sched, allocProcessTable, exitProcessQueue, cpu, pcb, stack, phase,
                   service, keyWaiter, occurFlag>>

getKeyBlocks(p) ==
    /\ Calls(p) /\ p = Shell
    /\ keyQueue = 0
    /\ keyWaiter' = p
    /\ switchFrom(blockRunningProcess(sched), 1)
    /\ UNCHANGED <<allocProcessTable, exitProcessQueue, phase, service,
                   keyQueue, occurFlag>>

\* Behind the switch, still with IF=0: the loop of getKey goes on.
getKeyAgain ==
    /\ keyQueue = 0
    /\ keyWaiter' = Running
    /\ sched' = blockRunningProcess(sched)
    /\ switchContext(sched'.runningProcess, cpu)
    /\ UNCHANGED <<stack, keyQueue>>

\* The caller's registers come back from the stack, with the result.
pop ==
    /\ cpu' = [stack[cpu.stk] EXCEPT !.reg = cpu.reg]
    /\ stack' = [stack EXCEPT ![cpu.stk] = None]

\* The kernel function returns to its caller's registers on the stack it runs on,
\* with its result in the register; iretq or setIf turns interrupts on.
returnToCaller ==
    /\ IF keyWaiter = Running THEN keyQueue > 0 /\ keyQueue' = keyQueue - 1
       ELSE UNCHANGED keyQueue
    /\ keyWaiter' = IF keyWaiter = Running THEN NULL ELSE keyWaiter
    /\ pop
    /\ UNCHANGED <<sched, pcb>>

resume ==
    /\ phase = RUN /\ cpu.kernel /\ Running # Collector
    /\ \/ keyWaiter = Running /\ getKeyAgain
       \/ returnToCaller
    /\ UNCHANGED <<allocProcessTable, exitProcessQueue, phase, service,
                   occurFlag>>

\* createProcess and runUserProgram, called by the shell. Which free slot the
\* search takes is modelled in Scheduler. The register is RDI, the argument: the
\* others keep what the slot's last process left in them, because setUpProcess
\* gives InitializeMemory a size where it takes an end address.
createProcess(p) ==
    /\ Calls(p) /\ p = Shell
    /\ \E pid \in Pids \ allocProcessTable, ring \in CreateRings, arg \in Values :
         /\ sched' = makeReady(sched, pid)
         /\ allocProcessTable' = allocProcessTable \cup {pid}
         /\ pcb' = [pcb EXCEPT ![pid] = Program(pid, ring, arg)]
    /\ UNCHANGED <<exitProcessQueue, cpu, stack, phase, service, keyQueue,
                   keyWaiter, occurFlag>>

\* exitProcess, on the stack k: the frame there and the saved context of the dead
\* process are never used.
exitProcess(k) ==
    /\ exitProcessQueue' = Append(exitProcessQueue, Running)
    /\ sched' = scheduleBlocked([wakeupProcess(sched, Collector)
                                    EXCEPT !.state[Running] = EXITED])
    /\ stack' = [stack EXCEPT ![k] = None]
    /\ switchContext(sched'.runningProcess, None)
    /\ UNCHANGED <<allocProcessTable, phase, service, keyQueue, keyWaiter,
                   occurFlag>>

\* SYSCALL_EXIT, or the end of a kernel thread.
exit(p) == Calls(p) /\ p # Shell /\ exitProcess(entryStack)

-----------------------------------------------------------------------------
(* Exceptions. The processor pushes an error code for some vectors; the     *)
(* stub of a vector has to know which, to find the saved CS.                *)

Vectors == 0 .. 20

\* For these the processor pushes an error code.
ErrorCodes == {8, 10, 11, 12, 13, 14, 17}

\* Mutant of EXC_ERRCODE: AlignmentCheck has the stub of its neighbours.
EXC_ERRCODENoAlignment == {8} \cup 10 .. 14

\* The vectors whose stub expects one.
EXC_ERRCODE == {8} \cup 10 .. 14 \cup {17}

RPL_USER == 3
CODE_DESCRIPTOR == 16
USER_CODE_DESCRIPTOR == 32

\* The words above the saved registers: error code (its value plays no role), RIP, CS.
\* Instructions are at any address.
Frame(vector, ring, rip) ==
    LET cs == IF ring = 3 THEN USER_CODE_DESCRIPTOR + RPL_USER ELSE CODE_DESCRIPTOR
    IN  IF vector \in ErrorCodes THEN <<0, rip, cs>> ELSE <<rip, cs>>

\* EXC reads the second word, EXC_ERRCODE the third.
savedCS(vector, frame) == IF vector \in EXC_ERRCODE THEN frame[3] ELSE frame[2]

\* A fault of the running program. From ring 3 the process is ended, on the IST;
\* from ring 0 the handler prints and halts for ever.
exceptionHandler(p) ==
    /\ Calls(p)
    /\ \E vector \in Vectors, rip \in 0 .. 3 :
         IF savedCS(vector, Frame(vector, cpu.ring, rip)) % 4 = RPL_USER
         THEN exitProcess(IST)
         ELSE /\ phase' = HALT
              /\ stack' = [stack EXCEPT ![IST] = cpu]
              /\ UNCHANGED <<kernelVars, cpu, service>>

halted == phase = HALT /\ UNCHANGED vars

-----------------------------------------------------------------------------
(* garbageProcessCollector, at its loop head or behind blockRunningProcess.  *)

collectorTurn == phase = RUN /\ Running = Collector

collectorBlocks ==
    /\ collectorTurn
    /\ exitProcessQueue = <<>>
    /\ IF cpu.kernel
       THEN /\ sched' = blockRunningProcess(sched)
            /\ switchContext(sched'.runningProcess, cpu)
            /\ UNCHANGED stack
       ELSE switchFrom(blockRunningProcess(sched), 0)
    /\ UNCHANGED <<allocProcessTable, exitProcessQueue, phase, service,
                   keyQueue, keyWaiter, occurFlag>>

collectorReclaims ==
    /\ collectorTurn
    /\ exitProcessQueue # <<>>
    /\ exitProcessQueue' = Tail(exitProcessQueue)
    /\ allocProcessTable' = allocProcessTable \ {Head(exitProcessQueue)}
    /\ IF cpu.kernel THEN pop ELSE UNCHANGED <<cpu, stack>>
    /\ UNCHANGED <<sched, pcb, phase, service, keyQueue, keyWaiter,
                   occurFlag>>

Collecting == collectorBlocks \/ collectorReclaims

Next ==
    \/ \E line \in Lines : acceptInterrupt(line) \/ dispatchInterrupt(line)
    \/ \E p \in Pids :
         \/ compute(p) \/ syscallReturns(p) \/ sleepProcess(p)
         \/ getKey(p) \/ getKeyBlocks(p) \/ createProcess(p)
         \/ exit(p) \/ exceptionHandler(p)
    \/ resume
    \/ Collecting
    \/ halted

Spec == Init /\ [][Next]_vars

-----------------------------------------------------------------------------
(* Correctness.                                                            *)

\* Where p's program has its registers now: on the processor, on the IST while a
\* handler runs, in the PCB, or on the stack p's kernel function returns from.
Saved(p) ==
    IF p # Running THEN pcb[p] ELSE IF phase = RUN THEN cpu ELSE stack[IST]

View(p) ==
    LET c == IF Saved(p).kernel THEN stack[Saved(p).stk] ELSE Saved(p)
    IN  [own |-> c.own, ring |-> c.ring, reg |-> c.reg]

LiveProcesses == {p \in allocProcessTable : sched.state[p] # EXITED}

Private == INSTANCE PrivateCPUs
              WITH Procs <- Pids, Results <- Values,
                   cpus <- [p \in LiveProcesses |-> View(p)]

\* Interrupts, blocking system calls and switches are invisible to programs: each
\* finds its registers, ring and place exactly as it left them, plus the result
\* of its own system call, although all interrupts share one stack.
ContextsPrivate == Private!Spec

\* Every accepted line that has a handler is acknowledged at both PICs before the
\* handler returns, to whichever process: only a line without a handler stays in
\* service.
Acknowledged ==
    /\ TypeOK
    /\ phase = RUN => service \subseteq UNION {bits(line) : line \in Strays}

\* README: a fault in ring 3 ends that process only; the system stops for a fault
\* of kernel code alone.
RingThreeCannotHalt == phase = HALT => View(Running).ring = 0

(***************************************************************************)
(* Fairness: the PIT raises its line for ever and the PIC holds a request, *)
(* so a timer interrupt that is deliverable again and again is taken;      *)
(* kernel code with IF=0 goes on; the collector gets whole time slices.    *)
(* Programs owe nothing: one in ring 3 may compute for ever.               *)
(***************************************************************************)
FairSpec ==
    /\ Spec
    /\ SF_vars(acceptInterrupt(IRQ_TIMER))
    /\ WF_vars(\E line \in Lines : dispatchInterrupt(line))
    /\ WF_vars(resume)
    /\ SF_vars(Collecting)

\* A key reaches the shell that waits for it, whatever ring 3 programs do and
\* although a line without a handler may stay in service for ever.
KeyReachesShell ==
    keyWaiter = Shell /\ keyQueue > 0 ~> keyWaiter = NULL \/ phase = HALT
=============================================================================
