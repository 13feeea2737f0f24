---------------------------- MODULE PrivateCPUs ----------------------------
(***************************************************************************)
(* What the context switch promises to a program: a processor of its own.  *)
(* Nothing but the program's own instructions, and the results of its own  *)
(* system calls, ever changes its registers, its privilege level or the    *)
(* place it executes at. Module Trap implements this on one processor.     *)
(***************************************************************************)
EXTENDS Integers

CONSTANTS Procs,    \* process identities
          Results   \* what an instruction or a system call can leave in a register

FAIL == -1          \* SYSCALL_FAIL

VARIABLE cpus       \* for every live process, the processor it believes to own

Processor == [own : Procs, ring : {0, 3}, reg : Results \cup Procs \cup {FAIL}]

Live == DOMAIN cpus

Init == cpus \in [{0, 1, 2} -> Processor] /\ \A p \in Live : cpus[p].own = p

\* p computes, or gets the result of a system call; getpid answers p itself.
Step(p) ==
    \E v \in Results \cup {p, FAIL} : cpus' = [cpus EXCEPT ![p].reg = v]

Start(p, ring) ==
    /\ p \notin Live
    /\ \E v \in Results :
         cpus' = [q \in Live \cup {p} |->
                    IF q = p THEN [own |-> p, ring |-> ring, reg |-> v] ELSE cpus[q]]

End(p) == cpus' = [q \in Live \ {p} |-> cpus[q]]

Next ==
    \/ \E p \in Live : Step(p) \/ End(p)
    \/ \E p \in Procs, ring \in {0, 3} : Start(p, ring)

Spec == Init /\ [][Next]_cpus
=============================================================================
